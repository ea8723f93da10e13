# BikesNest: a TLA+ verification project

BikesNest is a server-rendered Rust web application (axum, sqlx, PostgreSQL) in
which cyclists collect, correct, review and moderate bicycle-parking listings.
This directory holds TLA+ modules translated from its source, the TLC
configurations that check them on small instances, and theorems about them that
TLAPS checks for every value of the constants. `PROJECT.json` lists the runs,
the source lines behind every definition, the hazards each property is for, and
for every property a mutation of the code that breaks it.

## 1. Inventory

PostgreSQL is the only shared state. Web processes (one task per request), worker
processes (one loop each) and the inline mail dispatcher (a task of a request)
change it in transactions at READ COMMITTED; correctness rests on predicates in
single `UPDATE`s, on row locks taken in some order, and on unique indexes.

| Component | State | Operations | Interacts with | Hard behaviour |
|---|---|---|---|---|
| Job queue (`infrastructure/src/job`) | `background_job` rows: state, attempts, run_at, lease, claimed_by, schedule, payload | enqueue, register_recurring, claim, claim_id, heartbeat, finish_success, retry, reschedule_after_failure, fail, finalize_exhausted_leases, gc | every writer of mail; account deletion and retention end its rows | leases, stale claims, crashes, late answers, rolling deploys |
| Listing collaboration (`infrastructure/src/community/contribution.rs`, `voting.rs`, `moderation/actions.rs`) | `parking_location` (state, version, facts), `parking_revision`, `parking_proposal`, votes | create, create_proposal, vote_on_proposal, approve, reject, set_parking_state, apply_edit, restore revision | accounts (eligibility), account deletion, notifications | votes of many users against moderators, supersession, version checks |
| Accounts and credentials (`application/src/auth.rs`, `infrastructure/src/auth`) | `users`, `authentication_identities`, `sessions`, verification and reset tokens, `user_roles` | register, verify, resend, login, logout, reset, change password/email, suspend, restore, grant, revoke | mail outbox, account deletion | check before a slow hash, act after it; re-registration; last admin |
| Mail outbox (`auth/outbox.rs`, `job/repo.rs`, `job/email.rs`) | mail rows of `background_job` with their credential binding | admission with the transition, delivery with revalidation | job queue, accounts, retention | state changes between admission and delivery |
| Photos (`application/src/photo.rs`, `infrastructure/src/photo`, `storage.rs`) | photo rows, objects in S3 | upload, approve, reject, hide, restore, orphan sweep, reconciliation | reviews, retention | two stores, no common transaction |
| Reviews (`community/review.rs`) | `review`, `review_revision`, the rating on the listing | write, edit, hide, restore | listings, accounts, erasure | aggregate against concurrent writers, lock orders |
| Verifications (`community/verification.rs`, `domain/src/freshness.rs`) | `verification`, `last_verified_at` | record, stamp, expire | listings, erasure, retention | badges derived from rows in motion |
| Favourites (`community/favorite.rs`) | `favorite` | toggle | erasure | double clicks |
| Reports and moderation (`application/src/moderation.rs`, `infrastructure/src/moderation`) | `report`, audit events | file, claim, resolve, dismiss, hide, publish | every content table | two moderators on one item, a resolution in three statements |
| Privacy (`application/src/privacy.rs`, `infrastructure/src/privacy`) | privacy requests, exports, policies, acknowledgements | request, export, download, delete account, retention, publish and acknowledge policy | every table | erasure against concurrent writers, single use, evidence |
| Rate limiter (`auth/rate_limit.rs`) | sliding windows in ValKey or memory | check | auth, contributions | late scripts, sweeps, a map at its limit |
| CPU admission (`cpu.rs`) | two semaphores | run | password hashing, images | dropped callers, tasks that outlive them |
| Lists (`list`, `history`, `*_page` of the repositories) | a cursor in a link | read a page | every table | rows that move while they are read |
| Search and details (`parking/search.rs`, `application/src/search.rs`, `parking/details.rs`) | a cursor in a link | count, page, viewport, details | listings, geocoding | several statements, keys computed anew |
| Opening hours (`domain/src/hours.rs`, migration 0020, `routes/contribution_form.rs`) | rows per day | parse, show, open now | search, details, forms | three implementations, midnight |
| Web layer (`crates/web`) | cookies, tokens, audit rows | session middleware, every route, replies | application services | failures between steps, retries, several tabs |
| i18n, templates, browser scripts | none | rendering | web layer | none |
| Configuration, seeding, dev data | none at run time | start-up | all | none |

What makes each component correct, and where it is at risk:

- **Job queue.** A claim is a lease, so several processes may believe they own a
  row; only the one whose token the row carries may write its outcome. A row is
  tried at most `JOBS_MAX_ATTEMPTS` times although the claim does not look at the
  attempts of a pending row; a settled job stays settled; the payload of a mail (it
  carries a raw token link) does not outlive the delivery; every job ends, and the
  recurring ones never stop, over crashes, lost answers and rolling deploys.
- **Accounts.** Every request checks, hashes for a long time, and then acts. What it
  acts on must still be what it checked: links belong to the credential in force,
  activation has been proved by the holder of the address, a superseded session does
  not survive, notices go to the address that was in force, and a link that can be used
  is in nobody's mailbox but the owner's, however late its message was sent.
- **Administrators.** Two administrators who remove each other at the same moment
  must not both succeed.
- **Listings.** A change is published once, over the version it was proposed
  against, by enough eligible voters, and never on its author's own vote; the history
  has no gap; erasing an account removes its name from all of it.
- **Photos.** No row without an object, no object of a row lost to a sweep, one
  position for each photo, decisions that stand, and nothing left lying about.
- **Reviews.** The rating is what the visible reviews say, the newest revision is the
  one on view, names need consent, what a moderator hid stays hidden, and the writers
  do not wait for each other in a circle.
- **Verifications.** Freshness keeps up with the confirmations, a conflict is not
  outvoted, and time alone makes nothing look fresher.
- **Reports.** One moderator decides a report, once, and not his own; what it is about
  goes off view with it; who left is forgotten, but for a request the erasure overtook.
- **Privacy.** An export is one moment of the data and leaves once; deletions are on
  file before they happen; what was acknowledged was in force; retention goes on when
  a step of it fails.
- **Rate limiter, CPU admission.** Never above the limit; permits come back once.
- **Lists and search.** Whoever follows the links has seen everything that stood still.
- **Opening hours.** The page, the search and the form mean the same.
- **Web layer.** A refusal did nothing, a write was entitled, a row of the audit log is
  true, who is told that it is done finds the row there, and one tab does not act for
  another.
- **Geocoding, i18n, configuration.** Providers, wording and start-up code; their state
  changes belong to the components above.

`PROJECT.json` lists under "hazards" the lines where this is hard to test.

## 2. Modules and the code behind them

| Module | Models | State | Steps |
|---|---|---|---|
| `JobQueue` | `job/repo.rs`, `job/worker.rs`, `job/schedule.rs`, `email/queue.rs`, the mail statements of `privacy/anonymize.rs` and `privacy/retention.rs` | `rows` (the table), `active` (attempts under way), the loop of each worker | one per statement or loop step: `Enqueue`, `Register`, `FinalizeExhaustedLeases`, `Claim`, `InlineClaim`, `HandlerEnds`, `Heartbeat`, `WriteOutcome`, `Anonymize`, ... and their failures `ClaimLost`, `OutcomeLost`, `HeartbeatError`, `RegisterError`, `Crash` |
| `Accounts` | `application/auth.rs`, `auth/outbox.rs`, `auth/session_store.rs`, `auth/token_store.rs`, `job/email.rs`, the deletion flow of `application/privacy.rs` | users with their password identity, live tokens with the mailboxes their links are in, live sessions, requests under way, the outbox | a `Begin...` step for the reads of a request and a step for its transaction |
| `AdminRoles` | the guards of `auth/account_repo.rs` and `privacy/anonymize.rs` | ADMIN rows, account states, transactions under way | one per statement that reads, locks or may wait |
| `Listings` | `community/contribution.rs`, `community/voting.rs`, `moderation/actions.rs` (proposals and takedown), `application/community.rs`, `application/moderation.rs` | one listing with revisions, proposals, votes, the accounts behind them, requests under way, the vote that holds the rows | one per transaction; a vote is three, a rejection may wait |
| `JobContract` | what clients of the queue rely on | one phase and a count of tries per job | accept, try, put back, end, start over, drop |
| `Photos` | `application/photo.rs`, `photo/repository.rs`, `storage.rs`, the photo statements of `moderation/actions.rs`, both sweeps of `privacy/retention.rs` | rows, objects, uploads and moderators under way, the retention job | one per call to a store or statement, each of which may fail with or without effect |
| `Reviews` | `community/review.rs`, and every transaction that locks the same rows | reviews, revisions, listings, accounts, transactions with their row locks | one per row lock, statement, commit and rollback |
| `Reports` | `moderation/report.rs`, `application/moderation.rs` | reports, the content they are about, requests under way | a request is admitted and later files, claims or resolves; a resolution is read, update and hide as three steps |
| `Signals` | `community/verification.rs`, `domain/freshness.rs`, `confidence` and `recommendation_reasons` | signals, `last_verified_at`, the day | record and stamp as two steps; days pass |
| `Exports`, `Requests`, `Terms` | `privacy/export.rs`, `request.rs`, `policy.rs`, `policy_seed.rs`, `application/privacy.rs`, `routes/legal.rs` | exports and who is asking; requests and who is leaving; releases, evidence and the release lock | one per statement; a request is admitted before its first one; erasure by the owner and, in `Requests`, by retention |
| `Retention` | `RetentionJob::run` | the steps still to come and those that failed | a step works or fails; a run ends |
| `Admission` | `cpu.rs`, its callers in `auth/password.rs` and `photo/processor.rs` | permits, places, the line, callers, tasks without a caller | admit, stand in line, start, leave, finish, be dropped |
| `Limiter` | `auth/rate_limit.rs` | windows per key, the map, scripts under way in ValKey | check, run a script late, degrade, tick |
| `Favourites` | `community/favorite.rs` | the row version that is there, toggles under way | arrive, take the snapshot, act; erasure |
| `Feeds` | eight lists: `favorite.rs`, `history.rs`, `report.rs`, `audit.rs`, `photo/repository.rs`, `contribution.rs` and the queue of proposals | rows that are open, committed or gone, a reader with a cursor | rows come, go and are escalated; the reader reads pages |
| `Search` | `parking/search.rs`, `application/search.rs`, `application/ports.rs`, `routes/search.rs` | listings with their facts, a reader with a link | resolve, count, read, follow the link; a listing changes |
| `Reading` | `Feeds` and `Search` together | theirs | theirs |
| `Hours` | `domain/hours.rs`, `bikesnest_is_open_at`, `routes/contribution_form.rs` | a week and a moment, in seconds | resave through the form, which shows minutes; a second passes |
| `EditForm` | `parking/details.rs`, `parking_edit_page`, `parking_edit_post`, the merge | a listing in three parts, forms half read, proposals | read a part, post, merge, take down |
| `Steps`, `Services`, `Handlers`, `Web` | the methods of the application services and the handlers of all routes, the session middleware, `htmx.rs`, the error answers | the request in hand, how often each act was committed, the audit log | one per kind of step; every failure the code lists, a lost acknowledgement, and a retry |
| `Browser` | `web/auth.rs` and `web/security.rs` as the tabs of a browser meet them | two cookies, a token and a policy per tab, sessions | navigate, answer, submit, sign in and out, expire |

`MCJobQueue`, `MCAccounts`, `MCAdminRoles`, `MCListings` give TLC its instances.
`MCContent`, `MCUpkeep` and `MCPages` put modules that share no state side by side: a
variable `part` names the one that runs and the others rest in a first state, so the
states add up instead of multiplying and one run covers several components.
The eight modules `...Proofs` hold the theorems: one each for `AdminRoles`, `Listings`,
`Accounts` and `Reviews`, and `JobQueueProofs` (`JobQueue`, `Admission`, `Exports`),
`ContentProofs` (`Reports`, `Photos`, `Signals`), `ReadingProofs` (`Feeds`, `Search`,
`Hours`, `EditForm`) and `PagesProofs` (`Requests`, `Terms`, `Favourites`, `Browser`,
`Web`, `Limiter`). Where two
components meet in one row the module of each has the other's transaction as an
action: account deletion, which reaches into all of them, is an action of each, with
the part of its transaction that concerns the module; the takedown of a listing is in
`Reviews`, `Signals` and `EditForm`; `Reviews` has the row locks of a proposal. In the
same way `Web` has each act of a service as one commit, and the module of the component
has what that commit does.

**Refinement.** `JobQueue` implements `JobContract` (`Contract == INSTANCE JobContract
WITH ...`, property `ImplementsContract`). The mapping `PhaseOf` forgets leases, claims,
clocks and workers: a row is waiting, being tried, or over, and its tries are its
attempts. That a late answer, a crash or a cancelled mail is a step of the contract or
none at all is what the fence, the sweep and the attempt counter are for.

**Handlers as data.** A handler runs alone with its request, so it is written as the
sequence of its steps in the order of the code and a table of replies (`Handlers`),
which calls the sequences of the services (`Services`); `Web` interprets them. The
order of gate, check, act and audit is thereby in the data, and the failures are in the
interpreter, the same for every route.

How steps are cut. A transaction that starts by locking the row all its rivals lock
is one step. Where the code does not take that lock, each statement is a step:

- *Administrators.* `SELECT ... FOR UPDATE` fixes its rows when it starts and
  returns, after waiting, those that still exist; a row granted meanwhile is not
  among them. `Snapshot` and `LockAdmins` are therefore two steps.
- *Votes.* `vote_on_proposal` locks the listing and the proposal, but no `users` row.
  Suspension and erasure fall between its eligibility check, its count and its
  record. The UPDATE of `users` in an erasure does not wait for the key-share lock
  that a vote's foreign key holds, because the unique index on the address is on an
  expression. Retention's erasure does take the row `FOR UPDATE`; the model lets it
  interleave as the user's own deletion does, which allows more than the code.
- *Rejection.* It locks the proposal alone. When it meets a vote it waits, looks
  again at the status, and records the counts its statement's snapshot had.
- *Requests.* A session is resolved, and a base version read, before the transaction.
- *Jobs.* Every statement of the queue is atomic; everything between two is not.
- *Reviews.* Every row lock is a step, since the order of the locks is the question.
- *Photos, exports, reports, requests.* No transaction spans their stores or
  statements, so each call is a step, and the process may stop between any two.
- *Favourites, lists.* A statement has a snapshot and a moment at which it acts; a row
  has its number and time before it is visible. A DELETE takes only the row version its
  snapshot showed. A row that came since stays, and the INSERT beside it meets the key.
- *Reports, privacy requests, favourites.* The session middleware admits a request, and
  no statement after that looks at the account, so an erasure may fall in between.

What is abstracted. Times are ticks relative to the clock, and among rows already due
only the order is kept. Payloads, names, wording, audit events (but for `Web`, and the approvals one
reports) and the validation of facts are left out. A credential is fresh with every
submission, as its salt is. A fact of a listing is known by the proposal that brought
it. Rate limits are refusals that may happen, except in `Limiter`. Only live tokens and sessions are kept,
since the others never count again. `apply_edit` is not
modelled, as no route reaches it. The set of moderators is fixed. A user's public
name is on by default, as migration 0025 has it. A delivery is the hand-over to the
provider, under the lock of the message; a link may be followed before it is delivered,
which allows more than the code. What the rows themselves do not tell is kept beside
them: which mailboxes a link was put into since the account has its address (`held`) and which names were written after the erasure (`late`). No guard
reads these.

## 3. Runs

| Run | Instance | Shows |
|---|---|---|
| `job_mail` | 1 worker, 1 inline dispatcher, 1 mail, 1 job without handler, 2 attempts, 2 faults | fence, redaction and the contract when a lease expires under a slow handler and the account is deleted |
| `job_recurring` | 2 workers, `jobs.gc`, every row an older release may have left, 2 faults | a complete bootstrap is lasting, whatever a claim taken before it writes afterwards |
| `job_live` | 1 worker, 1 mail, retention, 1 fault, fair | every mail settles, the recurring job runs for ever |
| `acct_links` | 1 account, 2 addresses, 3 credentials, 2 tokens, 2 sessions, 2 requests | links, sessions, activation and notices follow the credential and the address in force |
| `acct_addresses` | 2 accounts, 2 addresses, 2 messages | the login key follows the address; a message that waits through changes of the address puts no usable link into a stranger's mailbox |
| `admin_seats` | 3 accounts, 2 administrators, 2 transactions, 2 grants | without grants an administrator, and after a suspension an active one, remains |
| `listing_flow` | 3 accounts (1 moderator), 2 proposals, threshold 2, an unreadable legacy proposal, 3 versions, 4 requests, 1 suspension or erasure | the properties of section 1 for listings |
| `content` | 2 uploads, 2 moderators; 3 transactions on 1 listing; 2 reports, 2 requests; 2 riders, 2 signals, days at the limits | photos, reviews, reports, verifications |
| `upkeep` | 1 upload, 1 moderator; 1 export, 2 downloads; an outage of the store; 4 callers for 2 permits and 2 places, fair | what must not leak and what must go on |
| `pages` | every route, 5 principals, 1 retry; 2 tabs, 2 accounts; 3 rows in pages of 1; 3 listings, 5 orders; all weeks of 3 days of 4 seconds in minutes of 2; 2 editors; 3 clicks, 4 row versions; 2 releases; 3 requests of a user and an administrator; 3 keys | the web layer, lists, search, hours, forms, evidence, limiters |
| `acct_leave` | as `acct_links`, 1 session | violated, see section 6 |
| `listing_erasure` | 2 accounts, 1 proposal | violated, see section 6 |

Properties that name a component are conjunctions of the ones stated and explained in
its module: `PhotosAreSafe` is `RowHasObjects`, `PositionsDistinct`,
`PublishedRowStays` and `DecisionStands`; `ReviewsAreSafe` is `RatingIsExact`,
`NewestVersionIsCurrent`, `NamedNeedsConsent` and `HiddenStaysHidden`; `ReportsAreSafe`
has five parts beside the types, `BadgesAreHonest` three, `AnswersAreHonest` of `Web` five;
`ReadingIsComplete` joins the walks of `Feeds` and `Search`; `HoursAreSound` is of `Hours`,
`LimiterIsSound` of `Limiter`, `TabsAreSafe` of `Browser`, `EditsAreSound` of `EditForm`,
`TermsAreEvidenced` of `Terms`, `RequestsAreEvidenced` of `Requests`,
`AdmissionIsSound` and `LineMoves` of `Admission`.

Why the bounds are enough for the interesting cases. Two attempts are the least with
a first, a last and an exhausted one; a lease of two ticks separates "expires now" from
"has expired"; two faults allow a crash and a lost answer in one history. Three
credentials are the one in force, the one a request has read and the one it brings.
Two transactions are what a conflict needs, three accounts are a remover, a removed
and one appointed meanwhile. Threshold 2 with three accounts lets a proposal reach the
threshold, fall short of it by a suspension, and be decided by a moderator instead;
two proposals are a winner and a rival; three versions allow a publication and a
takedown in one history. Two uploads on one target can be approved at once, two
moderators can decide against each other while the retention job is half way. Three
transactions let a writer overtake another while a third holds a row that both want.
Two signals can agree, conflict or replace each other, and the days chosen lie on both
sides of the limits of 90, 180 and 365. Four callers leave, with two permits and two
places, one that is turned away once an orphaned task holds a permit. One retry is the
least that can leave an act done and its audit row lost, or make up for it. Two tabs and two accounts let a form of one be sent
with the cookies of the other. Pages of one row make every row a cursor; three rows
leave one before, one at and one after it. Three days make "yesterday" differ from
"tomorrow" and wrap; four seconds in two minutes have ranges that touch, overlap, cross
midnight, close when they open and lie within one minute; the first and the last of them are filled in (`FilledDays`), so that
a night runs on over the end of the week. Three clicks and four row versions let a row be
removed and put back between the snapshot of a toggle and its act. A user and an
administrator are, for a privacy request, the one who asks and the one who fulfils it,
and either may be erased in between. Two addresses and two messages let a link wait in
the outbox while its account changes to the other address and a stranger takes the first.

One case is left out by a guard: two photos of the two tables `parking_photo` and
`review_photo` with the same id and the same microsecond. The queue of photos pages by
`(created_at, id)` (`photo/repository.rs`), and this is the one tie that order cannot break; `OpenRow` of `Feeds`
has no such pair, and the walk of that list is complete up to it. For every property `PROJECT.json` names a change of the code
that breaks it under the same bounds. Bounds that the code does not have (`Seqs`,
`MaxFaults`, `Tokens`, `MaxGrants`, `MaxVersion`, `MaxRequests`, `MaxWrites`,
`MaxReports`, `MaxSignals`, `MaxFlips`, `MaxTick`, ...) are marked as bounds where they
are declared.

Deadlock is checked in the runs of the queue and the accounts. The others may stop (all
accounts erased, every upload decided, or a bound reached), so it is not checked there;
`DeadlockNeedsErasure` is about row locks. Symmetry covers user ids, addresses, request
slots, transactions, proposals, uploads, moderators, tabs and ordinary users, none of
which the modules order; the runs with liveness, `job_live` and `upkeep`, use none. `acct_links`
takes states that differ in `held` alone for one (`VIEW`): no guard reads it, and none of
that run's properties does.

**Fairness.** `FairSpec` of `JobQueue` (`job_live`): the clock advances. A worker that
is down is restarted by its supervisor (`main.rs`). Its loop keeps polling: it retries
an incomplete bootstrap between polls and sweeps exhausted leases in front of each
claim. These two are strongly fair, because the loop enables them again and again and
not continuously. Handlers end (`handler_timeout`), an outcome write is attempted, a
drain ends (`shutdown_grace`). Faults are finitely many. That somebody enqueues, deletes
an account or sends a heartbeat is not assumed.

`UpkeepFairness` (`upkeep`): the retention job comes round for ever, which is what
`RecurringKeepsRunning` shows of the queue. Its listings, probes and deletes are strongly
fair: a call to the store may fail any number of times, but not for ever while it is
tried again and again. In `Retention` itself not even that is assumed: the steps in
`Outage` may fail in every run, and the others still get their turn. Requests end, time
passes. Blocking tasks end, and a caller that was woken is polled or dropped. That a
moderator decides, a client downloads or a waiting caller times out is not assumed.

## 4. Proofs

All for every value of the constants, from the named ASSUMEs of the modules (the sets
of jobs are disjoint, numbers are natural, NULL is not a value, users are finitely
many, at least one administrator at the start); TLC evaluates these in each run. One of
them is about the table of routes, not a parameter: `HandlersInOrder`, see `PagesProofs`.
Every invariant that a passing run checks is stated by a theorem.

**`JobQueueProofs`**: `TypeCorrect`, `BudgetIsRespected`, `FenceIsSound`,
`MailIsRedacted`, `BootstrapIsLasting`, `SettledStaysSettled`, `ContractIsKept`. The fence
(`HolderSnapshotCurrent`) speaks of whoever holds a live lease and is not inductive:
a lease may be over now and the row still carry the claim. `IInv` therefore says
that as long as a row carries an attempt's token, with or without a lease, nothing
has touched what the attempt read (`ClaimSnapshot`), that tokens are unique
(`ClaimsUnique`), and that a row which is not running carries none (`OwnedRowsRun`).
The lasting bootstrap needs that a pass without failures has scheduled the keys it
has behind it (`PassHasScheduled`), and the absence of a handler concerns plain jobs
only (`HandlerlessIsPlain`), or else giving up could end a recurring one.
`ContractIsKept` is the refinement, `Spec => Contract!Spec`: under `IInv` every action
is, for each job, a step of `JobContract` or none. A claim is a try, and the budget says
that one was left; an outcome written by the holder ends the try or puts the job back;
the late answer of anyone else changes no row.

`AdmissionSound`: permits taken and permits free add up to the
limit, and so do the places; whoever waits stands in line exactly once; tasks without a
caller still count. The sums are of cardinalities, with the library's facts about finite
sets. `ExportsSafe`: `OneTaker` says that one request at most has taken an export and
not yet handed it over, and that an export which is ready has not left, which is why a
copy leaves once; `PayloadsAreOneMoment` says that what an export under way has gathered
is one state of the data.

**`AdminRolesProofs`**: `AdminTypeCorrect`, `SeatsStayLocked`, `FloorHolds`,
`SuspensionIsSafe`. Beside the locks, the invariant `Safe` says what a guard relies
on while nobody has been granted the role: no grant is under way, a guard's snapshot
and later its locks contain every seat (`GuardsMissNoSeat`), a suspension past its
count holds its target's row, and what it counted still stands (`CountStands`). The
argument is that two guards past their SELECT would both hold every seat, and there
is at least one, so there is only one such guard (`OneGuardAtATime`). This is what a
grant destroys (section 6).

**`ListingsProofs`**: `ListingTypeCorrect`, `PendingStaysCurrent`, `VoteChecksHold`,
`NobodyApprovesTheirOwn`, `NamesNeedConsent`, `ProposersAreLive`, `DecisionsAreFinal`,
`HistoryStaysComplete`, `EnoughApproved`. The invariant joins these with
`FreeHasNoVotes`; the history has an invariant of its own (`HInv`: the revisions are as
many as the version, the last is the listing, and each approved proposal is the step
after its base), which needs that pending proposals are current. `EnoughApproved`
(`PublishedByEnough`) compares two counts: what a vote tallied and what its decision
records later. `CountStands` says that a vote past its tally has counted at most the
approvals that are still eligible plus the suspensions and erasures so far; each of
those takes at most one approval away (`TallyLosesOne`), and nobody else can vote on a
proposal whose rows are locked.

**`AccountsProofs`**: `TypesHold`, `LinksMatch`, `KeyFollows`, `OnlyLateSessions`,
`LinksReach`, and the action properties `ActivationProven` and `OwnerNotified`, all
from `Inductive` (`IInv`). The invariants need each other: a link matches the credential
in force because every change of the credential ends the links of the account in the
same transaction, and the change finds its row because the login key follows the
address. `AccountsWhole` adds which parts of an account, a token, a session and a
request under way are there in which state. A session opened with an older credential is
one whose login read the credential before the change and inserted after it (`late`).
`LinksReach` (`LinksReachTheOwner`) needs beside `IInv` that a message with a live link is
for the account of that link (`MailNamesItsOwner`), since the delivery checks the address
of the account that the message names. Every step moves a link in one of five ways: it
leaves it as it is, puts it into a mailbox, ends it, issues it, or changes the address of
its account, after which a reset link counts as in no mailbox. `EveryMove` shows
that there is no sixth, and `LinkStep` that each leaves the link with its owner.

**`ReviewsProofs`**: `OnlyErasureDeadlocks`, `ReviewsSafe`, from `ReviewsInductive`.
Without locks neither the rating nor the newest revision is stable, so `ReviewsInv` says
which locks a transaction has at each step (`LocksAreHeld`), that what it read under
them still stands (`ReadsStand`), and that a user has one review of a listing
(`OneReviewEach`). For deadlocks the writers other than an erasure take listing,
account, review in this order, and a cycle of waits would have to descend in it; an
erasure takes the account first.

**`ContentProofs`**: `ReportsSafe` from `ReportsInductive`, `PhotosSafe` from
`PhotosInductive`, `BadgesHonest` from `SignalsInductive`. For reports, `RequestsRead`
says that a resolution under way is of a report its moderator did not file, unless an
erasure has cut the report loose, and that an open report has no verdict. `NamesAreLate`
says that a report which names an erased account was given the name by a request the
erasure overtook; filing, claiming and resolving write names, and the erasure takes all
three out of every row that has one of them. For photos,
`PhotosInv` follows the three actors across two stores. What an upload under way has put
is there, and it has no row yet (`UploadsInOrder`); the objects that the sweep is about
to delete are nobody's, and the row that the reconciliation is about to drop is dead, or
one whose insert committed and was reported as failed (`JobIsCareful`); a moderator past
his read holds the lock of the target, his row still waits for him, and the position he
computed is above all others of the target (`ModeratorsInOrder`). Only one request
commits a given row (`OneCommitEach`), so positions stay below the number of uploads
that are done (`PositionsBelow`). For signals, `StampsInOrder` says that nothing is
dated after today and that a request about to stamp has recorded a confirmation. The
badge is a function of what the latest words say and of a number of days (`Badge`); more
days reach at least as many thresholds (`BandGrows`), and of the statements only a
rider's own next word or an erasure changes what is that rider's latest.

**`ReadingProofs`**: `FeedsComplete`, `SearchSound` and, of both, `ReadingComplete`. No
induction over the pages is needed: the invariant says at every moment where the reader
stands. In a list (`FeedsInv`) a row that stayed is ahead of the cursor until it is shown
(`UnshownIsAhead`) and what was shown is behind it (`ShownIsBehind`); no two rows share a
sort key (`KeysDiffer`), so the last row of a page separates the two. That a page with
nothing after it ends the walk is an argument about the order: every finite set of
rows has a first one, and a row that is not on a page of `PageLimit` rows is after all of them.
In a search (`SearchInv`) what stayed matches (`UnmovedMatches`), was shown exactly if it is
behind the cursor (`LaterPagesGoOn`), and a cursor that came with the address of another
search does not count for the first page (`FirstPageIsFresh`). `HoursSound`: the two
definitions of open, of the page and of the database, and a third one on the line of time
around the week say the same of every week, for any length of week, day and minute; a week
that came from an accepted form comes back from the form to the minute, since each day has
at most two ranges, which do not overlap, and the earlier is the first, with and without
the seconds. The form is refused exactly if a stored range lies within one minute. `EditsSound`: a form that carries
the current version was read from what the listing holds now (`FormsAreCurrent`), because
the version is read with the first of the three parts.

**`PagesProofs`**: `RequestsEvidenced`: whoever is past the record has the request on
file, under their own name or, once an erasure has been there, under none
(`LeavingIsOnFile`); an erasure takes both names out of every request that has one of
them, so that a row which names an erased account was written by a request the erasure
overtook (`QueueForgets`), and a fulfilled request changes in no other way (`FulfilledOnce`). `TermsEvidenced`: releases are in line, each superseded by the
next at the moment that one takes effect (`ReleasesInLine`), so the last in effect is
the one in force; who has decided holds the advisory lock and the account's row
(`DecisionsHold`), so that no release comes between the decision and its commit.
`FavouritesSound`: the answer is what the statement did: a removal took the very row its
snapshot showed, an addition found none, and a conflict means that a row which came since
the snapshot is there and stays. `TabsSafe`: a token tells whom the page was rendered for, and
one given to visitors is never a session's (`TokensTellReaders`); an answer on its way
that no change of a cookie or a session overtook carries the token the server expects
(`AnswersAreCurrent`); a map on its way comes with a document of its own
(`MapsAreLoaded`).

`WebHonest`: the argument has two halves. `HandlerInOrder` says of a handler by itself
that a reply which turns away comes before its first write, that a write is behind the
check of its right, that a partial is behind the test for htmx, that an audit row comes
after the act it tells of, and that no success is answered before the rows of the log
were seen to (`RowsDone`), except where the second run finds the act done and answers
early: approving a photo, rejecting one, revoking a role (`AnsweredEarly`). This is
the assumption `HandlersInOrder`, which has no parameter: the table is finite and concrete
and TLC evaluates it for every handler, sequences of the services included. The other half
is proved from it for the interpreter, with any set of principals and any number of retries:
a handler under way has its token, has passed its first steps and has written only what
they say (`RunsInOrder`), whatever failed, was lost or was tried again. `LimiterSound`: a
window never holds more than `Limit` records (`RecordsAreFew`), and what was let through in
an open window, or will be when its script's answer arrives, has a record there
(`PassedIsRecorded`); in memory the records of a bucket are no younger than its last
use (`MapIsCurrent`), so that sweeping one that has lapsed forgets nothing.

**Only model-checked**: liveness (`OneShotSettles`, `RecurringKeepsRunning`,
`LeftoversGo`, `RetentionGoesOn`, `LineMoves`), since the prover handles neither
fairness nor ENABLED; and `HandlersInOrder`, a fact about one concrete table of
sequences of steps, which is evaluated and not reasoned about. `BudgetIsRespected`, `SettledStaysSettled`, `NobodyApprovesTheirOwn`,
`SeatsStayLocked` and the types of the accounts are proved and not properties of a run:
the first two are what the contract asks of a step. No module with a theorem reaches a RECURSIVE
operator.

## 5. What is not modelled

`PROJECT.json` gives the reason for each component. Formatting (views, i18n, mail
templates, Markdown), observability and job health, start-up code (configuration,
wiring, seeding, development data) and test support change none of the state above.
The image pipeline, PostGIS and the providers of mail, geocoding and identity are
outcomes. The cache and the budget in front of the geocoders, duplicate detection, the
sitemap and the purges that are one DELETE are left out.

PostgreSQL is taken to do what it documents: READ COMMITTED snapshots, row locks, unique
indexes, one victim of a wait cycle. Retention locks the `users` row and then the ADMIN
rows, a suspension the ADMIN rows and then the `users` row; the database ends that wait,
and `AdminRoles` has it as `Abort`. The store is taken to apply each call once or not at
all, whatever it answers. A provider that accepts a mail only after the timeout of the
call, when the row may be unlocked and the account changed, is outside the model. An upload is taken to last less than the hour that the
reconciliation grants, which no timeout of the code enforces.

## 6. Where the code and its own words disagree

Two runs are histories of it:

- `acct_leave`: `request_deletion` finds the password identity by the address the
  session was resolved with. If an address change is confirmed in between, it finds
  none and treats the account as one without a password; its documentation says the
  password is required for password accounts.
- `listing_erasure`: `create`, a vote past its check and a moderator's decision write
  the id of an account that has been erased since the request was admitted;
  `create_proposal` locks the `users` row against just this, the others do not.

The following are stated in the modules, and TLC refutes each when it is added to the
run of its module (`admin_seats`, `content`, `upkeep`, `pages`). What the runs check
instead is the part that holds.

- `AdminRemains`: an administrator appointed after a guard's snapshot is not among the
  rows it locks. If the snapshotted one is removed meanwhile, the guard sees no
  administrator, takes its target for an ordinary user, and removes the only one
  (`account_repo.rs`, `revoke_role_guarded`). Checked: `FloorHoldsWithoutGrants`.
- `ActiveAdminRemains`: the floor of a suspension counts active administrators, the
  floors of a revocation and an erasure count rows: suspend one, then demote the other.
- `RowHasObjects` without its exception: an insert that commits and is reported as
  failed has its objects undone; the row stays until reconciliation deletes it.
- `RejectedBytesGo`: when the delete of a rejected photo's objects fails, the orphan
  sweep does not take them later, because the rejected row still refers to them.
- `PagesSkipNothing`: reviews are ordered by `created_at` and paged by id; two writers
  whose transactions overlap can have the two in opposite order.
- `NoWriteAfterTakedown`: `upsert_review` locks the listing and does not look at its
  state again, so a review is written to a listing taken down after `require_active`.
- `NoSelfResolve`: an erasure of any party clears all three names of a report, and the
  guard against resolving one's own report then has nothing to compare.
- `CountIsThePage`: count and rows are two statements, between which a listing changes.
- `AuditedSuccess`: an approval that committed and whose audit row failed is answered
  with a success on the next click, and is never audited. So are the rejection of a photo
  and the revocation of a role; everything else makes up for the row. Checked:
  `SuccessIsAudited`.
- `ForgottenStaysForgotten`: `submit_report`, `claim_report` and `resolve_report` write
  the name of whoever was signed in when the request was admitted, also after the erasure.
  Checked: `NamesAreLate`.

Others that the models show without a definition of their own: a takedown of a
resolved report's target that meets a conflict answers 409 although the report is
closed; a failed audit row turns a committed act into an error (an added listing, a
download whose file is then gone, a deletion that has happened); linking an OAuth
identity is not audited while creating an account is; a non-material release supersedes
a material one nobody has acknowledged yet; a deletion refused for the last
administrator leaves its request open; an escalation repeats a row in the queue of
proposals; a toggle admitted before an erasure leaves a favourite of the erased account,
and one that meets a row put back since its snapshot ends in an error; erasing an
administrator takes the subjects out of the requests that administrator fulfilled
(`anonymize.rs`, one UPDATE for both columns); a reset link that was delivered before a
change of address stays usable from the old mailbox, as the confirmation ends
verification links only (`outbox.rs`); hours of 09:00:10 to 09:00:50 are accepted, shown
as 09:00 to 09:00, and then refused by the form that shows them; registering a pending
address again, and asking again for a verification, a reset or a change of address, issues
a new link and a new mail each time; the next page of a search resolves the words of the destination again;
`ranges_overlap` takes the hours after midnight for hours of the same day.

## 7. Plan

Done: the modules above, with their runs; the theorems of section 4.

Left: the parts of section 5 that could be modelled, first the cache and the budget in
front of the geocoders, then duplicate detection.
