------------------------------ MODULE Reviews ------------------------------
(***************************************************************************)
(* Reviews of listings and the rating kept with each listing.              *)
(*                                                                         *)
(* Every writer is one READ COMMITTED transaction, given by the sequence   *)
(* of its statements and the rows each locks: an author writes or edits a  *)
(* review, a moderator hides or restores one or takes the listing down, a  *)
(* rider proposes a change (its locks only; Listings has the rest), an     *)
(* account withdraws its public name, an account is erased.  A statement   *)
(* locks its rows one after the other and waits for each; what it writes   *)
(* is seen by others at the commit.  A transaction of a wait cycle is      *)
(* aborted by the database, and any transaction may fail.                  *)
(***************************************************************************)
EXTENDS Integers, Sequences, FiniteSets, SequencesExt, FiniteSetsExt

CONSTANTS
  Authors,     \* accounts
  Places,      \* listings
  Ratings,     \* stars of a review, of 1..5
  MaxWrites,   \* how many transactions begin (bound)
  Nobody       \* a NULL reference, or no holder of a lock

\* Transactions, numbered as they begin; each is used once.
Writes == 1..MaxWrites

ASSUME ReviewConstantsOK ==
  /\ Ratings \subseteq 1..5
  /\ Nobody \notin Authors \cup Writes
  /\ IsFiniteSet(Authors) /\ IsFiniteSet(Places) /\ MaxWrites \in Nat

VARIABLES
  review,      \* the rows of review, by id
  versions,    \* the rows of review_revision of each review, oldest first
  place,       \* listing: its state, its creator and the rating kept with it
  account,     \* account: erased, and its public_contribution_name
  write,       \* the transactions
  rowlock,     \* who holds a row
  started      \* transactions begun: now() of a transaction is its place in it

reviewVars == <<review, versions, place, account, write, rowlock, started>>

Unused == [kind |-> "unused"]
Ended  == [kind |-> "ended"]
Active(w) == write[w] \notin {Unused, Ended}

MaxRows == MaxWrites
PlaceRow(p)  == <<"place", p>>
UserRow(a)   == <<"user", a>>
ReviewRow(i) == <<"review", i>>
Rows == {PlaceRow(p) : p \in Places} \cup {UserRow(a) : a \in Authors}
          \cup {ReviewRow(i) : i \in 1..MaxRows}

\* The reviews a listing shows, and those that gave it r stars.
Seen(rs, p) == {i \in DOMAIN rs : rs[i].place = p /\ rs[i].state = "ACTIVE"}
Given(rs, p, r) == {i \in Seen(rs, p) : rs[i].rating = r}

\* AVG(rating)::numeric(3,2) in hundredths, NULL (0) without reviews, and the count.
Aggregate(rs, p) ==
  LET stars(r) == Cardinality(Given(rs, p, r))
      n   == Cardinality(Seen(rs, p))
      sum == stars(1) + 2 * stars(2) + 3 * stars(3) + 4 * stars(4) + 5 * stars(5)
  IN [avg |-> IF n = 0 THEN 0 ELSE (200 * sum + n) \div (2 * n), count |-> n]

ReviewType == [place : Places, author : Authors \cup {Nobody}, rating : Ratings,
               state : {"ACTIVE", "HIDDEN"}, named : BOOLEAN, at : 1..MaxRows]

Kinds == {"review", "propose", "flip", "takedown", "consent", "erase"}
Stages == {"place", "user", "own", "row", "rows", "places", "commit"}

\* What a transaction has read and is about to do.
Transaction ==
  [kind : Kinds, stage : Stages, todo : SUBSET Rows, place : Places \cup {Nobody},
   who : Authors \cup {Nobody}, row : 0..MaxRows, rating : Ratings \cup {0},
   to : {"none", "HIDDEN", "ACTIVE", "on", "off"}, named : BOOLEAN,
   rated : [avg : Nat, count : Nat], at : Writes]

\* The tables, the transactions and their locks.
ReviewsTypeOK ==
  /\ review \in Seq(ReviewType) /\ Len(review) <= MaxRows
  /\ versions \in Seq(Seq(Ratings)) /\ Len(versions) = Len(review)
  /\ place \in [Places -> [state : {"ACTIVE", "INVALID"}, creator : Authors \cup {Nobody},
                          avg : 0..500, count : 0..MaxRows]]
  /\ account \in [Authors -> [erased : BOOLEAN, consent : BOOLEAN]]
  /\ write \in [Writes -> Transaction \cup {Unused, Ended}]
  /\ rowlock \in [Rows -> Writes \cup {Nobody}]
  /\ started \in 0..MaxRows
----------------------------------------------------------------------------
\* The statements of each transaction, in order, and the rows each locks.

\* Mutant: a review locks its author first and the listing afterwards.
MutStatements(kind) ==
  CASE kind = "review"   -> <<"user", "place", "own", "commit">>
    [] kind = "propose"  -> <<"place", "user", "commit">>
    [] kind = "flip"     -> <<"place", "row", "commit">>
    [] kind = "takedown" -> <<"place", "commit">>
    [] kind = "consent"  -> <<"user", "rows", "commit">>
    [] kind = "erase"    -> <<"user", "rows", "places", "commit">>

Statements(kind) ==
  CASE kind = "review"   -> <<"place", "user", "own", "commit">>
    [] kind = "propose"  -> <<"place", "user", "commit">>
    [] kind = "flip"     -> <<"place", "row", "commit">>
    [] kind = "takedown" -> <<"place", "commit">>
    [] kind = "consent"  -> <<"user", "rows", "commit">>
    [] kind = "erase"    -> <<"user", "rows", "places", "commit">>

Own(p, a) == {i \in DOMAIN review : review[i].place = p /\ review[i].author = a}
ByAuthor(a) == {i \in DOMAIN review : review[i].author = a}

\* An erasure updates every review of the account, a withdrawal of the name
\* the signed ones, and consenting none.
Touched(x) ==
  {i \in ByAuthor(x.who) : x.kind = "erase" \/ (x.to = "off" /\ review[i].named)}

\* Mutant: the location is not locked before the reviews are aggregated.
MutPlaceLock(x) == {}

\* lock_location_for_rating: SELECT ... FOR UPDATE of the listing.
PlaceLock(x) == {PlaceRow(x.place)}

\* SELECT public_contribution_name ... FOR UPDATE, or an UPDATE of users.
UserLock(x) == {UserRow(x.who)}

\* The rows that a statement of transaction x locks.
Locked(x, stage) ==
  CASE stage = "place"  -> PlaceLock(x)
    [] stage = "user"   -> UserLock(x)
    [] stage = "own"    -> {ReviewRow(i) : i \in Own(x.place, x.who)}
    [] stage = "row"    -> {ReviewRow(x.row)}
    [] stage = "rows"   -> {ReviewRow(i) : i \in Touched(x)}
    [] stage = "places" -> {PlaceRow(p) : p \in {q \in Places : place[q].creator = x.who}}
    [] stage = "commit" -> {}

Following(x) ==
  LET s == Statements(x.kind) IN s[(CHOOSE k \in DOMAIN s : s[k] = x.stage) + 1]
----------------------------------------------------------------------------
\* What each transaction writes.

\* DO UPDATE SET rating, body: the state and the attribution stay.
Edited(r, x) == [r EXCEPT !.rating = x.rating]

NewReview(x) ==
  [place |-> x.place, author |-> x.who, rating |-> x.rating, state |-> "ACTIVE",
   named |-> x.named, at |-> x.at]

\* INSERT ... ON CONFLICT (location_id, author_id) DO UPDATE
Upserted(x) ==
  IF Own(x.place, x.who) = {} THEN Append(review, NewReview(x))
  ELSE [i \in DOMAIN review |->
          IF i \in Own(x.place, x.who) THEN Edited(review[i], x) ELSE review[i]]

\* The revision holds the values just published.
Published(i, x) == x.rating

\* INSERT INTO review_revision, on the create path and the edit path alike.
Recorded(x) ==
  IF Own(x.place, x.who) = {} THEN Append(versions, <<x.rating>>)
  ELSE [i \in DOMAIN versions |->
          IF i \in Own(x.place, x.who) THEN Append(versions[i], Published(i, x)) ELSE versions[i]]

Flipped(x) == [review EXCEPT ![x.row].state = x.to]

Unsigned(x) == [i \in DOMAIN review |->
                  IF review[i].author = x.who THEN [review[i] EXCEPT !.named = FALSE] ELSE review[i]]

Anonymized(x) == [i \in DOMAIN review |->
                    IF review[i].author = x.who
                    THEN [review[i] EXCEPT !.named = FALSE, !.author = Nobody] ELSE review[i]]
----------------------------------------------------------------------------
\* A request begins its transaction.

Begin(w, kind, p, a, i, r, to) ==
  LET x == [kind |-> kind, stage |-> Head(Statements(kind)), todo |-> {}, place |-> p, who |-> a,
            row |-> i, rating |-> r, to |-> to, named |-> FALSE,
            rated |-> [avg |-> 0, count |-> 0], at |-> started + 1]
  IN /\ w = started + 1
     /\ write' = [write EXCEPT ![w] = [x EXCEPT !.todo = Locked(x, x.stage)]]
     /\ started' = started + 1
     /\ UNCHANGED <<review, versions, place, account, rowlock>>

\* ContributionService::upsert_review: verified, within the limit, and the
\* listing active when it is read, before the transaction.
ReviewPosted(w, p, a, r) ==
  /\ ~account[a].erased
  /\ place[p].state = "ACTIVE"
  /\ Begin(w, "review", p, a, 0, r, "none")

ProposalPosted(w, p, a) ==
  /\ ~account[a].erased
  /\ place[p].state = "ACTIVE"
  /\ Begin(w, "propose", p, a, 0, 0, "none")

\* set_review_state reads the listing of the review first.
FlipPosted(w, i, to) ==
  /\ i \in DOMAIN review
  /\ Begin(w, "flip", review[i].place, Nobody, i, 0, to)

TakedownPosted(w, p) == Begin(w, "takedown", p, Nobody, 0, 0, "none")

ConsentPosted(w, a, on) ==
  /\ ~account[a].erased
  /\ Begin(w, "consent", Nobody, a, 0, 0, on)

ErasurePosted(w, a) ==
  /\ ~account[a].erased
  /\ Begin(w, "erase", Nobody, a, 0, 0, "none")
----------------------------------------------------------------------------
\* The transaction runs.

Release(w) == [k \in Rows |-> IF rowlock[k] = w THEN Nobody ELSE rowlock[k]]

\* The statement under way locks a row that nobody else holds.
TakeLock(w, k) ==
  /\ Active(w) /\ k \in write[w].todo
  /\ rowlock[k] \in {Nobody, w}
  /\ rowlock' = [rowlock EXCEPT ![k] = w]
  /\ write' = [write EXCEPT ![w].todo = @ \ {k}]
  /\ UNCHANGED <<review, versions, place, account, started>>

\* The statement is over and the next begins.  A flip finds the review in
\* the other state (InvalidState), a takedown the listing (InvalidState), a
\* change of preference an account that is not live (Unauthorized): the
\* transaction ends.
Refused(x) ==
  \/ x.kind = "flip" /\ x.stage = "row" /\ review[x.row].state = x.to
  \/ x.kind = "takedown" /\ x.stage = "place" /\ place[x.place].state # "ACTIVE"
  \/ x.kind = "consent" /\ x.stage = "user" /\ account[x.who].erased

\* What the statement read: the preference, and the rating recomputed over
\* the committed reviews and the transaction's own.
Learned(x) ==
  CASE x.kind = "review" /\ x.stage = "user" -> [x EXCEPT !.named = account[x.who].consent]
    [] x.kind = "review" /\ x.stage = "own"  -> [x EXCEPT !.rated = Aggregate(Upserted(x), x.place)]
    [] x.kind = "flip" /\ x.stage = "row"    -> [x EXCEPT !.rated = Aggregate(Flipped(x), x.place)]
    [] OTHER -> x

NextStatement(w) ==
  LET x == write[w] IN
  /\ Active(w) /\ x.stage # "commit" /\ x.todo = {}
  /\ IF Refused(x)
     THEN write' = [write EXCEPT ![w] = Ended] /\ rowlock' = Release(w)
     ELSE /\ write' = [write EXCEPT ![w] =
               [Learned(x) EXCEPT !.stage = Following(x), !.todo = Locked(x, Following(x))]]
          /\ UNCHANGED rowlock
  /\ UNCHANGED <<review, versions, place, account, started>>

Rated(x) == [place EXCEPT ![x.place].avg = x.rated.avg, ![x.place].count = x.rated.count]

\* What the commit of each kind of transaction makes visible.
Effect(x) ==
  CASE x.kind = "review" ->
         /\ review' = Upserted(x) /\ versions' = Recorded(x) /\ place' = Rated(x)
         /\ UNCHANGED account
    [] x.kind = "propose" -> UNCHANGED <<review, versions, place, account>>
    [] x.kind = "flip" ->
         /\ review' = Flipped(x) /\ place' = Rated(x)
         /\ UNCHANGED <<versions, account>>
    [] x.kind = "takedown" ->
         /\ place' = [place EXCEPT ![x.place].state = "INVALID"]
         /\ UNCHANGED <<review, versions, account>>
    [] x.kind = "consent" ->
         /\ account' = [account EXCEPT ![x.who].consent = (x.to = "on")]
         /\ review' = IF x.to = "on" THEN review ELSE Unsigned(x)
         /\ UNCHANGED <<versions, place>>
    [] x.kind = "erase" ->
         /\ account' = [account EXCEPT ![x.who] = [erased |-> TRUE, consent |-> FALSE]]
         /\ review' = Anonymized(x)
         /\ place' = [p \in Places |->
              IF place[p].creator = x.who THEN [place[p] EXCEPT !.creator = Nobody] ELSE place[p]]
         /\ UNCHANGED versions

Commit(w) ==
  /\ Active(w) /\ write[w].stage = "commit"
  /\ Effect(write[w])
  /\ write' = [write EXCEPT ![w] = Ended]
  /\ rowlock' = Release(w)
  /\ UNCHANGED started

\* w waits for a row that v holds.
WaitsFor(w, v) ==
  /\ Active(w) /\ Active(v) /\ w # v
  /\ \E k \in write[w].todo : rowlock[k] = v

\* Every member of the set waits for another member of it.
Cycle(S) == S # {} /\ \A w \in S : \E v \in S : WaitsFor(w, v)

\* A failed statement, a stop, or the database breaking a wait cycle: a
\* rollback in each case.
Rollback(w) ==
  /\ Active(w)
  /\ write' = [write EXCEPT ![w] = Ended]
  /\ rowlock' = Release(w)
  /\ UNCHANGED <<review, versions, place, account, started>>
----------------------------------------------------------------------------
ReviewsInit ==
  /\ review = << >> /\ versions = << >>
  /\ \E c \in [Places -> Authors \cup {Nobody}] :
       place = [p \in Places |-> [state |-> "ACTIVE", creator |-> c[p], avg |-> 0, count |-> 0]]
  /\ account = [a \in Authors |-> [erased |-> FALSE, consent |-> TRUE]]
  /\ write = [w \in Writes |-> Unused]
  /\ rowlock = [k \in Rows |-> Nobody]
  /\ started = 0

ReviewsNext ==
  \E w \in Writes :
    \/ \E p \in Places, a \in Authors :
         (\E r \in Ratings : ReviewPosted(w, p, a, r)) \/ ProposalPosted(w, p, a)
    \/ \E i \in 1..MaxRows : FlipPosted(w, i, "HIDDEN") \/ FlipPosted(w, i, "ACTIVE")
    \/ \E p \in Places : TakedownPosted(w, p)
    \/ \E a \in Authors :
         ConsentPosted(w, a, "on") \/ ConsentPosted(w, a, "off") \/ ErasurePosted(w, a)
    \/ \E k \in Rows : TakeLock(w, k)
    \/ NextStatement(w) \/ Commit(w) \/ Rollback(w)

ReviewsSpec == ReviewsInit /\ [][ReviewsNext]_reviewVars
----------------------------------------------------------------------------
\* What the pages read.

\* list_active: newest first by (created_at, id), after the cursor.
Listed(p, after) ==
  SetToSortSeq({i \in DOMAIN review : /\ review[i].place = p /\ review[i].state = "ACTIVE"
                                      /\ after = 0 \/ i < after},
               LAMBDA i, j : \/ review[i].at > review[j].at
                             \/ review[i].at = review[j].at /\ i > j)

\* community_details_page: a page of n reviews, and whether there are more.
Page(p, after, n) == SubSeq(Listed(p, after), 1, n)
HasMore(p, after, n) == Len(Listed(p, after)) > n

\* The name shown beside a review: captured consent, and live consent now.
ShowsName(i) ==
  /\ review[i].named /\ review[i].author # Nobody
  /\ account[review[i].author].consent /\ ~account[review[i].author].erased
----------------------------------------------------------------------------
\* Properties.

\* The rating kept with a listing is the one of its active reviews, whatever
\* reviews, edits, hidings and restorations were under way at once
\* (recompute_rating: "in the same transaction (no drift)").
RatingIsExact ==
  \A p \in Places : [avg |-> place[p].avg, count |-> place[p].count] = Aggregate(review, p)

\* The newest revision of a review is what the listing shows (upsert_review).
NewestVersionIsCurrent ==
  \A i \in DOMAIN review : Last(versions[i]) = review[i].rating

\* A review is signed only while its author's preference allows it: neither a
\* withdrawal nor an erasure crosses a review that captured the consent
\* before it (set_public_contribution_name, anonymize).
NamedNeedsConsent ==
  \A i \in DOMAIN review : review[i].named => ShowsName(i)

\* Only a moderator's restore publishes a review that a moderator hid; an
\* author's edit does not (upsert_review).
HiddenStaysHidden ==
  [][\A i \in DOMAIN review :
       review[i].state = "HIDDEN" /\ review'[i].state = "ACTIVE"
         => \E w \in Writes : write[w].kind = "flip" /\ write'[w] = Ended]_reviewVars

\* What the writers of a listing's reviews promise, in whatever order they
\* take their locks: an exact rating, the newest revision on view, names only
\* with consent, and what a moderator hid stays hidden.
ReviewsAreSafe ==
  /\ [](ReviewsTypeOK /\ RatingIsExact /\ NewestVersionIsCurrent /\ NamedNeedsConsent)
  /\ HiddenStaysHidden

\* The inductive invariant behind these.

\* Which transactions lock the listing's row, and which the account's.
LocksPlace(x) == x.kind \in {"review", "propose", "flip", "takedown"}
LocksUser(x)  == x.kind \in {"review", "propose", "consent", "erase"}

TransactionWhole(x, w) ==
  /\ x \in Transaction /\ x.at = w
  /\ \E k \in DOMAIN Statements(x.kind) : Statements(x.kind)[k] = x.stage
  /\ LocksPlace(x) => x.place \in Places
  /\ LocksUser(x) => x.who \in Authors
  /\ x.kind = "review" => x.rating \in Ratings
  /\ x.kind = "flip" => /\ x.row \in DOMAIN review /\ review[x.row].place = x.place
                        /\ x.to \in {"HIDDEN", "ACTIVE"}

\* Transactions begin in order, and a row that one of them wrote keeps its
\* number: each writes one row at most.
WritesInOrder ==
  /\ \A w \in Writes : /\ w > started => write[w] = Unused
                       /\ Active(w) => TransactionWhole(write[w], w)
  /\ \A i \in DOMAIN review : write[review[i].at] = Ended
  /\ \A i, j \in DOMAIN review : review[i].at = review[j].at => i = j

\* The rows that the statements of x up to the one under way lock.
Reached(x) ==
  (IF LocksPlace(x) THEN {PlaceRow(x.place)} ELSE {})
  \cup (IF LocksUser(x) /\ x.stage # "place" THEN {UserRow(x.who)} ELSE {})
  \cup (CASE x.stage \in {"own", "commit"} /\ x.kind = "review" ->
               {ReviewRow(i) : i \in Own(x.place, x.who)}
          [] x.stage \in {"row", "commit"} /\ x.kind = "flip" -> {ReviewRow(x.row)}
          [] x.stage \in {"rows", "places", "commit"} /\ x.kind \in {"consent", "erase"} ->
               {ReviewRow(i) : i \in ByAuthor(x.who)}
          [] OTHER -> {})
  \cup (IF x.kind = "erase" /\ x.stage \in {"places", "commit"}
        THEN {PlaceRow(p) : p \in Places} ELSE {})

\* The rows that the statement under way may lock.
Current(x) ==
  CASE x.stage = "place"  -> {PlaceRow(x.place)}
    [] x.stage = "user"   -> {UserRow(x.who)}
    [] x.stage = "own"    -> {ReviewRow(i) : i \in Own(x.place, x.who)}
    [] x.stage = "row"    -> {ReviewRow(x.row)}
    [] x.stage = "rows"   -> {ReviewRow(i) : i \in ByAuthor(x.who)}
    [] x.stage = "places" -> {PlaceRow(p) : p \in Places}
    [] x.stage = "commit" -> {}

\* A statement that is over has its rows.
StatementsHold(x, w) ==
  /\ x.todo \subseteq Current(x)
  /\ LocksPlace(x) /\ (x.stage = "place" => x.todo = {}) => rowlock[PlaceRow(x.place)] = w
  /\ LocksUser(x) /\ x.stage # "place" /\ (x.stage = "user" => x.todo = {})
       => rowlock[UserRow(x.who)] = w

\* Nobody holds a row that its statements have not reached.
LocksAreHeld ==
  /\ \A w \in Writes, k \in Rows : rowlock[k] = w =>
       Active(w) /\ k \in Reached(write[w]) /\ k \notin write[w].todo
  /\ \A w \in Writes : Active(w) => StatementsHold(write[w], w)

\* What a transaction has read stands until it commits: the preference under
\* the lock of the account, the rating under the lock of the listing.
ReadStands(x) ==
  /\ x.kind = "review" /\ x.stage \in {"own", "commit"} => x.named = account[x.who].consent
  /\ x.kind = "consent" /\ x.stage \in {"rows", "commit"} => ~account[x.who].erased
  /\ x.kind = "review" /\ x.stage = "commit" => x.rated = Aggregate(Upserted(x), x.place)
  /\ x.kind = "flip" /\ x.stage = "commit" => x.rated = Aggregate(Flipped(x), x.place)

ReadsStand == \A w \in Writes : Active(w) => ReadStands(write[w])

\* UNIQUE (location_id, author_id), and an erased account consents to nothing.
OneReviewEach ==
  /\ \A i, j \in DOMAIN review :
       review[i].place = review[j].place /\ review[i].author = review[j].author
         /\ review[i].author # Nobody => i = j
  /\ \A a \in Authors : account[a].erased => ~account[a].consent

ReviewsInv ==
  /\ ReviewsTypeOK /\ WritesInOrder /\ LocksAreHeld /\ ReadsStand /\ OneReviewEach
  /\ RatingIsExact /\ NewestVersionIsCurrent /\ NamedNeedsConsent

\* "A review and a proposal by one user never deadlock" (upsert_review): no
\* wait cycle among the writers of a listing's reviews; the erasure of an
\* account, which locks the account first, is the only one that can close one.
DeadlockNeedsErasure ==
  \A S \in SUBSET {w \in Writes : Active(w)} :
    Cycle(S) => \E w \in S : write[w].kind = "erase"

\* "The two stay co-monotonic for this table's write pattern" (list_active):
\* paging by the id of the last review shown skips no review.
PagesSkipNothing ==
  \A p \in Places : Len(Listed(p, 0)) > 1 =>
    Page(p, 0, 1) \o Listed(p, Page(p, 0, 1)[1]) = Listed(p, 0)

\* "The repositories re-check inside their transactions so a state flip
\* mid-request cannot slip a write through" (require_active): no review is
\* written to a listing that is not active.
NoWriteAfterTakedown ==
  [][\A p \in Places :
       place[p].state # "ACTIVE" =>
         {i \in DOMAIN review' : review'[i].place = p}
           = {i \in DOMAIN review : review[i].place = p}]_reviewVars
=============================================================================
