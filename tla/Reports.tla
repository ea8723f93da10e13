------------------------------ MODULE Reports ------------------------------
(***************************************************************************)
(* Reports of content: a user files one, a moderator claims it, some       *)
(* moderator resolves or dismisses it, and a resolution hides what was     *)
(* reported.                                                               *)
(*                                                                         *)
(* A request is admitted by its session, and no statement after that asks  *)
(* whether the account is still there.  A resolution reads the report,     *)
(* updates it and then hides its target, in three statements with no       *)
(* transaction around them; each is an action, and the request may fail or *)
(* the process stop between them.  Moderators hide, restore and approve    *)
(* content on their own meanwhile, and accounts are erased.                *)
(***************************************************************************)
EXTENDS Integers, Sequences, FiniteSets

CONSTANTS
  People,        \* accounts; all may file reports
  Moderators,    \* the accounts with the moderator role
  Slots,         \* requests under way at a time
  Targets,       \* what may be reported
  PhotoTargets,  \* the targets that are photos, which may be pending
  MaxReports,    \* reports filed (bound)
  NoOne          \* NULL

ASSUME ReportConstantsOK ==
  /\ Moderators \subseteq People /\ PhotoTargets \subseteq Targets
  /\ MaxReports \in Nat /\ NoOne \notin People

VARIABLES
  report,        \* the rows of report, by id
  content,       \* target: shown, hidden, pending or gone
  request,       \* what each request under way is doing, and whose it is
  erasedPeople,  \* accounts that were erased
  republished    \* targets that a moderator published after they were hidden

reportVars == <<report, content, request, erasedPeople, republished>>

NoRequest == [pc |-> "idle"]
OpenStates == {"OPEN", "UNDER_REVIEW"}
Outcomes == {"RESOLVED", "DISMISSED"}

\* filer and closer are who acted; reporter, claimer and resolver what the
\* row says; followup is how far the resolution has got, and late has the
\* accounts that were erased when their names were written into the row.
ReportRow ==
  [target : Targets, state : OpenStates \cup Outcomes,
   reporter : People \cup {NoOne}, claimer : People \cup {NoOne}, resolver : People \cup {NoOne},
   filer : People, closer : People \cup {NoOne}, cut : BOOLEAN,
   followup : {"none", "due", "done", "lost"}, late : SUBSET People]

AdmittedRequest == [pc : {"admitted"}, who : People]
Resolving == {"update", "hide"}
ResolveRequest == [pc : Resolving, who : Moderators, id : 1..MaxReports, outcome : Outcomes]
ReportRequest == ResolveRequest \cup AdmittedRequest \cup {NoRequest}

\* The rows, the targets and the requests have their types, and a report is
\* claimed before it is under review.
ReportsTypeOK ==
  /\ report \in Seq(ReportRow) /\ Len(report) <= MaxReports
  /\ content \in [Targets -> {"shown", "hidden", "pending", "gone"}]
  /\ request \in [Slots -> ReportRequest]
  /\ erasedPeople \subseteq People
  /\ republished \subseteq Targets
  /\ \A i \in DOMAIN report :
       report[i].state # "OPEN" /\ ~report[i].cut => report[i].claimer # NoOne
----------------------------------------------------------------------------
\* report_dedupe_idx: WHERE state IN ('OPEN', 'UNDER_REVIEW')
LiveStates == OpenStates

Filed(u, t) ==
  \E i \in DOMAIN report :
    report[i].reporter = u /\ report[i].target = t /\ report[i].state \in LiveStates

\* The middleware resolves the session of a live account; the name goes into
\* what the request writes, however late that is.
AdmitRequest(s, u) ==
  /\ request[s] = NoRequest
  /\ u \notin erasedPeople
  /\ request' = [request EXCEPT ![s] = [pc |-> "admitted", who |-> u]]
  /\ UNCHANGED <<report, content, erasedPeople, republished>>

Late(u) == {u} \cap erasedPeople

NewReport(u, t) ==
  [target |-> t, state |-> "OPEN", reporter |-> u, claimer |-> NoOne, resolver |-> NoOne,
   filer |-> u, closer |-> NoOne, cut |-> FALSE, followup |-> "none", late |-> Late(u)]

\* submit_report: within both limits, a reason that is known and fits the
\* target, a target that exists in whatever state; the index answers a second
\* live report of the same user with AlreadyReported.
SubmitReport(s, t) ==
  LET u == request[s].who IN
  /\ request[s].pc = "admitted"
  /\ content[t] # "gone"
  /\ ~Filed(u, t)
  /\ Len(report) < MaxReports
  /\ report' = Append(report, NewReport(u, t))
  /\ request' = [request EXCEPT ![s] = NoRequest]
  /\ UNCHANGED <<content, erasedPeople, republished>>

Claimed(row, m) ==
  [row EXCEPT !.state = "UNDER_REVIEW", !.claimer = m, !.late = row.late \cup Late(m)]

\* claim_report: one statement, WHERE state = 'OPEN'.
ClaimReport(s, i) ==
  LET m == request[s].who IN
  /\ request[s].pc = "admitted" /\ m \in Moderators
  /\ i \in DOMAIN report /\ report[i].state = "OPEN"
  /\ report' = [report EXCEPT ![i] = Claimed(@, m)]
  /\ request' = [request EXCEPT ![s] = NoRequest]
  /\ UNCHANGED <<content, erasedPeople, republished>>
----------------------------------------------------------------------------
\* resolve_report

\* Mutant: a moderator may resolve a report of their own.
MutMayResolve(m, i) == TRUE

\* The self-resolve guard: report.reporter_id == Some(moderator.id).
MayResolve(m, i) == report[i].reporter # m

ReadReport(s, i, outcome) ==
  LET m == request[s].who IN
  /\ request[s].pc = "admitted" /\ m \in Moderators
  /\ i \in DOMAIN report
  /\ MayResolve(m, i)
  /\ request' = [request EXCEPT ![s] = [pc |-> "update", who |-> m, id |-> i, outcome |-> outcome]]
  /\ UNCHANGED <<report, content, erasedPeople, republished>>

\* WHERE id = $1 AND state = 'UNDER_REVIEW'
UnderReview(i) == report[i].state = "UNDER_REVIEW"

Closed(row, m, outcome) ==
  [row EXCEPT !.state = outcome, !.resolver = m, !.closer = m, !.late = row.late \cup Late(m),
              !.followup = IF outcome = "RESOLVED" THEN "due" ELSE "none"]

UpdateReport(s) ==
  /\ request[s].pc = "update"
  /\ LET m == request[s].who  i == request[s].id  o == request[s].outcome IN
     IF UnderReview(i)
     THEN /\ report' = [report EXCEPT ![i] = Closed(@, m, o)]
          /\ request' = [request EXCEPT ![s] =
               IF o = "RESOLVED" THEN [pc |-> "hide", who |-> m, id |-> i, outcome |-> o]
               ELSE NoRequest]
     ELSE request' = [request EXCEPT ![s] = NoRequest] /\ UNCHANGED report
  /\ UNCHANGED <<content, erasedPeople, republished>>

\* hide_review, hide_photo and set_parking_state want published content;
\* InvalidState and NotFound are taken as done.
Hideable(t) == content[t] = "shown"

HideResolvedTarget(s) ==
  LET i == request[s].id  t == report[request[s].id].target IN
  /\ request[s].pc = "hide"
  /\ content' = [content EXCEPT ![t] = IF Hideable(t) THEN "hidden" ELSE @]
  /\ republished' = republished \ {t}
  /\ report' = [report EXCEPT ![i] = [@ EXCEPT !.followup = "done"]]
  /\ request' = [request EXCEPT ![s] = NoRequest]
  /\ UNCHANGED erasedPeople

\* A refusal, a failed statement, or a stop.  A report that was updated stays
\* resolved, and nothing resolves it again.
DropRequest(s) ==
  /\ request[s] # NoRequest
  /\ report' = IF request[s].pc = "hide"
               THEN [report EXCEPT ![request[s].id] = [@ EXCEPT !.followup = "lost"]]
               ELSE report
  /\ request' = [request EXCEPT ![s] = NoRequest]
  /\ UNCHANGED <<content, erasedPeople, republished>>
----------------------------------------------------------------------------
\* What moderators do to content without a report: hide_*, restore_*,
\* invalidate_parking, restore_parking, approve_photo, reject_photo.

HideContent(t) ==
  /\ content[t] = "shown"
  /\ content' = [content EXCEPT ![t] = "hidden"]
  /\ UNCHANGED <<report, request, erasedPeople, republished>>

PublishContent(t) ==
  /\ content[t] \in {"hidden", "pending"}
  /\ content' = [content EXCEPT ![t] = "shown"]
  /\ republished' = republished \cup {t}
  /\ UNCHANGED <<report, request, erasedPeople>>

\* A pending photo without an object is dropped by the retention job.
DropContent(t) ==
  /\ content[t] = "pending"
  /\ content' = [content EXCEPT ![t] = "gone"]
  /\ UNCHANGED <<report, request, erasedPeople, republished>>

Names(row, u) == u \in {row.reporter, row.claimer, row.resolver}

\* UPDATE report SET reporter_id, claimed_by, resolved_by = NULL for a report
\* that names the account anywhere.
Forgotten(row, u) ==
  [row EXCEPT !.reporter = NoOne, !.claimer = NoOne, !.resolver = NoOne, !.cut = TRUE,
              !.late = {}]

\* anonymize, also of an account that is erased already
EraseReporter(u) ==
  /\ erasedPeople' = erasedPeople \cup {u}
  /\ report' = [i \in DOMAIN report |->
                  IF Names(report[i], u) THEN Forgotten(report[i], u) ELSE report[i]]
  /\ UNCHANGED <<content, request, republished>>
----------------------------------------------------------------------------
ReportsInit ==
  /\ report = << >>
  /\ content \in [Targets -> {"shown", "pending"}]
  /\ \A t \in Targets \ PhotoTargets : content[t] = "shown"
  /\ request = [s \in Slots |-> NoRequest]
  /\ erasedPeople = {} /\ republished = {}

ReportsNext ==
  \/ \E s \in Slots :
       \/ \E u \in People : AdmitRequest(s, u)
       \/ \E t \in Targets : SubmitReport(s, t)
       \/ \E i \in DOMAIN report : ClaimReport(s, i) \/ \E o \in Outcomes : ReadReport(s, i, o)
       \/ UpdateReport(s) \/ HideResolvedTarget(s) \/ DropRequest(s)
  \/ \E u \in People : EraseReporter(u)
  \/ \E t \in Targets : HideContent(t) \/ PublishContent(t) \/ DropContent(t)

ReportsSpec == ReportsInit /\ [][ReportsNext]_reportVars
----------------------------------------------------------------------------
\* Properties.

\* A user has at most one report of one thing that is still to be decided,
\* claimed ones included (report_dedupe_idx).
OneLiveReport ==
  \A i, j \in DOMAIN report :
    (/\ i # j /\ report[i].target = report[j].target
     /\ report[i].reporter = report[j].reporter /\ report[i].reporter # NoOne)
    => ~({report[i].state, report[j].state} \subseteq OpenStates)

\* Whoever closes a report is not who filed it, unless an erasure has cut the
\* report loose from both (resolve_report): the guard reads a row that
\* another moderator's request, or the database, may have changed since.
SelfResolveNeedsErasure ==
  \A i \in DOMAIN report : report[i].closer = report[i].filer => report[i].cut

\* Two moderators who resolve one report do not overrule each other: the
\* first outcome and its author stand (resolve, WHERE state = 'UNDER_REVIEW').
OutcomeStands ==
  [][\A i \in DOMAIN report :
       report[i].state \in Outcomes =>
         report'[i].state = report[i].state /\ report'[i].closer = report[i].closer]_reportVars

\* "A Resolved report means the reported content was inappropriate, so the
\* target is hidden/invalidated too" (resolve_report): once the resolution
\* ran to its end, only a moderator who publishes the target again shows it.
ResolvedIsNotShown ==
  \A i \in DOMAIN report :
    report[i].followup = "done" =>
      content[report[i].target] # "shown" \/ report[i].target \in republished

\* The erasure takes an account's name out of every column of every report
\* (anonymize): one that is named after its erasure was named by a request that
\* was admitted before and wrote after it.
NamesAreLate ==
  \A i \in DOMAIN report, u \in erasedPeople : Names(report[i], u) => u \in report[i].late

\* What reporting and resolving promise while moderators overlap and accounts
\* are erased: one live report each, no verdict on one's own report, the first
\* outcome stands and takes its target off view, and who left is forgotten but
\* for what was under way.
ReportsAreSafe ==
  /\ [](/\ ReportsTypeOK /\ OneLiveReport /\ SelfResolveNeedsErasure
        /\ ResolvedIsNotShown /\ NamesAreLate)
  /\ OutcomeStands

\* The inductive invariant behind these: a request under way has read a
\* report that its moderator did not file, unless an erasure cut it loose; what
\* is still to be decided has no verdict, and an uncut row names who filed it.
RequestsRead ==
  /\ \A s \in Slots : request[s].pc \in Resolving =>
       /\ request[s].id \in DOMAIN report
       /\ report[request[s].id].filer # request[s].who \/ report[request[s].id].cut
  /\ \A i \in DOMAIN report :
       /\ report[i].state \in OpenStates => report[i].resolver = NoOne /\ report[i].closer = NoOne
       /\ ~report[i].cut => report[i].reporter = report[i].filer

ReportsInv ==
  /\ ReportsTypeOK /\ RequestsRead /\ OneLiveReport /\ SelfResolveNeedsErasure
  /\ ResolvedIsNotShown /\ NamesAreLate

\* "Server-side self-resolve guard: a user cannot resolve a report they
\* submitted" (resolve_report).
NoSelfResolve == \A i \in DOMAIN report : report[i].closer # report[i].filer

\* "NULL every attribution column on the community content" (anonymize), read as
\* a promise that lasts: no report names an erased account.
ForgottenStaysForgotten ==
  \A i \in DOMAIN report, u \in erasedPeople : ~Names(report[i], u)
=============================================================================
