--------------------------- MODULE ContentProofs ---------------------------
(***************************************************************************)
(* Proofs about what moderators decide: reports (Reports) and photos       *)
(* (Photos), for every number of accounts, moderators, reports, uploads    *)
(* and targets.                                                            *)
(***************************************************************************)
EXTENDS Reports, Photos, Signals, FiniteSetTheorems, SequenceTheorems, WellFoundedInduction, TLAPS

-----------------------------------------------------------------------------
(* Reports. *)

\* A table as a function on 1..n.
LEMMA RowsOf ==
  ASSUME NEW S, NEW s, NEW n \in Nat, s \in [1..n -> S]
  PROVE  s \in Seq(S) /\ Len(s) = n
<1>1. s \in Seq(S)
  BY SeqDef
<1>2. Len(s) \in Nat /\ DOMAIN s = 1..Len(s)
  BY <1>1, LenProperties
<1>3. 1..Len(s) = 1..n
  BY <1>2
<1> QED BY <1>1, <1>2, <1>3

\* The rows of report as a function, and who their requests are about.
LEMMA ReportFacts ==
  ASSUME ReportsInv
  PROVE  /\ report \in Seq(ReportRow) /\ Len(report) \in Nat /\ DOMAIN report = 1..Len(report)
         /\ report \in [1..Len(report) -> ReportRow]
         /\ \A i \in DOMAIN report : report[i] \in ReportRow /\ report[i].reporter \in People \cup {NoOne}
         /\ request \in [Slots -> ReportRequest]
         /\ NoOne \notin People /\ Moderators \subseteq People
<1>1. report \in Seq(ReportRow) /\ request \in [Slots -> ReportRequest]
  BY DEF ReportsInv, ReportsTypeOK
<1>2. /\ Len(report) \in Nat /\ DOMAIN report = 1..Len(report)
      /\ report \in [1..Len(report) -> ReportRow]
      /\ \A i \in DOMAIN report : report[i] \in ReportRow
  BY <1>1, LenProperties
<1>3. \A i \in DOMAIN report : report[i].reporter \in People \cup {NoOne}
  BY <1>2 DEF ReportRow
<1> QED BY <1>1, <1>2, <1>3, ReportConstantsOK

LEMMA NotARequest ==
  /\ NoRequest \in ReportRequest /\ NoRequest.pc \notin Resolving
  /\ \A x \in ReportRequest : x.pc \in Resolving =>
       /\ x # NoRequest /\ x \in ResolveRequest
       /\ x.who \in Moderators /\ x.id \in 1..MaxReports /\ x.outcome \in Outcomes
  /\ \A u \in People : /\ [pc |-> "admitted", who |-> u] \in ReportRequest
                       /\ [pc |-> "admitted", who |-> u].pc \notin Resolving
<1>1. NoRequest.pc = "idle"
  BY DEF NoRequest
<1>2. \A x \in AdmittedRequest : x.pc = "admitted"
  BY DEF AdmittedRequest
<1>3. \A x \in ResolveRequest : x.who \in Moderators /\ x.id \in 1..MaxReports /\ x.outcome \in Outcomes
  BY DEF ResolveRequest
<1>4. \A u \in People : [pc |-> "admitted", who |-> u] \in AdmittedRequest
  BY DEF AdmittedRequest
<1> QED BY <1>1, <1>2, <1>3, <1>4 DEF ReportRequest, Resolving

\* A request takes its next step, and the others wait.
LEMMA RequestMoves ==
  ASSUME ReportsInv, NEW s \in Slots, NEW y \in ReportRequest,
         request' = [request EXCEPT ![s] = y]
  PROVE  /\ request' \in [Slots -> ReportRequest]
         /\ \A n \in Slots : request'[n] = IF n = s THEN y ELSE request[n]
BY DEF ReportsInv, ReportsTypeOK

\* Whose request it is that was admitted.
LEMMA AdmittedFacts ==
  ASSUME ReportsInv, NEW s \in Slots, request[s].pc = "admitted"
  PROVE  request[s].who \in People
<1>1. request[s] \in ReportRequest
  BY DEF ReportsInv, ReportsTypeOK
<1>2. request[s] \notin ResolveRequest /\ request[s] # NoRequest
  BY DEF ResolveRequest, Resolving, NoRequest
<1> QED BY <1>1, <1>2 DEF ReportRequest, AdmittedRequest

\* The request of a moderator who is at work.
LEMMA RequestFacts ==
  ASSUME ReportsInv, NEW s \in Slots, request[s].pc \in Resolving
  PROVE  /\ request[s] \in ResolveRequest /\ request[s].id \in DOMAIN report
         /\ request[s].outcome \in Outcomes /\ request[s].who \in Moderators
         /\ report[request[s].id].filer # request[s].who \/ report[request[s].id].cut
<1>1. request[s] \in ReportRequest
  BY DEF ReportsInv, ReportsTypeOK
<1> QED BY <1>1, NotARequest DEF ReportsInv, RequestsRead

\* One row of report is replaced.  The conditions are those that the row has
\* to meet on its own and beside the others.
LEMMA RowReplaced ==
  ASSUME ReportsInv, NEW i \in DOMAIN report, NEW r \in ReportRow,
         report' = [report EXCEPT ![i] = r],
         content' \in [Targets -> {"shown", "hidden", "pending", "gone"}],
         request' \in [Slots -> ReportRequest],
         republished' \subseteq Targets, erasedPeople' = erasedPeople,
         \A s \in Slots : request'[s].pc \in Resolving =>
           request[s].pc \in Resolving /\ request'[s].id = request[s].id /\ request'[s].who = request[s].who,
         r.target = report[i].target, r.filer = report[i].filer, r.cut = report[i].cut,
         r.reporter = report[i].reporter,
         r.state # "OPEN" /\ ~r.cut => r.claimer # NoOne,
         r.state \in OpenStates => report[i].state \in OpenStates /\ r.resolver = NoOne /\ r.closer = NoOne,
         r.closer = r.filer => r.cut,
         \A u \in erasedPeople : Names(r, u) => u \in r.late,
         \A j \in DOMAIN report :
           (IF j = i THEN r.followup ELSE report[j].followup) = "done" =>
             content'[report[j].target] # "shown" \/ report[j].target \in republished'
  PROVE  ReportsInv'
<1>1. /\ report \in [1..Len(report) -> ReportRow] /\ Len(report) \in Nat /\ DOMAIN report = 1..Len(report)
      /\ \A j \in DOMAIN report : report[j] \in ReportRow
  BY ReportFacts
<1>2. DOMAIN report' = DOMAIN report /\ \A j \in DOMAIN report : report'[j] = IF j = i THEN r ELSE report[j]
  BY <1>1
<1>3. /\ report' \in Seq(ReportRow) /\ Len(report') = Len(report)
  <2>1. report' \in [1..Len(report) -> ReportRow]
    BY <1>1
  <2> QED BY <1>1, <2>1, RowsOf
<1>4. ReportsTypeOK'
  <2>1. \A j \in DOMAIN report' : report'[j].state # "OPEN" /\ ~report'[j].cut => report'[j].claimer # NoOne
    BY <1>2 DEF ReportsInv, ReportsTypeOK
  <2> QED BY <1>3, <2>1 DEF ReportsInv, ReportsTypeOK
<1>5. RequestsRead'
  <2>1. ASSUME NEW s \in Slots, request'[s].pc \in Resolving
        PROVE  /\ request'[s].id \in DOMAIN report'
               /\ report'[request'[s].id].filer # request'[s].who \/ report'[request'[s].id].cut
    <3>1. request[s].pc \in Resolving /\ request'[s].id = request[s].id /\ request'[s].who = request[s].who
      BY <2>1
    <3>2. /\ request[s].id \in DOMAIN report
          /\ report[request[s].id].filer # request[s].who \/ report[request[s].id].cut
      BY <3>1, RequestFacts
    <3> QED BY <1>2, <3>1, <3>2
  <2>2. ASSUME NEW j \in DOMAIN report'
        PROVE  /\ report'[j].state \in OpenStates => report'[j].resolver = NoOne /\ report'[j].closer = NoOne
               /\ ~report'[j].cut => report'[j].reporter = report'[j].filer
    BY <1>2 DEF ReportsInv, RequestsRead
  <2> QED BY <2>1, <2>2 DEF RequestsRead
<1>6. OneLiveReport'
  <2>1. \A j \in DOMAIN report : /\ report'[j].target = report[j].target
                                 /\ report'[j].reporter = report[j].reporter
                                 /\ report'[j].state \in OpenStates => report[j].state \in OpenStates
    BY <1>2
  <2> QED BY <1>2, <2>1 DEF ReportsInv, OneLiveReport
<1>7. SelfResolveNeedsErasure'
  BY <1>2 DEF ReportsInv, SelfResolveNeedsErasure
<1>8. ResolvedIsNotShown'
  BY <1>2 DEF ResolvedIsNotShown
<1>9. NamesAreLate'
  <2>1. \A j \in DOMAIN report, u \in erasedPeople :
          Names(report[j], u) => u \in report[j].late
    BY DEF ReportsInv, NamesAreLate
  <2> QED BY <1>2, <2>1 DEF NamesAreLate, Names
<1> QED BY <1>4, <1>5, <1>6, <1>7, <1>8, <1>9 DEF ReportsInv

\* No row changes, and nothing is shown that was not, but what is published.
LEMMA RowsStay ==
  ASSUME ReportsInv, report' = report, erasedPeople' = erasedPeople,
         content' \in [Targets -> {"shown", "hidden", "pending", "gone"}],
         republished' \subseteq Targets,
         request' \in [Slots -> ReportRequest],
         \A s \in Slots : request'[s].pc \in Resolving =>
           /\ request'[s].id \in DOMAIN report
           /\ report[request'[s].id].filer # request'[s].who \/ report[request'[s].id].cut,
         \A t \in Targets : content[t] # "shown" \/ t \in republished =>
                              content'[t] # "shown" \/ t \in republished'
  PROVE  ReportsInv'
<1>1. ReportsTypeOK' /\ RequestsRead' /\ OneLiveReport' /\ SelfResolveNeedsErasure' /\ NamesAreLate'
  BY DEF ReportsInv, ReportsTypeOK, RequestsRead, OneLiveReport, SelfResolveNeedsErasure,
     NamesAreLate
<1>2. \A i \in DOMAIN report : report[i].target \in Targets
  BY ReportFacts DEF ReportRow
<1>3. ResolvedIsNotShown'
  BY <1>2 DEF ReportsInv, ResolvedIsNotShown
<1> QED BY <1>1, <1>3 DEF ReportsInv

LEMMA SubmitKeeps ==
  ASSUME ReportsInv, NEW s \in Slots, NEW t \in Targets, SubmitReport(s, t)
  PROVE  ReportsInv'
<1> DEFINE n == Len(report)
<1>0. PICK u \in People : u = request[s].who
  BY AdmittedFacts DEF SubmitReport
<1>1. PICK r : r = NewReport(u, t)
  OBVIOUS
<1>2. /\ ~Filed(u, t) /\ n < MaxReports /\ report' = Append(report, r)
      /\ content' = content /\ request' = [request EXCEPT ![s] = NoRequest]
      /\ erasedPeople' = erasedPeople /\ republished' = republished
  BY <1>0, <1>1 DEF SubmitReport
<1>3. /\ r \in ReportRow /\ r.target = t /\ r.state = "OPEN" /\ r.reporter = u /\ r.claimer = NoOne
      /\ r.resolver = NoOne /\ r.filer = u /\ r.closer = NoOne /\ ~r.cut /\ r.followup = "none"
      /\ (u \in erasedPeople => u \in r.late)
  BY <1>1 DEF ReportRow, OpenStates, NewReport, Late
<1>4. /\ report \in Seq(ReportRow) /\ n \in Nat /\ DOMAIN report = 1..n
      /\ NoOne \notin People /\ \A i \in DOMAIN report : report[i] \in ReportRow
  BY ReportFacts
<1>5. /\ report' \in Seq(ReportRow) /\ Len(report') = n + 1 /\ DOMAIN report' = 1..(n + 1)
      /\ \A i \in 1..n : report'[i] = report[i]
      /\ report'[n + 1] = r
  <2>1. /\ Append(report, r) \in Seq(ReportRow) /\ Len(Append(report, r)) = n + 1
        /\ \A i \in 1..n : Append(report, r)[i] = report[i]
        /\ Append(report, r)[n + 1] = r
    BY <1>3, <1>4, AppendProperties
  <2>2. DOMAIN Append(report, r) = 1..(n + 1)
    BY <2>1, LenProperties
  <2> QED BY <1>2, <2>1, <2>2
<1> HIDE DEF n
<1>6. \A i \in DOMAIN report' : (i \in DOMAIN report /\ report'[i] = report[i]) \/ (i = n + 1 /\ report'[i] = r)
  BY <1>4, <1>5
<1>7. \A i \in DOMAIN report : i \in DOMAIN report' /\ report'[i] = report[i]
  BY <1>4, <1>5
<1>8. ReportsTypeOK'
  <2>1. MaxReports \in Nat /\ Len(report') <= MaxReports
    BY <1>2, <1>4, <1>5, ReportConstantsOK
  <2>2. request' \in [Slots -> ReportRequest]
    BY <1>2, NotARequest, RequestMoves
  <2> QED BY <1>2, <1>3, <1>5, <1>6, <2>1, <2>2 DEF ReportsInv, ReportsTypeOK
<1>9. RequestsRead'
  <2>1. ASSUME NEW k \in Slots, request'[k].pc \in Resolving
        PROVE  /\ request'[k].id \in DOMAIN report'
               /\ report'[request'[k].id].filer # request'[k].who \/ report'[request'[k].id].cut
    <3>1. request'[k] = request[k]
      BY <1>2, <2>1, NotARequest, RequestMoves
    <3> QED BY <1>7, <2>1, <3>1, RequestFacts
  <2>2. ASSUME NEW j \in DOMAIN report'
        PROVE  /\ report'[j].state \in OpenStates => report'[j].resolver = NoOne /\ report'[j].closer = NoOne
               /\ ~report'[j].cut => report'[j].reporter = report'[j].filer
    BY <1>3, <1>6 DEF ReportsInv, RequestsRead
  <2> QED BY <2>1, <2>2 DEF RequestsRead
<1>10. OneLiveReport'
  <2>1. \A i \in DOMAIN report : report[i].reporter = u /\ report[i].target = t => report[i].state \notin OpenStates
    BY <1>2 DEF Filed, LiveStates
  <2> QED BY <1>3, <1>6, <2>1 DEF ReportsInv, OneLiveReport
<1>11. SelfResolveNeedsErasure'
  BY <1>3, <1>4, <1>6 DEF ReportsInv, SelfResolveNeedsErasure
<1>12. ResolvedIsNotShown'
  BY <1>2, <1>3, <1>6 DEF ReportsInv, ResolvedIsNotShown
<1>13. NamesAreLate'
  <2>1. \A v \in erasedPeople : v # NoOne
    BY <1>2, <1>4 DEF ReportsInv, ReportsTypeOK
  <2>2. \A j \in DOMAIN report, v \in erasedPeople :
          Names(report[j], v) => v \in report[j].late
    BY DEF ReportsInv, NamesAreLate
  <2> QED BY <1>2, <1>3, <1>6, <2>1, <2>2 DEF NamesAreLate, Names
<1> QED BY <1>8, <1>9, <1>10, <1>11, <1>12, <1>13 DEF ReportsInv

\* What a row has to be, given what it was.
LEMMA RowFacts ==
  ASSUME ReportsInv, NEW i \in DOMAIN report
  PROVE  LET r == report[i] IN
         /\ r \in ReportRow
         /\ r.state # "OPEN" /\ ~r.cut => r.claimer # NoOne
         /\ r.state \in OpenStates => r.resolver = NoOne /\ r.closer = NoOne
         /\ r.closer = r.filer => r.cut
         /\ \A u \in erasedPeople : Names(r, u) => u \in r.late
         /\ r.followup = "done" => content[r.target] # "shown" \/ r.target \in republished
         /\ r.target \in Targets /\ r.filer \in People
<1>1. report[i] \in ReportRow /\ report[i].target \in Targets /\ report[i].filer \in People
  BY ReportFacts DEF ReportRow
<1> QED BY <1>1 DEF ReportsInv, ReportsTypeOK, RequestsRead, SelfResolveNeedsErasure,
           NamesAreLate, ResolvedIsNotShown

LEMMA ClaimKeeps ==
  ASSUME ReportsInv, NEW s \in Slots, NEW i \in DOMAIN report, ClaimReport(s, i)
  PROVE  ReportsInv'
<1>0. PICK m \in Moderators : m = request[s].who
  BY DEF ClaimReport
<1>1. PICK o : o = report[i]
  OBVIOUS
<1>2. PICK l : l = o.late \cup Late(m)
  OBVIOUS
<1>21. PICK r : r = [o EXCEPT !.state = "UNDER_REVIEW", !.claimer = m, !.late = l]
  OBVIOUS
<1>3. /\ o.state = "OPEN" /\ report' = [report EXCEPT ![i] = r]
      /\ content' = content /\ request' = [request EXCEPT ![s] = NoRequest]
      /\ erasedPeople' = erasedPeople /\ republished' = republished
  BY <1>0, <1>1, <1>2, <1>21 DEF ClaimReport, Claimed
<1>4. /\ o \in ReportRow /\ m \in People /\ NoOne \notin People
      /\ o.resolver = NoOne /\ o.closer = NoOne /\ o.filer \in People
      /\ \A u \in erasedPeople : Names(o, u) => u \in o.late
      /\ \A j \in DOMAIN report : report[j].followup = "done" =>
           content[report[j].target] # "shown" \/ report[j].target \in republished
  BY <1>1, <1>3, RowFacts, ReportFacts DEF OpenStates
<1>41. l \subseteq People /\ o.late \subseteq l /\ (m \in erasedPeople => m \in l)
  <2>1. o.late \subseteq People /\ erasedPeople \subseteq People
    BY <1>4 DEF ReportRow, ReportsInv, ReportsTypeOK
  <2> QED BY <1>2, <1>4, <2>1 DEF Late
<1>5. /\ r \in ReportRow /\ r.target = o.target /\ r.filer = o.filer /\ r.cut = o.cut
      /\ r.reporter = o.reporter /\ r.claimer = m /\ r.state = "UNDER_REVIEW" /\ r.late = l
      /\ r.resolver = o.resolver /\ r.closer = o.closer /\ r.followup = o.followup
  BY <1>21, <1>4, <1>41 DEF ReportRow, OpenStates
<1>6. \A u \in erasedPeople : Names(r, u) => u \in r.late
  BY <1>4, <1>41, <1>5 DEF Names
<1>7. /\ content' \in [Targets -> {"shown", "hidden", "pending", "gone"}]
      /\ request' \in [Slots -> ReportRequest] /\ republished' \subseteq Targets
      /\ \A n \in Slots : request'[n].pc \in Resolving => request'[n] = request[n]
  BY <1>3, NotARequest, RequestMoves DEF ReportsInv, ReportsTypeOK
<1>8. \A j \in DOMAIN report : (IF j = i THEN r.followup ELSE report[j].followup) = "done" =>
             content'[report[j].target] # "shown" \/ report[j].target \in republished'
  BY <1>1, <1>3, <1>4, <1>5
<1>9. r.closer = r.filer => r.cut
  BY <1>4, <1>5
<1>10. r.state # "OPEN" /\ ~r.cut => r.claimer # NoOne
  BY <1>4, <1>5
<1>11. r.state \in OpenStates => report[i].state \in OpenStates /\ r.resolver = NoOne /\ r.closer = NoOne
  BY <1>1, <1>3, <1>4, <1>5 DEF OpenStates
<1> QED BY <1>1, <1>3, <1>5, <1>6, <1>7, <1>8, <1>9, <1>10, <1>11, RowReplaced

LEMMA AdmitKeeps ==
  ASSUME ReportsInv, NEW s \in Slots, NEW u \in People, AdmitRequest(s, u)
  PROVE  ReportsInv'
<1>1. /\ request' = [request EXCEPT ![s] = [pc |-> "admitted", who |-> u]]
      /\ report' = report /\ content' = content /\ erasedPeople' = erasedPeople
      /\ republished' = republished
  BY DEF AdmitRequest
<1>2. /\ request' \in [Slots -> ReportRequest]
      /\ \A n \in Slots : request'[n].pc \in Resolving => request'[n] = request[n]
  BY <1>1, NotARequest, RequestMoves
<1>3. \A n \in Slots : request'[n].pc \in Resolving =>
        /\ request'[n].id \in DOMAIN report
        /\ report[request'[n].id].filer # request'[n].who \/ report[request'[n].id].cut
  BY <1>2, RequestFacts
<1>4. content \in [Targets -> {"shown", "hidden", "pending", "gone"}] /\ republished \subseteq Targets
  BY DEF ReportsInv, ReportsTypeOK
<1> QED BY <1>1, <1>2, <1>3, <1>4, RowsStay

LEMMA ReadKeeps ==
  ASSUME ReportsInv, NEW s \in Slots, NEW i \in DOMAIN report, NEW o \in Outcomes,
         ReadReport(s, i, o)
  PROVE  ReportsInv'
<1>0. PICK m \in Moderators : m = request[s].who
  BY DEF ReadReport
<1>1. PICK x : x = [pc |-> "update", who |-> m, id |-> i, outcome |-> o]
  OBVIOUS
<1>2. /\ report[i].reporter # m /\ request' = [request EXCEPT ![s] = x]
      /\ report' = report /\ content' = content /\ erasedPeople' = erasedPeople
      /\ republished' = republished
  BY <1>0, <1>1 DEF ReadReport, MayResolve
<1>3. /\ i \in 1..MaxReports
      /\ content \in [Targets -> {"shown", "hidden", "pending", "gone"}] /\ republished \subseteq Targets
  <2>1. Len(report) <= MaxReports /\ MaxReports \in Nat
    BY ReportConstantsOK DEF ReportsInv, ReportsTypeOK
  <2>2. i \in 1..MaxReports
    BY <2>1, ReportFacts
  <2> QED BY <2>2 DEF ReportsInv, ReportsTypeOK
<1>4. x \in ReportRequest /\ x.id = i /\ x.who = m
  BY <1>1, <1>3 DEF ReportRequest, ResolveRequest, Resolving
<1>5. report[i].filer # m \/ report[i].cut
  BY <1>2 DEF ReportsInv, RequestsRead
<1>6. /\ request' \in [Slots -> ReportRequest]
      /\ \A n \in Slots : request'[n] = IF n = s THEN x ELSE request[n]
  BY <1>2, <1>4, RequestMoves
<1>7. ASSUME NEW n \in Slots, request'[n].pc \in Resolving
      PROVE  /\ request'[n].id \in DOMAIN report
             /\ report[request'[n].id].filer # request'[n].who \/ report[request'[n].id].cut
  <2>1. CASE n = s
    BY <1>4, <1>5, <1>6, <2>1
  <2>2. CASE n # s
    BY <1>6, <1>7, <2>2, RequestFacts
  <2> QED BY <2>1, <2>2
<1> QED BY <1>2, <1>3, <1>6, <1>7, RowsStay

LEMMA UpdateKeeps ==
  ASSUME ReportsInv, NEW s \in Slots, UpdateReport(s)
  PROVE  ReportsInv'
<1>0. PICK x : x = request[s]
  OBVIOUS
<1>1. x.pc = "update" /\ content' = content /\ erasedPeople' = erasedPeople /\ republished' = republished
  BY <1>0 DEF UpdateReport
<1>2. request[s].pc \in Resolving
  BY <1>0, <1>1 DEF Resolving
<1>3. PICK i \in DOMAIN report : i = x.id
  BY <1>0, <1>2, RequestFacts
<1>4. PICK o \in Outcomes : o = x.outcome
  BY <1>0, <1>2, RequestFacts
<1>41. PICK m \in Moderators : m = x.who
  BY <1>0, <1>2, RequestFacts
<1>5. /\ i \in 1..MaxReports
      /\ content \in [Targets -> {"shown", "hidden", "pending", "gone"}] /\ republished \subseteq Targets
  <2>1. x \in ReportRequest
    BY <1>0 DEF ReportsInv, ReportsTypeOK
  <2> QED BY <1>0, <1>2, <1>3, <2>1, NotARequest DEF ReportsInv, ReportsTypeOK
<1>6. CASE ~UnderReview(i)
  <2>1. request' = [request EXCEPT ![s] = NoRequest] /\ report' = report
    BY <1>0, <1>3, <1>6 DEF UpdateReport
  <2>2. /\ request' \in [Slots -> ReportRequest]
        /\ \A n \in Slots : request'[n].pc \in Resolving => request'[n] = request[n]
    BY <2>1, NotARequest, RequestMoves
  <2>3. \A n \in Slots : request'[n].pc \in Resolving =>
          /\ request'[n].id \in DOMAIN report
          /\ report[request'[n].id].filer # request'[n].who \/ report[request'[n].id].cut
    BY <2>2, RequestFacts
  <2> QED BY <1>1, <1>5, <2>1, <2>2, <2>3, RowsStay
<1>7. CASE UnderReview(i)
  <2>0. PICK y : y = IF o = "RESOLVED" THEN [pc |-> "hide", who |-> m, id |-> i, outcome |-> o] ELSE NoRequest
    OBVIOUS
  <2>1. PICK old : old = report[i]
    OBVIOUS
  <2>2. PICK f : f = IF o = "RESOLVED" THEN "due" ELSE "none"
    OBVIOUS
  <2>21. PICK l : l = old.late \cup Late(m)
    OBVIOUS
  <2>3. PICK r : r = [old EXCEPT !.state = o, !.resolver = m, !.closer = m, !.late = l, !.followup = f]
    OBVIOUS
  <2>4. report' = [report EXCEPT ![i] = r] /\ request' = [request EXCEPT ![s] = y]
    BY <1>0, <1>3, <1>4, <1>41, <1>7, <2>0, <2>1, <2>2, <2>21, <2>3 DEF UpdateReport, Closed
  <2>5. /\ old \in ReportRow /\ m \in People /\ NoOne \notin People /\ old.state = "UNDER_REVIEW"
        /\ old.resolver = NoOne /\ old.closer = NoOne
        /\ ~old.cut => old.claimer # NoOne
        /\ \A u \in erasedPeople : Names(old, u) => u \in old.late
        /\ old.filer # m \/ old.cut
    <3>1. old.state = "UNDER_REVIEW"
      BY <1>7, <2>1 DEF UnderReview
    <3>2. old.filer # m \/ old.cut
      BY <1>0, <1>2, <1>3, <1>41, <2>1, RequestFacts
    <3> QED BY <2>1, <3>1, <3>2, RowFacts, ReportFacts DEF OpenStates
  <2>51. l \subseteq People /\ old.late \subseteq l /\ (m \in erasedPeople => m \in l)
    <3>1. old.late \subseteq People /\ erasedPeople \subseteq People
      BY <2>5 DEF ReportRow, ReportsInv, ReportsTypeOK
    <3> QED BY <2>21, <2>5, <3>1 DEF Late
  <2>6. f \in {"due", "none"} /\ f # "done" /\ o \notin OpenStates /\ o # "OPEN"
    BY <2>2 DEF Outcomes, OpenStates
  <2>7. /\ r \in ReportRow /\ r.target = old.target /\ r.filer = old.filer /\ r.cut = old.cut
        /\ r.reporter = old.reporter /\ r.claimer = old.claimer /\ r.state = o
        /\ r.resolver = m /\ r.closer = m /\ r.followup = f /\ r.late = l
    BY <2>3, <2>5, <2>51, <2>6 DEF ReportRow
  <2>8. \A u \in erasedPeople : Names(r, u) => u \in r.late
    BY <2>5, <2>51, <2>7 DEF Names
  <2>9. y \in ReportRequest /\ (y.pc \in Resolving => y.id = i /\ y.who = m)
    <3>1. o = "RESOLVED" => y \in ResolveRequest /\ y.id = i /\ y.who = m
      BY <1>5, <2>0 DEF ResolveRequest, Resolving
    <3> QED BY <2>0, <3>1, NotARequest DEF ReportRequest
  <2>10. /\ request' \in [Slots -> ReportRequest]
         /\ \A n \in Slots : request'[n].pc \in Resolving =>
              /\ request[n].pc \in Resolving
              /\ request'[n].id = request[n].id /\ request'[n].who = request[n].who
    BY <1>0, <1>2, <1>3, <1>41, <2>4, <2>9, RequestMoves
  <2>11. \A j \in DOMAIN report : (IF j = i THEN r.followup ELSE report[j].followup) = "done" =>
             content'[report[j].target] # "shown" \/ report[j].target \in republished'
    BY <1>1, <2>6, <2>7, RowFacts
  <2>12. /\ r.state \in OpenStates => report[i].state \in OpenStates /\ r.resolver = NoOne /\ r.closer = NoOne
         /\ r.state # "OPEN" /\ ~r.cut => r.claimer # NoOne
         /\ r.closer = r.filer => r.cut
    BY <2>5, <2>6, <2>7
  <2> QED BY <1>1, <1>5, <2>1, <2>4, <2>7, <2>8, <2>10, <2>11, <2>12, RowReplaced
<1> QED BY <1>6, <1>7

\* The last statement of a resolution, done or lost: only followup changes.
LEMMA FollowupKeeps ==
  ASSUME ReportsInv, NEW s \in Slots, request[s].pc \in Resolving, NEW i \in DOMAIN report,
         NEW f \in {"done", "lost"}, NEW r, r = [report[i] EXCEPT !.followup = f],
         report' = [report EXCEPT ![i] = r],
         request' = [request EXCEPT ![s] = NoRequest], erasedPeople' = erasedPeople,
         content' \in [Targets -> {"shown", "hidden", "pending", "gone"}],
         republished' \subseteq Targets,
         f = "done" => content'[report[i].target] # "shown",
         \A t \in Targets : content[t] # "shown" \/ t \in republished =>
                              content'[t] # "shown" \/ t \in republished'
  PROVE  ReportsInv'
<1>1. PICK old : old = report[i]
  OBVIOUS
<1>2. r = [old EXCEPT !.followup = f]
  BY <1>1
<1>4. /\ old \in ReportRow
      /\ old.state # "OPEN" /\ ~old.cut => old.claimer # NoOne
      /\ old.state \in OpenStates => old.resolver = NoOne /\ old.closer = NoOne
      /\ old.closer = old.filer => old.cut
      /\ \A u \in erasedPeople : Names(old, u) => u \in old.late
  BY <1>1, RowFacts
<1>5. /\ r \in ReportRow /\ r.target = old.target /\ r.filer = old.filer /\ r.cut = old.cut
      /\ r.reporter = old.reporter /\ r.claimer = old.claimer /\ r.state = old.state
      /\ r.resolver = old.resolver /\ r.closer = old.closer /\ r.followup = f
      /\ r.late = old.late
  BY <1>2, <1>4 DEF ReportRow
<1>6. \A u \in erasedPeople : Names(r, u) => u \in r.late
  BY <1>4, <1>5 DEF Names
<1>7. \A j \in DOMAIN report : /\ report[j].target \in Targets
                               /\ report[j].followup = "done" =>
                                    \/ content[report[j].target] # "shown"
                                    \/ report[j].target \in republished
  BY RowFacts
<1>8. \A j \in DOMAIN report : (IF j = i THEN r.followup ELSE report[j].followup) = "done" =>
             content'[report[j].target] # "shown" \/ report[j].target \in republished'
  BY <1>5, <1>7
<1>9. /\ request' \in [Slots -> ReportRequest]
      /\ \A n \in Slots : request'[n].pc \in Resolving =>
              request[n].pc \in Resolving /\ request'[n].id = request[n].id /\ request'[n].who = request[n].who
  BY NotARequest, RequestMoves
<1>10. /\ r.state \in OpenStates => report[i].state \in OpenStates /\ r.resolver = NoOne /\ r.closer = NoOne
       /\ r.state # "OPEN" /\ ~r.cut => r.claimer # NoOne
       /\ r.closer = r.filer => r.cut
  BY <1>1, <1>4, <1>5
<1>11. /\ r \in ReportRow /\ r.target = report[i].target /\ r.filer = report[i].filer
       /\ r.cut = report[i].cut /\ r.reporter = report[i].reporter
  BY <1>1, <1>5
<1>12. r \in ReportRow /\ report' = [report EXCEPT ![i] = r]
  BY <1>11
<1>13. /\ content' \in [Targets -> {"shown", "hidden", "pending", "gone"}]
       /\ republished' \subseteq Targets /\ erasedPeople' = erasedPeople
  OBVIOUS
<1> QED BY ONLY ReportsInv, <1>6, <1>8, <1>9, <1>10, <1>11, <1>12, <1>13, RowReplaced

LEMMA HideKeeps ==
  ASSUME ReportsInv, NEW s \in Slots, HideResolvedTarget(s)
  PROVE  ReportsInv'
<1>0. PICK x : x = request[s]
  OBVIOUS
<1>1. x.pc = "hide" /\ request[s].pc \in Resolving
  BY <1>0 DEF HideResolvedTarget, Resolving
<1>2. PICK i \in DOMAIN report : i = x.id
  BY <1>0, <1>1, RequestFacts
<1>3. PICK t \in Targets : t = report[i].target
  BY RowFacts
<1>4. /\ content' = [content EXCEPT ![t] = IF Hideable(t) THEN "hidden" ELSE @]
      /\ republished' = republished \ {t}
      /\ report' = [report EXCEPT ![i] = [report[i] EXCEPT !.followup = "done"]]
      /\ request' = [request EXCEPT ![s] = NoRequest] /\ erasedPeople' = erasedPeople
  BY <1>0, <1>2, <1>3 DEF HideResolvedTarget
<1>5. content \in [Targets -> {"shown", "hidden", "pending", "gone"}] /\ republished \subseteq Targets
  BY DEF ReportsInv, ReportsTypeOK
<1>6. /\ content' \in [Targets -> {"shown", "hidden", "pending", "gone"}] /\ republished' \subseteq Targets
      /\ content'[t] # "shown" /\ \A v \in Targets : v # t => content'[v] = content[v]
  BY <1>4, <1>5 DEF Hideable
<1>7. \A v \in Targets : content[v] # "shown" \/ v \in republished =>
                           content'[v] # "shown" \/ v \in republished'
  BY <1>4, <1>6
<1> QED BY <1>1, <1>3, <1>4, <1>6, <1>7, FollowupKeeps

LEMMA DropKeeps ==
  ASSUME ReportsInv, NEW s \in Slots, DropRequest(s)
  PROVE  ReportsInv'
<1>1. /\ request' = [request EXCEPT ![s] = NoRequest]
      /\ content' = content /\ erasedPeople' = erasedPeople /\ republished' = republished
  BY DEF DropRequest
<1>2. /\ content \in [Targets -> {"shown", "hidden", "pending", "gone"}] /\ republished \subseteq Targets
  BY DEF ReportsInv, ReportsTypeOK
<1>3. CASE request[s].pc = "hide"
  <2>1. PICK i \in DOMAIN report : i = request[s].id
    BY <1>3, RequestFacts DEF Resolving
  <2>2. report' = [report EXCEPT ![i] = [report[i] EXCEPT !.followup = "lost"]]
    BY <1>3, <2>1 DEF DropRequest
  <2>3. request[s].pc \in Resolving
    BY <1>3 DEF Resolving
  <2> QED BY <1>1, <1>2, <2>2, <2>3, FollowupKeeps
<1>4. CASE request[s].pc # "hide"
  <2>1. report' = report
    BY <1>4 DEF DropRequest
  <2>2. /\ request' \in [Slots -> ReportRequest]
        /\ \A n \in Slots : request'[n].pc \in Resolving => request'[n] = request[n]
    BY <1>1, NotARequest, RequestMoves
  <2>3. \A n \in Slots : request'[n].pc \in Resolving =>
          /\ request'[n].id \in DOMAIN report
          /\ report[request'[n].id].filer # request'[n].who \/ report[request'[n].id].cut
    BY <2>2, RequestFacts
  <2> QED BY <1>1, <1>2, <2>1, <2>2, <2>3, RowsStay
<1> QED BY <1>3, <1>4

LEMMA ContentKeeps ==
  ASSUME ReportsInv, NEW t \in Targets, HideContent(t) \/ PublishContent(t) \/ DropContent(t)
  PROVE  ReportsInv'
<1>1. /\ content \in [Targets -> {"shown", "hidden", "pending", "gone"}] /\ republished \subseteq Targets
      /\ request \in [Slots -> ReportRequest]
  BY DEF ReportsInv, ReportsTypeOK
<1>2. report' = report /\ request' = request /\ erasedPeople' = erasedPeople
  BY DEF HideContent, PublishContent, DropContent
<1>3. /\ content' \in [Targets -> {"shown", "hidden", "pending", "gone"}] /\ republished' \subseteq Targets
      /\ \A s \in Targets : content[s] # "shown" \/ s \in republished =>
                              content'[s] # "shown" \/ s \in republished'
  BY <1>1 DEF HideContent, PublishContent, DropContent
<1>4. \A n \in Slots : request'[n].pc \in Resolving =>
        /\ request'[n].id \in DOMAIN report
        /\ report[request'[n].id].filer # request'[n].who \/ report[request'[n].id].cut
  BY <1>2, RequestFacts
<1> QED BY <1>1, <1>2, <1>3, <1>4, RowsStay

LEMMA EraseKeeps ==
  ASSUME ReportsInv, NEW u \in People, EraseReporter(u)
  PROVE  ReportsInv'
<1>0. /\ erasedPeople' = erasedPeople \cup {u}
      /\ report' = [i \in DOMAIN report |->
                      IF Names(report[i], u) THEN Forgotten(report[i], u) ELSE report[i]]
      /\ content' = content /\ request' = request /\ republished' = republished
  BY DEF EraseReporter
<1>1. /\ report \in Seq(ReportRow) /\ Len(report) \in Nat /\ DOMAIN report = 1..Len(report)
      /\ NoOne \notin People /\ \A i \in DOMAIN report : report[i] \in ReportRow
  BY ReportFacts
<1>2. ASSUME NEW r \in ReportRow
      PROVE  LET f == Forgotten(r, u) IN
             /\ f \in ReportRow /\ f.target = r.target /\ f.state = r.state /\ f.filer = r.filer
             /\ f.closer = r.closer /\ f.followup = r.followup /\ f.cut
             /\ f.reporter = NoOne /\ f.claimer = NoOne /\ f.resolver = NoOne
  BY DEF Forgotten, ReportRow
<1>3. DOMAIN report' = DOMAIN report /\ \A i \in DOMAIN report :
        LET r == report[i]
            s == report'[i]
        IN /\ s \in ReportRow /\ s.target = r.target /\ s.state = r.state /\ s.filer = r.filer
           /\ s.closer = r.closer /\ s.followup = r.followup
           /\ \/ s.cut /\ s.reporter = NoOne /\ s.claimer = NoOne /\ s.resolver = NoOne
              \/ s = r /\ ~Names(r, u)
  BY <1>0, <1>1, <1>2
<1>4. report' \in Seq(ReportRow) /\ Len(report') = Len(report)
  <2>1. report' \in [1..Len(report) -> ReportRow]
    BY <1>0, <1>1, <1>3
  <2> QED BY <1>1, <2>1, RowsOf
<1>5. ReportsTypeOK'
  <2>1. \A i \in DOMAIN report' : report'[i].state # "OPEN" /\ ~report'[i].cut => report'[i].claimer # NoOne
    BY <1>3 DEF ReportsInv, ReportsTypeOK
  <2> QED BY <1>0, <1>4, <2>1 DEF ReportsInv, ReportsTypeOK
<1>6. RequestsRead'
  <2>1. ASSUME NEW s \in Slots, request'[s].pc \in Resolving
        PROVE  /\ request'[s].id \in DOMAIN report'
               /\ report'[request'[s].id].filer # request'[s].who \/ report'[request'[s].id].cut
    BY <1>0, <1>3, <2>1, RequestFacts
  <2>2. ASSUME NEW j \in DOMAIN report'
        PROVE  /\ report'[j].state \in OpenStates => report'[j].resolver = NoOne /\ report'[j].closer = NoOne
               /\ ~report'[j].cut => report'[j].reporter = report'[j].filer
    BY <1>3 DEF ReportsInv, RequestsRead
  <2> QED BY <2>1, <2>2 DEF RequestsRead
<1>7. OneLiveReport'
  BY <1>3 DEF ReportsInv, OneLiveReport
<1>8. SelfResolveNeedsErasure'
  BY <1>3 DEF ReportsInv, SelfResolveNeedsErasure
<1>9. ResolvedIsNotShown'
  BY <1>0, <1>3 DEF ReportsInv, ResolvedIsNotShown
<1>10. NamesAreLate'
  <2>1. \A v \in erasedPeople \cup {u} : v # NoOne
    BY <1>1 DEF ReportsInv, ReportsTypeOK
  <2>2. \A j \in DOMAIN report, v \in erasedPeople :
          Names(report[j], v) => v \in report[j].late
    BY DEF ReportsInv, NamesAreLate
  <2> QED BY <1>0, <1>3, <2>1, <2>2 DEF NamesAreLate, Names
<1> QED BY <1>5, <1>6, <1>7, <1>8, <1>9, <1>10 DEF ReportsInv

LEMMA ReportsInitial == ReportsInit => ReportsInv
<1> SUFFICES ASSUME ReportsInit PROVE ReportsInv
  OBVIOUS
<1>1. /\ DOMAIN report = {} /\ Len(report) = 0 /\ report \in Seq(ReportRow) /\ MaxReports \in Nat
      /\ erasedPeople = {} /\ republished = {} /\ request = [s \in Slots |-> NoRequest]
  BY ReportConstantsOK DEF ReportsInit
<1>2. content \in [Targets -> {"shown", "hidden", "pending", "gone"}]
  BY DEF ReportsInit
<1>3. request \in [Slots -> ReportRequest] /\ \A s \in Slots : request[s].pc \notin Resolving
  BY <1>1, NotARequest
<1> QED BY <1>1, <1>2, <1>3 DEF ReportsInv, ReportsTypeOK, RequestsRead, OneLiveReport, SelfResolveNeedsErasure,
           ResolvedIsNotShown, NamesAreLate

LEMMA ReportsStep == ReportsInv /\ [ReportsNext]_reportVars => ReportsInv'
<1> SUFFICES ASSUME ReportsInv, [ReportsNext]_reportVars PROVE ReportsInv'
  OBVIOUS
<1>1. CASE UNCHANGED reportVars
  BY <1>1 DEF reportVars, ReportsInv, ReportsTypeOK, RequestsRead, OneLiveReport, SelfResolveNeedsErasure,
     ResolvedIsNotShown, NamesAreLate
<1>2. CASE ReportsNext
  BY <1>2, AdmitKeeps, SubmitKeeps, ClaimKeeps, ReadKeeps, UpdateKeeps, HideKeeps, DropKeeps, ContentKeeps, EraseKeeps
     DEF ReportsNext
<1> QED BY <1>1, <1>2

\* The inductive invariant of reports: a request has read a report that its
\* moderator did not file, and what is still to be decided has no verdict.
THEOREM ReportsInductive == ReportsSpec => []ReportsInv
BY ReportsInitial, ReportsStep, PTL DEF ReportsSpec

\* A verdict is only ever written to a report under review.
LEMMA VerdictsStay ==
  ASSUME ReportsInv, ReportsNext, NEW i \in DOMAIN report, report[i].state \in Outcomes
  PROVE  report'[i].state = report[i].state /\ report'[i].closer = report[i].closer
<1>1. /\ report[i].state # "OPEN" /\ report[i].state # "UNDER_REVIEW" /\ report[i] \in ReportRow
      /\ report \in [1..Len(report) -> ReportRow] /\ report \in Seq(ReportRow)
      /\ DOMAIN report = 1..Len(report) /\ Len(report) \in Nat
  BY ReportFacts DEF Outcomes
<1>2. ASSUME NEW u \in People, EraseReporter(u)
      PROVE  report'[i].state = report[i].state /\ report'[i].closer = report[i].closer
  BY <1>1, <1>2 DEF EraseReporter, Forgotten, ReportRow
<1>3. ASSUME NEW s \in Slots, NEW t \in Targets, SubmitReport(s, t)
      PROVE  report'[i] = report[i]
  <2>1. PICK r : report' = Append(report, r)
    BY <1>3 DEF SubmitReport
  <2> QED BY <1>1, <2>1
<1>4. ASSUME NEW s \in Slots, NEW j \in DOMAIN report, ClaimReport(s, j)
      PROVE  report'[i] = report[i]
  BY <1>1, <1>4 DEF ClaimReport
<1>5. ASSUME NEW s \in Slots, UpdateReport(s)
      PROVE  report'[i] = report[i]
  <2>1. report' = report \/ \E j, r : UnderReview(j) /\ report' = [report EXCEPT ![j] = r]
    BY <1>5 DEF UpdateReport
  <2> QED BY <1>1, <2>1 DEF UnderReview
<1>6. ASSUME NEW s \in Slots, HideResolvedTarget(s) \/ DropRequest(s)
      PROVE  report'[i].state = report[i].state /\ report'[i].closer = report[i].closer
  <2>1. \/ report' = report
        \/ \E j, f : report' = [report EXCEPT ![j] = [@ EXCEPT !.followup = f]]
    BY <1>6 DEF HideResolvedTarget, DropRequest
  <2> QED BY <1>1, <2>1 DEF ReportRow
<1>7. ASSUME NEW s \in Slots, NEW j \in DOMAIN report, NEW o \in Outcomes, ReadReport(s, j, o)
      PROVE  report' = report
  BY <1>7 DEF ReadReport
<1>71. ASSUME NEW s \in Slots, NEW u \in People, AdmitRequest(s, u)
      PROVE  report' = report
  BY <1>71 DEF AdmitRequest
<1>8. ASSUME NEW t \in Targets, HideContent(t) \/ PublishContent(t) \/ DropContent(t)
      PROVE  report' = report
  BY <1>8 DEF HideContent, PublishContent, DropContent
<1> QED BY <1>2, <1>3, <1>4, <1>5, <1>6, <1>7, <1>71, <1>8 DEF ReportsNext

\* What reporting and resolving promise, however many moderators overlap and
\* accounts are erased: one live report each, no verdict on one's own report
\* unless an erasure cut it loose, the first outcome stands and takes its
\* target off view, and who left is forgotten but for what was under way
\* (resolve_report, anonymize).
THEOREM ReportsSafe == ReportsSpec => ReportsAreSafe
<1>1. ReportsInv => /\ ReportsTypeOK /\ OneLiveReport /\ SelfResolveNeedsErasure
                    /\ ResolvedIsNotShown /\ NamesAreLate
  BY DEF ReportsInv
<1>2. ReportsInv /\ [ReportsNext]_reportVars =>
        [\A i \in DOMAIN report :
           report[i].state \in Outcomes =>
             report'[i].state = report[i].state /\ report'[i].closer = report[i].closer]_reportVars
  BY VerdictsStay
<1> QED BY <1>1, <1>2, ReportsInductive, PTL DEF ReportsSpec, ReportsAreSafe, OutcomeStands

-----------------------------------------------------------------------------
(* Photos. *)

\* The tables and the bucket, one by one.
LEMMA PhotoFacts ==
  ASSUME PhotosInv
  PROVE  /\ upload \in [Uploads -> UploadPcs] /\ photo \in [Uploads -> PhotoRow \cup {NoPhoto}]
         /\ store \subseteq Objects /\ age \in [Uploads -> 0..2]
         /\ modreq \in [Mods -> ModRequest \cup {IdleMod}]
         /\ targetlock \in [Parents -> Mods \cup {NoMod}] /\ NoMod \notin Mods
         /\ lostack \subseteq Uploads /\ IsFiniteSet(Uploads) /\ Cardinality(Uploads) \in Nat
BY PhotoConstantsOK, FS_CardinalityType DEF PhotosInv, PhotosTypeOK

\* A row is one of the table.
LEMMA PhotoRowFacts ==
  ASSUME PhotosInv, NEW p \in Uploads, HasRow(p)
  PROVE  /\ photo[p] \in PhotoRow /\ photo[p].state \in PhotoModerationState
         /\ photo[p].target \in Parents /\ photo[p].position \in Nat
<1>1. photo[p] \in PhotoRow /\ Cardinality(Uploads) \in Nat
  BY PhotoFacts DEF HasRow
<1> QED BY <1>1 DEF PhotoRow

LEMMA RowIsNotNone == NoPhoto \notin PhotoRow /\ IdleMod \notin ModRequest /\ IdleMod.pc = "idle"
<1>1. \A r \in PhotoRow : r.state \in PhotoModerationState
  BY DEF PhotoRow
<1>2. \A x \in ModRequest : x.pc # "idle"
  BY DEF ModRequest
<1> QED BY <1>1, <1>2 DEF NoPhoto, PhotoModerationState, IdleMod

\* A request of a moderator that is under way.
LEMMA ModFacts ==
  ASSUME PhotosInv, NEW m \in Mods, modreq[m] # IdleMod
  PROVE  /\ modreq[m] \in ModRequest /\ modreq[m].id \in Uploads
         /\ modreq[m].position \in 0..Cardinality(Uploads) /\ modreq[m].position \in Nat
         /\ modreq[m].pc \in {"approve", "update", "commit", "reject", "wipe_full", "wipe_thumb"}
         /\ Past(modreq[m].id)
<1>1. modreq[m] \in ModRequest
  BY PhotoFacts
<1>2. /\ modreq[m].id \in Uploads /\ modreq[m].position \in 0..Cardinality(Uploads)
      /\ modreq[m].pc \in {"approve", "update", "commit", "reject", "wipe_full", "wipe_thumb"}
  BY <1>1 DEF ModRequest
<1>3. modreq[m].position \in Nat
  BY <1>2, PhotoFacts
<1> QED BY <1>1, <1>2, <1>3 DEF PhotosInv, ModeratorsInOrder, RequestStands

\* What the retention job has in hand.
LEMMA JobFacts ==
  ASSUME PhotosInv
  PROVE  /\ retention.pc \in {"rest", "probe", "delete", "rows", "check", "drop"}
         /\ retention.pc \in {"probe", "delete"} => retention.keys \subseteq Objects
         /\ retention.pc \in {"rows", "check", "drop"} => retention.ids \subseteq Uploads
         /\ retention.pc = "drop" => retention.id \in Uploads
BY DEF PhotosInv, PhotosTypeOK, RestingJob

LEMMA ObjectFacts ==
  ASSUME NEW o \in Objects
  PROVE  o[1] \in Uploads /\ o[2] \in Parts /\ o = <<o[1], o[2]>>
BY DEF Objects

\* Both objects of an upload.
LEMMA StoredIs ==
  ASSUME NEW p
  PROVE  Stored(p) <=> <<p, "full">> \in store /\ <<p, "thumb">> \in store
BY DEF Stored, Parts

\* The number of spent uploads never falls.
LEMMA SpentFacts ==
  ASSUME PhotosInv
  PROVE  IsFiniteSet(Spent) /\ Cardinality(Spent) \in Nat /\ Cardinality(Spent) <= Cardinality(Uploads)
<1>1. Spent \in SUBSET Uploads
  BY DEF Spent
<1> QED BY <1>1, PhotoFacts, FS_Subset, FS_CardinalityType

LEMMA SpentGrows ==
  ASSUME PhotosInv, \A p \in Uploads : p \in Spent => p \in Spent'
  PROVE  Cardinality(Spent)' \in Nat /\ Cardinality(Spent) <= Cardinality(Spent)'
<1>1. PICK S : S = Spent'
  OBVIOUS
<1>2. PICK T : T = Spent
  OBVIOUS
<1>3. S \in SUBSET Uploads /\ T \in SUBSET S
  BY <1>1, <1>2 DEF Spent
<1>4. IsFiniteSet(S) /\ Cardinality(S) \in Nat
  BY <1>3, PhotoFacts, FS_Subset, FS_CardinalityType
<1>5. Cardinality(T) <= Cardinality(S)
  BY <1>3, <1>4, FS_Subset
<1> QED BY <1>1, <1>2, <1>4, <1>5

\* A step that touches neither the rows nor the moderators, and takes no
\* upload back, keeps what the moderators rely on.
LEMMA ModeratorsRest ==
  ASSUME PhotosInv, UNCHANGED <<photo, modreq, targetlock>>,
         \A p \in Uploads : Past(p) => Past(p)'
  PROVE  PositionsDistinct' /\ ModeratorsInOrder'
<1>1. PositionsDistinct'
  BY DEF PhotosInv, PositionsDistinct, HasRow
<1>2. \A p : (HasRow(p)' <=> HasRow(p)) /\ \A s : InState(p, s)' <=> InState(p, s)
  BY DEF HasRow, InState
<1>3. \A p \in Uploads : p \in Spent => p \in Spent'
  BY <1>2 DEF Spent
<1>4. PICK k : k = Cardinality(Spent)
  OBVIOUS
<1>5. PICK l : l = Cardinality(Spent)'
  OBVIOUS
<1>6. k \in Nat /\ l \in Nat /\ k <= l
  BY <1>3, <1>4, <1>5, SpentGrows, SpentFacts
<1>7. ASSUME NEW m \in Mods, modreq'[m] # IdleMod
      PROVE  (RequestStands(modreq[m], m) /\ PositionStands(modreq[m]))'
  <2>1. PICK x : x = modreq[m]
    OBVIOUS
  <2>2. x = modreq'[m] /\ x.id \in Uploads /\ x.position \in Nat
    BY <1>7, <2>1, ModFacts
  <2>3. RequestStands(x, m) /\ PositionStands(x)
    BY <1>7, <2>1 DEF PhotosInv, ModeratorsInOrder
  <2>4. RequestStands(x, m)'
    BY <1>2, <2>2, <2>3 DEF RequestStands, Dead
  <2>5. PositionStands(x)'
    BY <1>2, <1>4, <1>5, <1>6, <2>2, <2>3 DEF PositionStands
  <2> QED BY <2>2, <2>4, <2>5 DEF RequestStands, PositionStands
<1>8. PositionsBelow'
  BY <1>2, <1>4, <1>5, <1>6, PhotoRowFacts DEF PhotosInv, ModeratorsInOrder, PositionsBelow
<1>9. OneCommitEach'
  BY DEF PhotosInv, ModeratorsInOrder, OneCommitEach
<1> QED BY <1>1, <1>7, <1>8, <1>9 DEF ModeratorsInOrder

\* What holds of the rows of an upload.
LEMMA UploadFacts ==
  ASSUME PhotosInv, NEW p \in Uploads
  PROVE  /\ upload[p] # "ended" => age[p] = 0
         /\ ~Past(p) => ~HasRow(p) /\ p \notin lostack
         /\ upload[p] # "ended" /\ HasRow(p) => p \in lostack
         /\ upload[p] \in {"put_thumb", "insert"} => <<p, "full">> \in store
         /\ upload[p] = "insert" => <<p, "thumb">> \in store
         /\ HasRow(p) /\ photo[p].state \in Live /\ p \notin lostack => Stored(p)
<1>1. upload[p] \in UploadPcs
  BY PhotoFacts
<1> QED BY <1>1 DEF PhotosInv, UploadsInOrder, RowHasObjects, Past, UploadPcs

\* The handler of an upload moves on and touches only objects of its own.
LEMMA UploadMoves ==
  ASSUME PhotosInv, NEW p \in Uploads, upload[p] # "ended", NEW pc \in UploadPcs,
         upload' = [upload EXCEPT ![p] = pc],
         UNCHANGED <<photo, age, modreq, targetlock, retention, lostack>>,
         store' \subseteq Objects, \A o \in Objects : o[1] # p => (o \in store' <=> o \in store),
         Past(p) => pc \in {"undo_thumb", "undo_full", "ended"},
         pc \in {"put_thumb", "insert"} => <<p, "full">> \in store',
         pc = "insert" => <<p, "thumb">> \in store'
  PROVE  PhotosInv'
<1>1. /\ upload'[p] = pc /\ \A q \in Uploads : q # p => upload'[q] = upload[q]
      /\ upload' \in [Uploads -> UploadPcs]
  BY PhotoFacts
<1>2. \A q \in Uploads : Past(q) => Past(q)'
  BY <1>1 DEF Past
<1>3. PositionsDistinct' /\ ModeratorsInOrder'
  BY <1>2, ModeratorsRest
<1>4. PhotosTypeOK'
  BY <1>1 DEF PhotosInv, PhotosTypeOK
<1>5. \A q : (HasRow(q)' <=> HasRow(q)) /\ \A s : InState(q, s)' <=> InState(q, s)
  BY DEF HasRow, InState
<1>6. \A q \in Uploads : q # p => (Stored(q)' <=> Stored(q))
                                   /\ (<<q, "full">> \in store' <=> <<q, "full">> \in store)
                                   /\ (<<q, "thumb">> \in store' <=> <<q, "thumb">> \in store)
  <2>1. \A q \in Uploads : <<q, "full">> \in Objects /\ <<q, "thumb">> \in Objects
    BY DEF Objects, Parts
  <2>2. \A q \in Uploads : q # p => (<<q, "full">> \in store' <=> <<q, "full">> \in store)
                                     /\ (<<q, "thumb">> \in store' <=> <<q, "thumb">> \in store)
    BY <2>1
  <2> QED BY <2>2 DEF Stored, Parts
<1>7. RowHasObjects'
  BY <1>5, <1>6, UploadFacts DEF PhotosInv, RowHasObjects
<1>8. UploadsInOrder'
  <2>1. ASSUME NEW q \in Uploads
        PROVE  /\ upload'[q] # "ended" => age'[q] = 0
               /\ ~Past(q)' => ~HasRow(q)' /\ q \notin lostack'
               /\ upload'[q] \in {"undo_thumb", "undo_full"} => ~HasRow(q)' \/ q \in lostack'
               /\ upload'[q] \in {"put_thumb", "insert"} => <<q, "full">> \in store'
               /\ upload'[q] = "insert" => <<q, "thumb">> \in store'
    <3>1. CASE q = p
      BY <1>1, <1>2, <1>5, <3>1, UploadFacts
    <3>2. CASE q # p
      BY <1>1, <1>2, <1>5, <1>6, <3>2, UploadFacts
    <3> QED BY <3>1, <3>2
  <2> QED BY <2>1 DEF UploadsInOrder
<1>9. JobIsCareful'
  <2>1. \A o \in Objects : upload[o[1]] = "ended" => upload'[o[1]] = "ended"
    BY <1>1, ObjectFacts
  <2>2. \A q \in Uploads : Dead(q) => Dead(q)'
    BY <1>2, <1>5 DEF Dead
  <2> QED BY <1>2, <1>5, <2>1, <2>2, JobFacts DEF PhotosInv, JobIsCareful
<1> QED BY <1>3, <1>4, <1>7, <1>8, <1>9 DEF PhotosInv

\* A call about one object of p leaves the objects of the others alone.
LEMMA OwnObject ==
  ASSUME PhotosInv, NEW p \in Uploads, NEW x \in Parts,
         store' \in {store, store \cup {<<p, x>>}, store \ {<<p, x>>}}
  PROVE  /\ store' \subseteq Objects
         /\ \A o \in Objects : o[1] # p => (o \in store' <=> o \in store)
         /\ \A y \in Parts : y # x => (<<p, y>> \in store' <=> <<p, y>> \in store)
<1>1. store \subseteq Objects /\ <<p, x>> \in Objects
  BY PhotoFacts DEF Objects
<1>2. \A o \in Objects : o[1] # p => o # <<p, x>>
  OBVIOUS
<1>3. \A y \in Parts : y # x => <<p, y>> # <<p, x>>
  OBVIOUS
<1> QED BY <1>1, <1>2, <1>3

LEMMA UploadKeeps ==
  ASSUME PhotosInv, NEW p \in Uploads,
         AcceptUpload(p) \/ PutFull(p) \/ PutThumb(p) \/ UndoUpload(p) \/ DropUpload(p)
  PROVE  PhotosInv'
<1>0. store \subseteq Objects /\ "full" \in Parts /\ "thumb" \in Parts
  BY PhotoFacts DEF Parts
<1>1. CASE AcceptUpload(p)
  BY <1>0, <1>1, UploadMoves DEF AcceptUpload, UploadGoesTo, UploadPcs, Past
<1>2. CASE DropUpload(p)
  BY <1>0, <1>2, UploadMoves DEF DropUpload, UploadGoesTo, UploadPcs, Running
<1>3. CASE PutFull(p)
  <2>1. /\ upload[p] = "put_full" /\ UNCHANGED <<photo, age, modreq, targetlock, retention, lostack>>
        /\ store' \in {store, store \cup {<<p, "full">>}}
    BY <1>3 DEF PutFull, Landed
  <2>2. /\ store' \subseteq Objects
        /\ \A o \in Objects : o[1] # p => (o \in store' <=> o \in store)
    BY <1>0, <2>1, OwnObject
  <2>3. PICK pc \in {"put_thumb", "ended"} :
          upload' = [upload EXCEPT ![p] = pc] /\ (pc = "put_thumb" => <<p, "full">> \in store')
    BY <1>3 DEF PutFull, UploadGoesTo
  <2>4. pc \in UploadPcs /\ upload[p] # "ended" /\ ~Past(p) /\ pc # "insert"
    BY <2>1, <2>3 DEF UploadPcs, Past
  <2>5. pc \in {"put_thumb", "insert"} => <<p, "full">> \in store'
    BY <2>3
  <2> QED BY ONLY PhotosInv, p \in Uploads, <2>1, <2>2, <2>3, <2>4, <2>5, UploadMoves
<1>4. CASE PutThumb(p)
  <2>1. /\ upload[p] = "put_thumb" /\ UNCHANGED <<photo, age, modreq, targetlock, retention, lostack>>
        /\ store' \in {store, store \cup {<<p, "thumb">>}}
    BY <1>4 DEF PutThumb, Landed
  <2>2. /\ store' \subseteq Objects /\ <<p, "full">> \in store'
        /\ \A o \in Objects : o[1] # p => (o \in store' <=> o \in store)
    BY <1>0, <2>1, OwnObject, UploadFacts
  <2>3. PICK pc \in {"insert", "undo_full"} :
          upload' = [upload EXCEPT ![p] = pc] /\ (pc = "insert" => <<p, "thumb">> \in store')
    BY <1>4 DEF PutThumb, UploadGoesTo
  <2>4. pc \in UploadPcs /\ upload[p] # "ended" /\ ~Past(p)
    BY <2>1, <2>3 DEF UploadPcs, Past
  <2> QED BY ONLY PhotosInv, p \in Uploads, <2>1, <2>2, <2>3, <2>4, UploadMoves
<1>5. CASE UndoUpload(p)
  <2>1. /\ UNCHANGED <<photo, age, modreq, targetlock, retention, lostack>>
        /\ upload[p] \in {"undo_thumb", "undo_full"}
        /\ \E x \in Parts : store' \in {store, store \ {<<p, x>>}}
    BY <1>5 DEF UndoUpload, Landed, Parts
  <2>2. /\ store' \subseteq Objects
        /\ \A o \in Objects : o[1] # p => (o \in store' <=> o \in store)
    <3>1. PICK x \in Parts : store' \in {store, store \ {<<p, x>>}}
      BY <2>1
    <3> QED BY <3>1, OwnObject
  <2>3. PICK pc \in {"undo_full", "ended"} : upload' = [upload EXCEPT ![p] = pc]
    BY <1>5 DEF UndoUpload, UploadGoesTo
  <2>4. pc \in UploadPcs /\ upload[p] # "ended" /\ pc \in {"undo_thumb", "undo_full", "ended"}
        /\ pc \notin {"put_thumb", "insert"} /\ pc # "insert"
    BY <2>1, <2>3 DEF UploadPcs
  <2> QED BY ONLY PhotosInv, p \in Uploads, <2>1, <2>2, <2>3, <2>4, UploadMoves
<1> QED BY <1>1, <1>2, <1>3, <1>4, <1>5

LEMMA AgeKeeps ==
  ASSUME PhotosInv, NEW p \in Uploads, GrowOld(p)
  PROVE  PhotosInv'
<1>1. /\ upload[p] = "ended" /\ age[p] < 2 /\ age' = [age EXCEPT ![p] = age[p] + 1]
      /\ UNCHANGED <<upload, photo, store, modreq, targetlock, retention, lostack>>
  BY DEF GrowOld
<1>2. age' \in [Uploads -> 0..2] /\ \A q \in Uploads : q # p => age'[q] = age[q]
  BY <1>1, PhotoFacts
<1>3. \A q : /\ (Past(q)' <=> Past(q)) /\ (HasRow(q)' <=> HasRow(q)) /\ (Stored(q)' <=> Stored(q))
             /\ (Dead(q)' <=> Dead(q))
  BY <1>1 DEF Past, HasRow, Stored, Dead, InState
<1>4. PositionsDistinct' /\ ModeratorsInOrder'
  BY <1>1, <1>3, ModeratorsRest
<1>5. PhotosTypeOK'
  BY <1>1, <1>2 DEF PhotosInv, PhotosTypeOK
<1>6. UploadsInOrder'
  BY <1>1, <1>2, <1>3 DEF PhotosInv, UploadsInOrder
<1>7. RowHasObjects'
  BY <1>1, <1>3 DEF PhotosInv, RowHasObjects
<1>8. JobIsCareful'
  BY <1>1, <1>3 DEF PhotosInv, JobIsCareful
<1> QED BY <1>4, <1>5, <1>6, <1>7, <1>8 DEF PhotosInv

\* A step of the job that deletes at most objects that belong to nobody.
LEMMA JobMoves ==
  ASSUME PhotosInv, UNCHANGED <<upload, photo, age, modreq, targetlock, lostack>>,
         store' \subseteq store,
         \A o \in store : o \notin store' => upload[o[1]] = "ended" /\ ~HasRow(o[1]),
         retention' \in {RestingJob}
           \cup [pc : {"probe", "delete"}, keys : SUBSET Objects]
           \cup [pc : {"rows", "check"}, ids : SUBSET Uploads]
           \cup [pc : {"drop"}, ids : SUBSET Uploads, id : Uploads],
         JobIsCareful'
  PROVE  PhotosInv'
<1>1. PhotosTypeOK'
  BY DEF PhotosInv, PhotosTypeOK
<1>2. \A q : (Past(q)' <=> Past(q)) /\ (HasRow(q)' <=> HasRow(q))
  BY DEF Past, HasRow
<1>3. PositionsDistinct' /\ ModeratorsInOrder'
  BY <1>2, ModeratorsRest
<1>4. \A q \in Uploads, x \in Parts :
        <<q, x>> \in store => <<q, x>> \in store' \/ (upload[q] = "ended" /\ ~HasRow(q))
  OBVIOUS
<1>5. RowHasObjects'
  BY <1>2, <1>4 DEF PhotosInv, RowHasObjects, Stored, Parts
<1>6. UploadsInOrder'
  <2>1. ASSUME NEW q \in Uploads
        PROVE  /\ upload'[q] # "ended" => age'[q] = 0
               /\ ~Past(q)' => ~HasRow(q)' /\ q \notin lostack'
               /\ upload'[q] \in {"undo_thumb", "undo_full"} => ~HasRow(q)' \/ q \in lostack'
               /\ upload'[q] \in {"put_thumb", "insert"} => <<q, "full">> \in store'
               /\ upload'[q] = "insert" => <<q, "thumb">> \in store'
    BY <1>2, <1>4, UploadFacts DEF Parts
  <2> QED BY <2>1 DEF UploadsInOrder
<1> QED BY <1>1, <1>3, <1>5, <1>6 DEF PhotosInv

\* A row that is not there, or is not live, is nobody's.
LEMMA SweepKeeps ==
  ASSUME PhotosInv, \/ SweepLists \/ SweepProbes \/ SweepEnds \/ \E o \in Objects : SweepDeletes(o)
  PROVE  PhotosInv'
<1>1. CASE SweepLists
  <2>1. /\ UNCHANGED <<upload, photo, store, age, modreq, targetlock, lostack>>
        /\ retention' = [pc |-> "probe", keys |-> Aged]
    BY <1>1 DEF SweepLists, JobUnchanged
  <2>2. Aged \subseteq Objects /\ \A o \in Aged : upload[o[1]] = "ended"
    <3>1. Aged \subseteq Objects
      BY PhotoFacts DEF Aged
    <3>2. ASSUME NEW o \in Aged PROVE upload[o[1]] = "ended"
      <4>1. o[1] \in Uploads /\ age[o[1]] = 2
        BY <3>1, ObjectFacts DEF Aged
      <4>2. \A q \in Uploads : upload[q] # "ended" => age[q] = 0
        BY UploadFacts
      <4> QED BY <4>1, <4>2
    <3> QED BY <3>1, <3>2
  <2>3. JobIsCareful'
    BY <2>1, <2>2 DEF JobIsCareful
  <2> QED BY <2>1, <2>2, <2>3, JobMoves
<1>2. CASE SweepProbes
  <2>1. /\ UNCHANGED <<upload, photo, store, age, modreq, targetlock, lostack>>
        /\ retention.pc = "probe"
        /\ retention' = [pc |-> "delete", keys |-> retention.keys \ Referenced]
    BY <1>2 DEF SweepProbes, JobUnchanged
  <2>2. PICK K : K = retention.keys \ Referenced
    OBVIOUS
  <2>3. K \subseteq Objects /\ \A o \in K : upload[o[1]] = "ended" /\ ~HasRow(o[1])
    BY <2>1, <2>2, JobFacts DEF PhotosInv, JobIsCareful, Referenced
  <2>4. \A q : HasRow(q)' <=> HasRow(q)
    BY <2>1 DEF HasRow
  <2>5. JobIsCareful'
    BY <2>1, <2>2, <2>3, <2>4 DEF JobIsCareful
  <2> QED BY <2>1, <2>2, <2>3, <2>5, JobMoves
<1>3. CASE SweepEnds
  <2>1. /\ UNCHANGED <<upload, photo, age, modreq, targetlock, lostack>>
        /\ retention' = [pc |-> "rows", ids |-> {}]
        /\ store' = store \/ (retention.pc = "delete" /\ \E o \in retention.keys : store' = store \ {o})
    BY <1>3 DEF SweepEnds, JobUnchanged, Landed
  <2>2. JobIsCareful'
    BY <2>1 DEF JobIsCareful
  <2>3. /\ store' \subseteq store
        /\ \A o \in store : o \notin store' => upload[o[1]] = "ended" /\ ~HasRow(o[1])
    BY <2>1 DEF PhotosInv, JobIsCareful
  <2> QED BY <2>1, <2>2, <2>3, JobMoves
<1>4. CASE \E o \in Objects : SweepDeletes(o)
  <2>1. PICK o \in Objects : SweepDeletes(o)
    BY <1>4
  <2>2. /\ UNCHANGED <<upload, photo, age, modreq, targetlock, lostack>>
        /\ retention.pc = "delete" /\ o \in retention.keys /\ store' = store \ {o}
        /\ retention' = [retention EXCEPT !.keys = retention.keys \ {o}]
    BY <2>1 DEF SweepDeletes, JobUnchanged
  <2>3. retention \in [pc : {"probe", "delete"}, keys : SUBSET Objects]
    BY <2>2 DEF PhotosInv, PhotosTypeOK, RestingJob
  <2>4. PICK K : K = retention.keys \ {o}
    OBVIOUS
  <2>5. /\ K \subseteq Objects /\ retention' = [pc |-> "delete", keys |-> K]
        /\ \A u \in K : upload[u[1]] = "ended" /\ ~HasRow(u[1])
        /\ upload[o[1]] = "ended" /\ ~HasRow(o[1])
    BY <2>2, <2>3, <2>4 DEF PhotosInv, JobIsCareful
  <2>6. \A q : HasRow(q)' <=> HasRow(q)
    BY <2>2 DEF HasRow
  <2>7. JobIsCareful'
    BY <2>2, <2>5, <2>6 DEF JobIsCareful
  <2>8. /\ store' \subseteq store
        /\ \A u \in store : u \notin store' => upload[u[1]] = "ended" /\ ~HasRow(u[1])
    BY <2>2, <2>5
  <2>9. retention' \in [pc : {"probe", "delete"}, keys : SUBSET Objects]
    BY <2>5
  <2> QED BY ONLY PhotosInv, <2>2, <2>7, <2>8, <2>9, JobMoves
<1> QED BY <1>1, <1>2, <1>3, <1>4

LEMMA ReconcileKeeps ==
  ASSUME PhotosInv, ReconcileLists \/ ReconcileEnds \/ \E p \in Uploads : ReconcileChecks(p)
  PROVE  PhotosInv'
<1>0. \A p \in Uploads : HasRow(p) => Past(p)
  BY UploadFacts
<1>1. CASE ReconcileLists
  <2>1. PICK I : I = {p \in Uploads : InState(p, "PENDING_REVIEW") /\ age[p] >= 1}
    OBVIOUS
  <2>2. /\ UNCHANGED <<upload, photo, store, age, modreq, targetlock, lostack>>
        /\ retention' = [pc |-> "check", ids |-> I]
    BY <1>1, <2>1 DEF ReconcileLists, JobUnchanged
  <2>3. I \subseteq Uploads /\ \A p \in I : Past(p)
    BY <1>0, <2>1 DEF InState
  <2>4. \A q : Past(q)' <=> Past(q)
    BY <2>2 DEF Past
  <2>5. JobIsCareful'
    BY <2>2, <2>3, <2>4 DEF JobIsCareful
  <2> QED BY <2>2, <2>3, <2>5, JobMoves
<1>2. CASE ReconcileEnds
  <2>1. /\ UNCHANGED <<upload, photo, store, age, modreq, targetlock, lostack>>
        /\ retention' = RestingJob
    BY <1>2 DEF ReconcileEnds, JobUnchanged
  <2>2. JobIsCareful'
    BY <2>1 DEF JobIsCareful, RestingJob
  <2> QED BY <2>1, <2>2, JobMoves
<1>3. CASE \E p \in Uploads : ReconcileChecks(p)
  <2>1. PICK p \in Uploads : ReconcileChecks(p)
    BY <1>3
  <2>2. PICK I : I = retention.ids \ {p}
    OBVIOUS
  <2>3. /\ UNCHANGED <<upload, photo, store, age, modreq, targetlock, lostack>>
        /\ retention.pc = "check" /\ p \in retention.ids
        /\ retention' = IF Keeps(p) THEN [pc |-> "check", ids |-> I]
                                    ELSE [pc |-> "drop", ids |-> I, id |-> p]
    BY <2>1, <2>2 DEF ReconcileChecks, JobUnchanged
  <2>4. I \subseteq Uploads /\ Past(p) /\ \A q \in I : Past(q)
    BY <2>2, <2>3, JobFacts DEF PhotosInv, JobIsCareful
  <2>5. \A q : (Past(q)' <=> Past(q)) /\ (Dead(q)' <=> Dead(q))
    BY <2>3 DEF Past, Dead, HasRow, InState
  <2>6. CASE Keeps(p)
    <3>1. retention' = [pc |-> "check", ids |-> I]
      BY <2>3, <2>6
    <3>2. JobIsCareful'
      BY <2>4, <2>5, <3>1 DEF JobIsCareful
    <3> QED BY <2>3, <2>4, <3>1, <3>2, JobMoves
  <2>7. CASE ~Keeps(p)
    <3>1. retention' = [pc |-> "drop", ids |-> I, id |-> p]
      BY <2>3, <2>7
    <3>2. p \in lostack \/ Dead(p)
      BY <2>4, <2>7, UploadFacts, StoredIs, PhotoRowFacts
         DEF Keeps, Dead, InState, Live, PhotoModerationState
    <3>3. JobIsCareful'
      BY <2>3, <2>4, <2>5, <3>1, <3>2 DEF JobIsCareful
    <3> QED BY <2>3, <2>4, <3>1, <3>3, JobMoves
  <2> QED BY <2>6, <2>7
<1> QED BY <1>1, <1>2, <1>3

\* The maximum of a set of numbers below a bound is one of them.
LEMMA MaxFacts ==
  ASSUME NEW K \in Nat, NEW S \in SUBSET (0..K), S # {}
  PROVE  Max(S) \in S /\ \A y \in S : y <= Max(S)
<1>1. PICK T : T = {K - x : x \in S}
  OBVIOUS
<1>2. T \subseteq Nat /\ T # {}
  <2>1. \A x \in S : K - x \in Nat
    OBVIOUS
  <2>2. T \subseteq Nat
    BY <1>1, <2>1
  <2>3. PICK x \in S : TRUE
    OBVIOUS
  <2>4. K - x \in T
    BY <1>1, <2>3
  <2> QED BY <2>2, <2>4
<1>3. PICK R : R = OpToRel(<, Nat)
  OBVIOUS
<1>4. IsWellFoundedOn(R, Nat)
  BY <1>3, NatLessThanWellFounded
<1>5. PICK t \in T : \A u \in T : ~(<<u, t>> \in R)
  BY <1>2, <1>4, WFMin
<1>6. \A u \in T : ~(u < t)
  BY <1>2, <1>3, <1>5 DEF OpToRel
<1>7. PICK x \in S : t = K - x
  BY <1>1, <1>5
<1>8. \A y \in S : K - y \in T /\ y \in 0..K
  BY <1>1
<1>9. \A y \in S : x >= y
  BY <1>6, <1>7, <1>8
<1>10. \E z \in S : \A y \in S : z >= y
  BY <1>9
<1>11. Max(S) \in S /\ \A y \in S : Max(S) >= y
  BY <1>10, Zenon DEF Max
<1> QED BY <1>8, <1>11

\* One request of a moderator moves on; no row changes, and at most objects
\* of a dead upload go.
LEMMA ModMoves ==
  ASSUME PhotosInv, NEW m \in Mods, NEW y \in ModRequest \cup {IdleMod},
         modreq' = [modreq EXCEPT ![m] = y],
         UNCHANGED <<upload, photo, age, retention, lostack>>,
         store' \subseteq store, \A o \in store : o \notin store' => Dead(o[1]),
         targetlock' \in [Parents -> Mods \cup {NoMod}],
         \A t \in Parents : targetlock[t] \in Mods /\ targetlock[t] # m => targetlock'[t] = targetlock[t],
         y # IdleMod => RequestStands(y, m)' /\ PositionStands(y)',
         y.pc = "commit" => ~RowLocked(y.id)
  PROVE  PhotosInv'
<1>1. /\ \A q : /\ (Past(q)' <=> Past(q)) /\ (HasRow(q)' <=> HasRow(q)) /\ (Dead(q)' <=> Dead(q))
                /\ \A s : InState(q, s)' <=> InState(q, s)
      /\ Spent' = Spent
  BY DEF Past, HasRow, Dead, InState, Spent
<1>2. /\ modreq' \in [Mods -> ModRequest \cup {IdleMod}] /\ modreq'[m] = y
      /\ \A n \in Mods : n # m => modreq'[n] = modreq[n]
  BY PhotoFacts
<1>3. PhotosTypeOK'
  BY <1>2 DEF PhotosInv, PhotosTypeOK
<1>4. \A q \in Uploads, x \in Parts : <<q, x>> \in store => <<q, x>> \in store' \/ Dead(q)
  OBVIOUS
<1>5. RowHasObjects'
  <2>1. \A q \in Uploads : Dead(q) => ~(HasRow(q) /\ photo[q].state \in Live)
    BY DEF Dead, InState, Live
  <2> QED BY <1>1, <1>4, <2>1 DEF PhotosInv, RowHasObjects, Stored, Parts
<1>6. UploadsInOrder'
  <2>1. \A q \in Uploads : Dead(q) => upload[q] \notin {"put_thumb", "insert"}
    BY DEF Dead, Past
  <2>2. ASSUME NEW q \in Uploads
        PROVE  /\ upload'[q] # "ended" => age'[q] = 0
               /\ ~Past(q)' => ~HasRow(q)' /\ q \notin lostack'
               /\ upload'[q] \in {"undo_thumb", "undo_full"} => ~HasRow(q)' \/ q \in lostack'
               /\ upload'[q] \in {"put_thumb", "insert"} => <<q, "full">> \in store'
               /\ upload'[q] = "insert" => <<q, "thumb">> \in store'
    BY <1>1, <1>4, <2>1, UploadFacts DEF Parts
  <2> QED BY <2>2 DEF UploadsInOrder
<1>7. JobIsCareful'
  BY <1>1 DEF PhotosInv, JobIsCareful
<1>8. PositionsDistinct' /\ PositionsBelow'
  BY <1>1 DEF PhotosInv, ModeratorsInOrder, PositionsDistinct, PositionsBelow
<1>9. ASSUME NEW n \in Mods, modreq'[n] # IdleMod
      PROVE  (RequestStands(modreq[n], n) /\ PositionStands(modreq[n]))'
  <2>1. PICK x : x = modreq'[n]
    OBVIOUS
  <2>2. RequestStands(x, n)' /\ PositionStands(x)'
    <3>1. CASE n = m
      BY <1>2, <1>9, <2>1, <3>1
    <3>2. CASE n # m
      <4>1. x = modreq[n] /\ modreq[n] # IdleMod
        BY <1>2, <1>9, <2>1, <3>2
      <4>2. x.id \in Uploads /\ RequestStands(x, n) /\ PositionStands(x)
        BY <4>1, ModFacts DEF PhotosInv, ModeratorsInOrder
      <4>3. HasRow(x.id) => photo[x.id].target \in Parents
        BY <4>2, PhotoRowFacts
      <4>4. RequestStands(x, n)'
        BY <1>1, <3>2, <4>2, <4>3 DEF RequestStands
      <4>5. PositionStands(x)'
        BY <1>1, <4>2 DEF PositionStands
      <4> QED BY <4>4, <4>5
    <3> QED BY <3>1, <3>2
  <2> QED BY <2>1, <2>2 DEF RequestStands, PositionStands
<1>10. OneCommitEach'
  <2>1. ASSUME NEW n \in Mods, NEW k \in Mods, modreq'[n].pc = "commit", modreq'[k].pc = "commit",
               modreq'[n].id = modreq'[k].id
        PROVE  n = k
    <3>1. CASE n # m /\ k # m
      BY <1>2, <2>1, <3>1 DEF PhotosInv, ModeratorsInOrder, OneCommitEach
    <3>2. CASE n = m /\ k # m
      BY <1>2, <2>1, <3>2 DEF RowLocked
    <3>3. CASE n # m /\ k = m
      BY <1>2, <2>1, <3>3 DEF RowLocked
    <3> QED BY <3>1, <3>2, <3>3
  <2> QED BY <2>1 DEF OneCommitEach
<1> QED BY <1>3, <1>5, <1>6, <1>7, <1>8, <1>9, <1>10 DEF PhotosInv, ModeratorsInOrder

\* What is left of the locks when m ends.
LEMMA UnlockedFacts ==
  ASSUME PhotosInv, NEW m \in Mods, targetlock' = Unlocked(m)
  PROVE  /\ targetlock' \in [Parents -> Mods \cup {NoMod}]
         /\ \A t \in Parents :
              targetlock[t] \in Mods /\ targetlock[t] # m => targetlock'[t] = targetlock[t]
BY PhotoFacts DEF Unlocked

\* A request that ends, whatever it held.
LEMMA ModEnds ==
  ASSUME PhotosInv, NEW m \in Mods, ModRests(m),
         UNCHANGED <<upload, photo, age, retention, lostack>>,
         store' \subseteq store, \A o \in store : o \notin store' => Dead(o[1]),
         targetlock' \in {targetlock, Unlocked(m)}
  PROVE  PhotosInv'
<1>1. /\ targetlock' \in [Parents -> Mods \cup {NoMod}]
      /\ \A t \in Parents :
           targetlock[t] \in Mods /\ targetlock[t] # m => targetlock'[t] = targetlock[t]
  BY PhotoFacts, UnlockedFacts
<1>2. modreq' = [modreq EXCEPT ![m] = IdleMod] /\ IdleMod.pc # "commit"
  BY RowIsNotNone DEF ModRests
<1> QED BY ONLY PhotosInv, m \in Mods, <1>1, <1>2, ModMoves,
              UNCHANGED <<upload, photo, age, retention, lostack>>,
              store' \subseteq store, \A o \in store : o \notin store' => Dead(o[1])

LEMMA ReadPhotoKeeps ==
  ASSUME PhotosInv, NEW m \in Mods, NEW p \in Uploads, NEW pc \in {"approve", "reject"}, ReadPhoto(m, p, pc)
  PROVE  PhotosInv'
<1>1. PICK y : y = [pc |-> pc, id |-> p, position |-> 0]
  OBVIOUS
<1>2. /\ InState(p, "PENDING_REVIEW") /\ modreq' = [modreq EXCEPT ![m] = y]
      /\ UNCHANGED <<upload, photo, store, age, targetlock, retention, lostack>>
  BY <1>1 DEF ReadPhoto, ModGoesTo
<1>3. y \in ModRequest /\ y.id = p /\ y.pc \in {"approve", "reject"}
  BY <1>1, PhotoFacts DEF ModRequest
<1>4. Past(p)'
  BY <1>2, UploadFacts DEF InState, Past
<1>5. RequestStands(y, m)' /\ PositionStands(y)' /\ y.pc # "commit"
  BY <1>3, <1>4 DEF RequestStands, PositionStands
<1>6. targetlock' \in [Parents -> Mods \cup {NoMod}]
  BY <1>2, PhotoFacts
<1> QED BY <1>2, <1>3, <1>5, <1>6, ModMoves

LEMMA LocksKeeps ==
  ASSUME PhotosInv, NEW m \in Mods, ApproveLocks(m)
  PROVE  PhotosInv'
<1>1. PICK p : p = modreq[m].id
  OBVIOUS
<1>2. modreq[m].pc = "approve" /\ UNCHANGED <<upload, photo, store, age, retention, lostack>>
  BY DEF ApproveLocks
<1>3. p \in Uploads /\ Past(p)
  BY <1>1, <1>2, ModFacts, RowIsNotNone
<1>4. CASE HasRow(p)
  <2>1. PICK t : t = photo[p].target
    OBVIOUS
  <2>2. PICK y : y = [pc |-> "update", id |-> p, position |-> 0]
    OBVIOUS
  <2>3. /\ targetlock[t] = NoMod /\ targetlock' = [targetlock EXCEPT ![t] = m]
        /\ modreq' = [modreq EXCEPT ![m] = y]
    BY <1>1, <1>4, <2>1, <2>2 DEF ApproveLocks, ModGoesTo, TargetFree
  <2>4. t \in Parents
    BY <1>3, <1>4, <2>1, PhotoRowFacts
  <2>5. /\ targetlock' \in [Parents -> Mods \cup {NoMod}] /\ targetlock'[t] = m
        /\ \A u \in Parents : targetlock[u] \in Mods /\ targetlock[u] # m => targetlock'[u] = targetlock[u]
    BY <2>3, <2>4, PhotoFacts
  <2>6. y \in ModRequest /\ y.id = p /\ y.pc = "update"
    BY <1>3, <2>2, PhotoFacts DEF ModRequest
  <2>7. Past(p)' /\ photo'[p].target = t
    BY <1>2, <1>3, <2>1 DEF Past
  <2>8. RequestStands(y, m)' /\ PositionStands(y)' /\ y.pc # "commit"
    BY <2>5, <2>6, <2>7 DEF RequestStands, PositionStands
  <2> QED BY <1>2, <2>3, <2>5, <2>6, <2>8, ModMoves
<1>5. CASE ~HasRow(p)
  <2>1. ModRests(m) /\ UNCHANGED targetlock
    BY <1>1, <1>5 DEF ApproveLocks
  <2> QED BY <1>2, <2>1, ModEnds
<1> QED BY <1>4, <1>5

\* A pending upload is not among the spent ones.
LEMMA RoomForOne ==
  ASSUME PhotosInv, NEW p \in Uploads, p \notin Spent
  PROVE  Cardinality(Spent) + 1 <= Cardinality(Uploads)
<1>1. PICK S : S = Spent
  OBVIOUS
<1>2. S \in SUBSET Uploads /\ p \notin S /\ IsFiniteSet(S) /\ Cardinality(S) \in Nat
  BY <1>1, SpentFacts DEF Spent
<1>3. IsFiniteSet(S \cup {p}) /\ Cardinality(S \cup {p}) = Cardinality(S) + 1
  BY <1>2, FS_AddElement
<1>4. Cardinality(S \cup {p}) <= Cardinality(Uploads)
  BY <1>2, PhotoFacts, FS_Subset
<1> QED BY <1>1, <1>3, <1>4

\* The position given next is above those of the target and within bounds.
LEMMA NextPositionFacts ==
  ASSUME PhotosInv, NEW t
  PROVE  /\ NextPosition(t) \in Nat /\ NextPosition(t) > 0 /\ NextPosition(t) <= Cardinality(Spent) + 1
         /\ \A q \in Uploads : HasRow(q) /\ photo[q].target = t => photo[q].position < NextPosition(t)
<1>1. PICK k \in Nat : k = Cardinality(Spent)
  BY SpentFacts
<1>2. PICK S : S = {0} \cup {photo[q].position : q \in {r \in Uploads : HasRow(r) /\ photo[r].target = t}}
  OBVIOUS
<1>3. \A q \in Uploads : HasRow(q) => photo[q].position \in 0..k
  <2>1. \A q \in Uploads : HasRow(q) => photo[q].position \in Nat
    BY PhotoRowFacts
  <2>2. \A q \in Uploads : HasRow(q) => photo[q].position <= k
    BY <1>1 DEF PhotosInv, ModeratorsInOrder, PositionsBelow
  <2> QED BY <1>1, <2>1, <2>2
<1>4. S \in SUBSET (0..k) /\ S # {}
  BY <1>1, <1>2, <1>3
<1>5. PICK n : n = Max(S)
  OBVIOUS
<1>6. n \in S /\ \A y \in S : y <= n
  BY <1>4, <1>5, MaxFacts
<1>7. NextPosition(t) = n + 1
  BY <1>2, <1>5 DEF NextPosition
<1>8. n \in 0..k
  BY <1>4, <1>6
<1>9. \A q \in Uploads : HasRow(q) /\ photo[q].target = t => photo[q].position \in S
  BY <1>2
<1>10. \A q \in Uploads : HasRow(q) /\ photo[q].target = t => photo[q].position < n + 1
  BY <1>3, <1>6, <1>8, <1>9
<1> QED BY <1>1, <1>7, <1>8, <1>10

LEMMA ApproveUpdatesKeeps ==
  ASSUME PhotosInv, NEW m \in Mods, ApproveUpdates(m)
  PROVE  PhotosInv'
<1>1. PICK p : p = modreq[m].id
  OBVIOUS
<1>2. /\ modreq[m].pc = "update" /\ ~RowLocked(p)
      /\ UNCHANGED <<upload, photo, store, age, retention, lostack>>
  BY <1>1 DEF ApproveUpdates
<1>3. modreq[m] # IdleMod
  BY <1>2, RowIsNotNone
<1>4. p \in Uploads /\ Past(p)
  BY <1>1, <1>3, ModFacts
<1>5. CASE InState(p, "PENDING_REVIEW")
  <2>1. PICK t : t = photo[p].target
    OBVIOUS
  <2>2. PICK n : n = NextPosition(t)
    OBVIOUS
  <2>3. PICK y : y = [pc |-> "commit", id |-> p, position |-> n]
    OBVIOUS
  <2>4. modreq' = [modreq EXCEPT ![m] = y] /\ UNCHANGED targetlock
    BY <1>1, <1>5, <2>1, <2>2, <2>3 DEF ApproveUpdates, ModGoesTo
  <2>5. PICK k \in Nat : k = Cardinality(Spent)
    BY SpentFacts
  <2>6. /\ n \in Nat /\ n > 0 /\ n <= k + 1
        /\ \A q \in Uploads : HasRow(q) /\ photo[q].target = t => photo[q].position < n
    BY <2>2, <2>5, NextPositionFacts
  <2>7. k + 1 <= Cardinality(Uploads) /\ Cardinality(Uploads) \in Nat
    BY <1>4, <1>5, <2>5, RoomForOne, PhotoFacts DEF Spent
  <2>8. y \in ModRequest /\ y.id = p /\ y.pc = "commit" /\ y.position = n
    BY <1>4, <2>3, <2>5, <2>6, <2>7 DEF ModRequest
  <2>9. /\ \A q : (Past(q)' <=> Past(q)) /\ (HasRow(q)' <=> HasRow(q)) /\ (Dead(q)' <=> Dead(q))
                  /\ \A s : InState(q, s)' <=> InState(q, s)
        /\ Spent' = Spent
    BY <1>2 DEF Past, HasRow, Dead, InState, Spent
  <2>10. targetlock[t] = m /\ targetlock' \in [Parents -> Mods \cup {NoMod}]
    <3>1. RequestStands(modreq[m], m)
      BY <1>3 DEF PhotosInv, ModeratorsInOrder
    <3> QED BY <1>1, <1>2, <1>5, <2>1, <2>4, <3>1, PhotoFacts DEF RequestStands, InState
  <2>11. RequestStands(y, m)'
    BY <1>2, <1>4, <1>5, <2>1, <2>4, <2>8, <2>9, <2>10 DEF RequestStands
  <2>12. PositionStands(y)'
    BY <1>2, <2>1, <2>5, <2>6, <2>8, <2>9 DEF PositionStands
  <2> QED BY <1>2, <2>4, <2>8, <2>10, <2>11, <2>12, ModMoves
<1>6. CASE ~InState(p, "PENDING_REVIEW")
  <2>1. ModRests(m) /\ targetlock' = Unlocked(m)
    BY <1>1, <1>6 DEF ApproveUpdates
  <2> QED BY <1>2, <2>1, ModEnds
<1> QED BY <1>5, <1>6

LEMMA DropsKeep ==
  ASSUME PhotosInv, NEW m \in Mods, DropModRequest(m)
  PROVE  PhotosInv'
BY ModEnds DEF DropModRequest

\* What a wipe deletes is of a dead upload.
LEMMA WipesKeep ==
  ASSUME PhotosInv, NEW m \in Mods, RejectWipes(m)
  PROVE  PhotosInv'
<1>1. PICK p : p = modreq[m].id
  OBVIOUS
<1>2. /\ modreq[m].pc \in {"wipe_full", "wipe_thumb"}
      /\ UNCHANGED <<upload, photo, age, targetlock, retention, lostack>>
      /\ \E x \in Parts : store' \in {store, store \ {<<p, x>>}}
  BY <1>1 DEF RejectWipes, Landed, Parts
<1>3. modreq[m] # IdleMod
  BY <1>2, RowIsNotNone
<1>4. p \in Uploads /\ Past(p) /\ Dead(p)
  BY <1>1, <1>2, <1>3, ModFacts DEF PhotosInv, ModeratorsInOrder, RequestStands
<1>5. store' \subseteq store /\ \A o \in store : o \notin store' => Dead(o[1])
  BY <1>2, <1>4
<1>6. CASE modreq[m].pc = "wipe_thumb"
  <2>1. ModRests(m)
    BY <1>6 DEF RejectWipes
  <2> QED BY <1>2, <1>5, <2>1, ModEnds
<1>7. CASE modreq[m].pc = "wipe_full"
  <2>1. PICK y : y = [pc |-> "wipe_thumb", id |-> p, position |-> 0]
    OBVIOUS
  <2>2. modreq' = [modreq EXCEPT ![m] = y]
    BY <1>1, <1>7, <2>1 DEF RejectWipes, ModGoesTo
  <2>3. y \in ModRequest /\ y.id = p /\ y.pc = "wipe_thumb"
    BY <1>4, <2>1, PhotoFacts DEF ModRequest
  <2>4. Past(p)' /\ Dead(p)'
    BY <1>2, <1>4 DEF Past, Dead, HasRow, InState
  <2>5. RequestStands(y, m)' /\ PositionStands(y)' /\ y.pc # "commit"
    BY <2>3, <2>4 DEF RequestStands, PositionStands
  <2>6. targetlock' \in [Parents -> Mods \cup {NoMod}]
    BY <1>2, PhotoFacts
  <2> QED BY <1>2, <1>5, <2>2, <2>3, <2>5, <2>6, ModMoves
<1> QED BY <1>2, <1>6, <1>7

\* A step that gives p the row r, or takes its row away, and whose request,
\* if it has one, is that of m.  Spent uploads stay spent, a dead one stays
\* dead, and nobody else is about to commit an approval of p.
RowStep(p, r, m) ==
  /\ photo' = [photo EXCEPT ![p] = r] /\ UNCHANGED <<store, age>>
  /\ upload' \in [Uploads -> UploadPcs] /\ lostack' \subseteq Uploads /\ lostack \subseteq lostack'
  /\ \A q \in Uploads \ {p} : upload'[q] = upload[q] /\ (q \in lostack' => q \in lostack)
  /\ upload[p] = "ended" => upload'[p] = "ended"
  /\ upload'[p] # "ended" => age[p] = 0
  /\ Past(p)'
  /\ upload'[p] # "ended" => r = NoPhoto \/ p \in lostack'
  /\ modreq' \in [Mods -> ModRequest \cup {IdleMod}] /\ \A n \in Mods \ {m} : modreq'[n] = modreq[n]
  /\ targetlock' \in [Parents -> Mods \cup {NoMod}]
  /\ \A t \in Parents : targetlock[t] \in Mods /\ targetlock[t] # m => targetlock'[t] = targetlock[t]
  /\ \/ retention' = retention
     \/ retention.pc = "drop" /\ retention' = [pc |-> "check", ids |-> retention.ids]
  /\ r # NoPhoto =>
       /\ HasRow(p) => r.target = photo[p].target
       /\ ~HasRow(p) => ~Past(p)
       /\ r.state = "PENDING_REVIEW" => ~Past(p)
       /\ InState(p, "REJECTED") => r.state = "REJECTED"
       /\ r.state \in Live /\ p \notin lostack' => Stored(p)
       /\ r.position = 0 \/ (HasRow(p) /\ r.position = photo[p].position) \/ targetlock[r.target] = m
       /\ r.position > 0 => \A q \in Uploads \ {p} :
            HasRow(q) /\ photo[q].target = r.target => photo[q].position # r.position
       /\ r.position <= Cardinality(Spent)'
  /\ \A n \in Mods \ {m} : modreq[n].pc = "commit" => modreq[n].id # p

\* What such a step leaves of the other rows and uploads.
LEMMA RowStepFacts ==
  ASSUME PhotosInv, NEW p \in Uploads, NEW r \in PhotoRow \cup {NoPhoto}, NEW m \in Mods \cup {NoMod},
         RowStep(p, r, m)
  PROVE  /\ photo' \in [Uploads -> PhotoRow \cup {NoPhoto}] /\ photo'[p] = r
         /\ HasRow(p)' <=> r # NoPhoto
         /\ \A s : InState(p, s)' <=> r # NoPhoto /\ r.state = s
         /\ \A q \in Uploads \ {p} :
              /\ photo'[q] = photo[q] /\ (HasRow(q)' <=> HasRow(q)) /\ (Past(q)' <=> Past(q))
              /\ (\A s : InState(q, s)' <=> InState(q, s)) /\ (Dead(q)' <=> Dead(q))
         /\ \A q \in Uploads : Past(q) => Past(q)'
         /\ \A q \in Uploads : Dead(q) => Dead(q)'
         /\ \A q \in Uploads : q \in Spent => q \in Spent'
<1>1. /\ photo' \in [Uploads -> PhotoRow \cup {NoPhoto}] /\ photo'[p] = r
      /\ \A q \in Uploads \ {p} : photo'[q] = photo[q] /\ upload'[q] = upload[q]
  BY PhotoFacts DEF RowStep
<1>2. (HasRow(p)' <=> r # NoPhoto) /\ \A s : InState(p, s)' <=> r # NoPhoto /\ r.state = s
  BY <1>1 DEF HasRow, InState
<1>3. \A q \in Uploads \ {p} :
        /\ (HasRow(q)' <=> HasRow(q)) /\ (Past(q)' <=> Past(q))
        /\ (\A s : InState(q, s)' <=> InState(q, s)) /\ (Dead(q)' <=> Dead(q))
  BY <1>1 DEF HasRow, Past, InState, Dead
<1>4. Past(p)'
  BY DEF RowStep
<1>5. Dead(p) => Dead(p)'
  BY <1>2, <1>4 DEF RowStep, Dead
<1>6. p \in Spent => p \in Spent'
  BY <1>2, <1>4 DEF RowStep, Spent
<1>7. \A q \in Uploads \ {p} : q \in Spent => q \in Spent'
  BY <1>3 DEF Spent
<1> QED BY <1>1, <1>2, <1>3, <1>4, <1>5, <1>6, <1>7

\* The rows, the uploads and the job after it.
LEMMA RowStepRows ==
  ASSUME PhotosInv, NEW p \in Uploads, NEW r \in PhotoRow \cup {NoPhoto}, NEW m \in Mods \cup {NoMod},
         RowStep(p, r, m)
  PROVE  PhotosTypeOK' /\ RowHasObjects' /\ PositionsDistinct' /\ UploadsInOrder' /\ JobIsCareful'
<1>1. PhotosTypeOK'
  <2>1. retention' \in {RestingJob}
          \cup [pc : {"probe", "delete"}, keys : SUBSET Objects]
          \cup [pc : {"rows", "check"}, ids : SUBSET Uploads]
          \cup [pc : {"drop"}, ids : SUBSET Uploads, id : Uploads]
    <3>1. CASE retention' = retention
      BY <3>1 DEF PhotosInv, PhotosTypeOK
    <3>2. CASE retention.pc = "drop" /\ retention' = [pc |-> "check", ids |-> retention.ids]
      BY <3>2, JobFacts
    <3> QED BY <3>1, <3>2 DEF RowStep
  <2>2. /\ upload' \in [Uploads -> UploadPcs] /\ lostack' \subseteq Uploads /\ UNCHANGED <<store, age>>
        /\ modreq' \in [Mods -> ModRequest \cup {IdleMod}]
        /\ targetlock' \in [Parents -> Mods \cup {NoMod}]
    BY DEF RowStep
  <2> QED BY <2>1, <2>2, RowStepFacts, PhotoFacts DEF PhotosTypeOK
<1>2. RowHasObjects'
  <2>1. ASSUME NEW q \in Uploads \ lostack', HasRow(q)', photo'[q].state \in Live
        PROVE  Stored(q)'
    <3>1. Stored(q)
      <4>1. CASE q = p
        BY <2>1, <4>1, RowStepFacts DEF RowStep
      <4>2. CASE q # p
        BY <2>1, <4>2, RowStepFacts DEF RowStep, PhotosInv, RowHasObjects
      <4> QED BY <4>1, <4>2
    <3> QED BY <3>1 DEF Stored, RowStep
  <2> QED BY <2>1 DEF RowHasObjects
<1>3. PositionsDistinct'
  <2>1. ASSUME NEW q \in Uploads, NEW u \in Uploads, q # u, HasRow(q)', HasRow(u)',
               photo'[q].target = photo'[u].target, photo'[q].position > 0
        PROVE  photo'[q].position # photo'[u].position
    <3>1. CASE q # p /\ u # p
      BY <2>1, <3>1, RowStepFacts DEF PhotosInv, PositionsDistinct
    <3>2. CASE q = p
      <4>1. photo'[p] = r /\ r # NoPhoto /\ photo'[u] = photo[u] /\ HasRow(u)
        BY <2>1, <3>2, RowStepFacts
      <4> QED BY <2>1, <3>2, <4>1 DEF RowStep
    <3>3. CASE u = p
      <4>1. photo'[p] = r /\ r # NoPhoto /\ photo'[q] = photo[q] /\ HasRow(q)
        BY <2>1, <3>3, RowStepFacts
      <4>2. SUFFICES ASSUME r.position = photo[q].position PROVE FALSE
        BY <3>3, <4>1
      <4> QED BY <2>1, <3>3, <4>1, <4>2 DEF RowStep
    <3> QED BY <3>1, <3>2, <3>3
  <2> QED BY <2>1 DEF PositionsDistinct
<1>4. UploadsInOrder'
  <2>1. ASSUME NEW q \in Uploads
        PROVE  /\ upload'[q] # "ended" => age'[q] = 0
               /\ ~Past(q)' => ~HasRow(q)' /\ q \notin lostack'
               /\ upload'[q] \in {"undo_thumb", "undo_full"} => ~HasRow(q)' \/ q \in lostack'
               /\ upload'[q] \in {"put_thumb", "insert"} => <<q, "full">> \in store'
               /\ upload'[q] = "insert" => <<q, "thumb">> \in store'
    <3>1. CASE q = p
      <4>1. /\ Past(p)' /\ age' = age /\ (upload'[p] # "ended" => age[p] = 0)
            /\ upload'[p] # "ended" => r = NoPhoto \/ p \in lostack'
        BY DEF RowStep
      <4>2. HasRow(p)' <=> r # NoPhoto
        BY RowStepFacts
      <4> QED BY <3>1, <4>1, <4>2 DEF Past
    <3>2. CASE q # p
      <4>1. upload'[q] = upload[q] /\ age' = age /\ store' = store /\ (q \in lostack' <=> q \in lostack)
        BY <3>2 DEF RowStep
      <4>2. (HasRow(q)' <=> HasRow(q)) /\ (Past(q)' <=> Past(q))
        BY <3>2, RowStepFacts
      <4> QED BY <4>1, <4>2, UploadFacts
    <3> QED BY <3>1, <3>2
  <2> QED BY <2>1 DEF UploadsInOrder
<1>5. JobIsCareful'
  <2>1. CASE retention' = retention
    <3>1. \A o \in Objects : /\ upload[o[1]] = "ended" => upload'[o[1]] = "ended"
                             /\ upload[o[1]] = "ended" /\ ~HasRow(o[1]) => ~HasRow(o[1])'
      <4>1. ASSUME NEW q \in Uploads, upload[q] = "ended"
            PROVE  upload'[q] = "ended" /\ (~HasRow(q) => ~HasRow(q)')
        <5>1. CASE q = p
          <6>1. HasRow(p)' <=> r # NoPhoto
            BY RowStepFacts
          <6>2. /\ upload[p] = "ended" => upload'[p] = "ended"
                /\ r # NoPhoto /\ ~HasRow(p) => ~Past(p)
            BY DEF RowStep
          <6> QED BY <4>1, <5>1, <6>1, <6>2 DEF Past
        <5>2. CASE q # p
          BY <4>1, <5>2, RowStepFacts DEF RowStep
        <5> QED BY <5>1, <5>2
      <4> QED BY <4>1, ObjectFacts
    <3>2. (\A q \in Uploads : Past(q) => Past(q)') /\ (\A q \in Uploads : Dead(q) => Dead(q)')
          /\ lostack \subseteq lostack'
      BY RowStepFacts DEF RowStep
    <3>3. JobIsCareful
      BY DEF PhotosInv
    <3> QED BY ONLY PhotosInv, <2>1, <3>1, <3>2, <3>3, JobFacts DEF JobIsCareful
  <2>2. CASE retention.pc = "drop" /\ retention' = [pc |-> "check", ids |-> retention.ids]
    <3>1. \A q \in Uploads : Past(q) => Past(q)'
      BY RowStepFacts
    <3>2. retention.ids \subseteq Uploads /\ \A q \in retention.ids : Past(q)
      BY <2>2, JobFacts DEF PhotosInv, JobIsCareful
    <3> QED BY ONLY <2>2, <3>1, <3>2 DEF JobIsCareful
  <2> QED BY <2>1, <2>2 DEF RowStep
<1> QED BY <1>1, <1>2, <1>3, <1>4, <1>5

\* The moderators after it.
LEMMA RowStepMods ==
  ASSUME PhotosInv, NEW p \in Uploads, NEW r \in PhotoRow \cup {NoPhoto}, NEW m \in Mods \cup {NoMod},
         RowStep(p, r, m),
         m \in Mods /\ modreq'[m] # IdleMod =>
           modreq'[m].pc # "commit" /\ RequestStands(modreq[m], m)' /\ PositionStands(modreq[m])'
  PROVE  ModeratorsInOrder'
<1>1. PICK k \in Nat : k = Cardinality(Spent)
  BY SpentFacts
<1>2. PICK l \in Nat : l = Cardinality(Spent)'
  BY RowStepFacts, SpentGrows
<1>3. k <= l
  BY <1>1, <1>2, RowStepFacts, SpentGrows
<1>4. PositionsBelow'
  <2>1. ASSUME NEW q \in Uploads, HasRow(q)' PROVE photo'[q].position <= l
    <3>1. CASE q = p
      <4>1. photo'[p] = r /\ r # NoPhoto
        BY <2>1, <3>1, RowStepFacts
      <4>2. r # NoPhoto => r.position <= Cardinality(Spent)'
        BY DEF RowStep
      <4> QED BY <1>2, <3>1, <4>1, <4>2
    <3>2. CASE q # p
      <4>1. photo'[q] = photo[q] /\ HasRow(q)
        BY <2>1, <3>2, RowStepFacts
      <4>2. photo[q].position <= k /\ photo[q].position \in Nat
        BY <1>1, <4>1, PhotoRowFacts DEF PhotosInv, ModeratorsInOrder, PositionsBelow
      <4> QED BY <1>3, <4>1, <4>2
    <3> QED BY <3>1, <3>2
  <2> QED BY <1>2, <2>1 DEF PositionsBelow
<1>5. OneCommitEach'
  <2>1. \A n \in Mods : modreq'[n].pc = "commit" => modreq'[n] = modreq[n]
    BY RowIsNotNone DEF RowStep
  <2> QED BY <2>1 DEF PhotosInv, ModeratorsInOrder, OneCommitEach
<1>6. ASSUME NEW n \in Mods, n # m, modreq'[n] # IdleMod
      PROVE  (RequestStands(modreq[n], n) /\ PositionStands(modreq[n]))'
  <2>1. PICK x : x = modreq'[n]
    OBVIOUS
  <2>2. x = modreq[n] /\ modreq[n] # IdleMod
    BY <1>6, <2>1 DEF RowStep
  <2>3. x.id \in Uploads /\ x.position \in Nat /\ Past(x.id) /\ RequestStands(x, n) /\ PositionStands(x)
    BY <2>2, ModFacts DEF PhotosInv, ModeratorsInOrder
  <2>4. x.pc = "commit" => x.id # p
    BY <1>6, <2>2 DEF RowStep
  <2>5. HasRow(x.id)' => HasRow(x.id) /\ photo'[x.id].target = photo[x.id].target
                         /\ photo[x.id].target \in Parents
    <3>1. CASE x.id = p
      <4>1. photo'[p] = r /\ (HasRow(p)' <=> r # NoPhoto)
        BY RowStepFacts
      <4>2. r # NoPhoto => (HasRow(p) => r.target = photo[p].target) /\ (~HasRow(p) => ~Past(p))
        BY DEF RowStep
      <4>3. HasRow(p) => photo[p].target \in Parents
        BY PhotoRowFacts
      <4> QED BY <2>3, <3>1, <4>1, <4>2, <4>3
    <3>2. CASE x.id # p
      BY <2>3, <3>2, RowStepFacts, PhotoRowFacts
    <3> QED BY <3>1, <3>2
  <2>6. \A t \in Parents : targetlock[t] = n => targetlock'[t] = n
    BY <1>6 DEF RowStep
  <2>7. RequestStands(x, n)'
    <3>1. Past(x.id)' /\ (Dead(x.id) => Dead(x.id)')
      BY <2>3, RowStepFacts
    <3>2. x.pc = "commit" => InState(x.id, "PENDING_REVIEW")'
      BY <2>3, <2>4, RowStepFacts DEF RequestStands
    <3> QED BY <2>3, <2>5, <2>6, <3>1, <3>2 DEF RequestStands
  <2>8. PositionStands(x)'
    <3>1. SUFFICES ASSUME x.pc = "commit"
                   PROVE  /\ x.position > 0 /\ x.position <= l + 1
                          /\ \A q \in Uploads : HasRow(q)' /\ photo'[q].target = photo'[x.id].target
                                                  => photo'[q].position < x.position
      BY <1>2 DEF PositionStands
    <3>2. /\ x.position > 0 /\ x.position <= k + 1
          /\ \A q \in Uploads : HasRow(q) /\ photo[q].target = photo[x.id].target
                                  => photo[q].position < x.position
      BY <1>1, <2>3, <3>1 DEF PositionStands
    <3>3. PICK t \in Parents : t = photo[x.id].target /\ t = photo'[x.id].target /\ targetlock[t] = n
      BY <2>3, <2>5, <2>7, <3>1 DEF RequestStands, InState
    <3>4. ASSUME NEW q \in Uploads, HasRow(q)', photo'[q].target = t
          PROVE  photo'[q].position < x.position
      <4>1. CASE q = p
        <5>1. photo'[p] = r /\ r # NoPhoto
          BY <3>4, <4>1, RowStepFacts
        <5>2. r.position = 0 \/ (HasRow(p) /\ r.position = photo[p].position /\ photo[p].target = t)
          BY <1>6, <3>3, <3>4, <4>1, <5>1 DEF RowStep
        <5> QED BY <3>2, <3>3, <4>1, <5>1, <5>2
      <4>2. CASE q # p
        BY <3>2, <3>3, <3>4, <4>2, RowStepFacts
      <4> QED BY <4>1, <4>2
    <3>5. x.position <= l + 1
      BY <1>3, <2>3, <3>2
    <3> QED BY <3>2, <3>3, <3>4, <3>5
  <2> QED BY <2>1, <2>7, <2>8 DEF RequestStands, PositionStands
<1> QED BY <1>4, <1>5, <1>6 DEF ModeratorsInOrder

\* Such a step keeps the invariant.
LEMMA RowStepKeeps ==
  ASSUME PhotosInv, NEW p \in Uploads, NEW r \in PhotoRow \cup {NoPhoto}, NEW m \in Mods \cup {NoMod},
         RowStep(p, r, m),
         m \in Mods /\ modreq'[m] # IdleMod =>
           modreq'[m].pc # "commit" /\ RequestStands(modreq[m], m)' /\ PositionStands(modreq[m])'
  PROVE  PhotosInv'
BY RowStepRows, RowStepMods DEF PhotosInv

\* Nobody but m is about to commit an approval of p.
LEMMA NobodyElse ==
  ASSUME PhotosInv, NEW p, NEW m, ~RowLocked(p) \/ (m \in Mods /\ modreq[m].pc = "commit" /\ modreq[m].id = p)
  PROVE  \A n \in Mods \ {m} : modreq[n].pc = "commit" => modreq[n].id # p
BY DEF PhotosInv, ModeratorsInOrder, OneCommitEach, RowLocked

LEMMA InsertKeeps ==
  ASSUME PhotosInv, NEW p \in Uploads, InsertPending(p)
  PROVE  PhotosInv'
<1>1. upload[p] = "insert" /\ UNCHANGED <<store, age, modreq, targetlock, retention>>
  BY DEF InsertPending
<1>2. ~Past(p) /\ ~HasRow(p) /\ Stored(p) /\ age[p] = 0
  BY <1>1, UploadFacts, StoredIs DEF Past
<1>3. CASE UploadGoesTo(p, "undo_thumb") /\ UNCHANGED <<photo, lostack>>
  BY <1>1, <1>2, <1>3, UploadMoves, PhotoFacts DEF UploadGoesTo, UploadPcs
<1>4. CASE \E t \in Parents : photo' = [photo EXCEPT ![p] = PendingRow(t)]
  <2>1. PICK t \in Parents : photo' = [photo EXCEPT ![p] = PendingRow(t)]
    BY <1>4
  <2>2. PICK r : r = PendingRow(t)
    OBVIOUS
  <2>3. r \in PhotoRow /\ r.state = "PENDING_REVIEW" /\ r.position = 0
    BY <2>2, PhotoFacts DEF PendingRow, PhotoRow, PhotoModerationState
  <2>4. \/ UploadGoesTo(p, "ended") /\ UNCHANGED lostack
        \/ UploadGoesTo(p, "undo_thumb") /\ UNCHANGED lostack /\ UNCHANGED photo
        \/ UploadGoesTo(p, "undo_thumb") /\ lostack' = lostack \cup {p}
    BY DEF InsertPending
  <2>5. r # NoPhoto /\ photo'[p] = r /\ photo[p] = NoPhoto
    BY <1>2, <2>1, <2>2, <2>3, RowIsNotNone, PhotoFacts DEF HasRow
  <2>6. PICK pc \in {"ended", "undo_thumb"} :
          /\ upload' = [upload EXCEPT ![p] = pc] /\ lostack' \in {lostack, lostack \cup {p}}
          /\ pc # "ended" => p \in lostack'
    BY <2>4, <2>5 DEF UploadGoesTo
  <2>7. /\ upload' \in [Uploads -> UploadPcs] /\ upload'[p] = pc
        /\ \A q \in Uploads \ {p} : upload'[q] = upload[q] /\ (q \in lostack' => q \in lostack)
    BY <2>6, PhotoFacts DEF UploadPcs
  <2>8. lostack \subseteq lostack' /\ lostack' \subseteq Uploads
    BY <2>6, PhotoFacts
  <2>9. Past(p)'
    BY <2>6, <2>7 DEF Past
  <2>10. 0 <= Cardinality(Spent)'
    <3>1. \A q \in Uploads \ {p} : q \in Spent => q \in Spent'
      BY <2>1, <2>7, PhotoFacts DEF Spent, Past, InState, HasRow
    <3>2. p \notin Spent
      BY <1>2 DEF Spent
    <3>3. \A q \in Uploads : q \in Spent => q \in Spent'
      BY <3>1, <3>2
    <3> QED BY <3>3, SpentGrows
  <2>11. \A n \in Mods : modreq[n].pc = "commit" => modreq[n].id # p
    BY <1>2, ModFacts, RowIsNotNone
  <2>12. r # NoPhoto =>
           /\ HasRow(p) => r.target = photo[p].target
           /\ ~HasRow(p) => ~Past(p)
           /\ r.state = "PENDING_REVIEW" => ~Past(p)
           /\ InState(p, "REJECTED") => r.state = "REJECTED"
           /\ r.state \in Live /\ p \notin lostack' => Stored(p)
           /\ r.position = 0 \/ (HasRow(p) /\ r.position = photo[p].position) \/ targetlock[r.target] = NoMod
           /\ r.position > 0 => \A q \in Uploads \ {p} :
                HasRow(q) /\ photo[q].target = r.target => photo[q].position # r.position
           /\ r.position <= Cardinality(Spent)'
    BY <1>2, <2>3, <2>10 DEF InState
  <2>13. /\ modreq' \in [Mods -> ModRequest \cup {IdleMod}] /\ targetlock' \in [Parents -> Mods \cup {NoMod}]
         /\ \A n \in Mods \ {NoMod} : modreq'[n] = modreq[n]
         /\ NoMod \in Mods \cup {NoMod} /\ NoMod \notin Mods
    BY <1>1, PhotoFacts
  <2>14. /\ photo' = [photo EXCEPT ![p] = r]
         /\ upload'[p] # "ended" => age[p] = 0
         /\ upload'[p] # "ended" => r = NoPhoto \/ p \in lostack'
         /\ upload[p] = "ended" => upload'[p] = "ended"
    BY <1>1, <1>2, <2>1, <2>2, <2>6, <2>7
  <2>15. RowStep(p, r, NoMod)
    BY ONLY <1>1, <2>7, <2>8, <2>9, <2>11, <2>12, <2>13, <2>14 DEF RowStep
  <2> QED BY ONLY PhotosInv, p \in Uploads, <2>3, <2>13, <2>15, RowStepKeeps
<1> QED BY <1>3, <1>4 DEF InsertPending

\* The steps that change a row and neither an upload nor its objects.
LEMMA RowChanges ==
  ASSUME PhotosInv, NEW p \in Uploads, NEW r \in PhotoRow \cup {NoPhoto}, NEW m \in Mods \cup {NoMod},
         HasRow(p), photo' = [photo EXCEPT ![p] = r],
         UNCHANGED <<upload, store, age, lostack>>,
         modreq' \in [Mods -> ModRequest \cup {IdleMod}], \A n \in Mods \ {m} : modreq'[n] = modreq[n],
         targetlock' \in [Parents -> Mods \cup {NoMod}],
         \A t \in Parents : targetlock[t] \in Mods /\ targetlock[t] # m => targetlock'[t] = targetlock[t],
         retention' = retention,
         r # NoPhoto, r.target = photo[p].target, r.state # "PENDING_REVIEW",
         InState(p, "REJECTED") => r.state = "REJECTED",
         r.state \in Live => photo[p].state \in Live,
         r.position = photo[p].position \/
           (/\ targetlock[r.target] = m /\ r.position <= Cardinality(Spent)'
            /\ \A q \in Uploads : HasRow(q) /\ photo[q].target = r.target => photo[q].position < r.position),
         ~RowLocked(p) \/ (m \in Mods /\ modreq[m].pc = "commit" /\ modreq[m].id = p)
  PROVE  RowStep(p, r, m)
<1>1. Past(p)' /\ Past(p)
  BY UploadFacts DEF Past
<1>2. r.state \in Live /\ p \notin lostack' => Stored(p)
  BY UploadFacts
<1>3. \A n \in Mods \ {m} : modreq[n].pc = "commit" => modreq[n].id # p
  BY NobodyElse
<1>4. r \in PhotoRow /\ r.position \in Nat
  BY PhotoFacts DEF PhotoRow
<1>5. r.position > 0 => \A q \in Uploads \ {p} :
        HasRow(q) /\ photo[q].target = r.target => photo[q].position # r.position
  <2>1. CASE r.position = photo[p].position
    BY <2>1 DEF PhotosInv, PositionsDistinct
  <2>2. CASE \A q \in Uploads : HasRow(q) /\ photo[q].target = r.target => photo[q].position < r.position
    BY <1>4, <2>2, PhotoRowFacts
  <2> QED BY <2>1, <2>2
<1>6. r.position <= Cardinality(Spent)'
  <2>1. CASE r.position = photo[p].position
    <3>1. \A q \in Uploads : q \in Spent => q \in Spent'
      <4>1. photo'[p] = r /\ \A q \in Uploads : q # p => photo'[q] = photo[q]
        BY PhotoFacts
      <4>2. \A q \in Uploads : InState(q, "PENDING_REVIEW")' => InState(q, "PENDING_REVIEW")
        BY <4>1 DEF InState, HasRow
      <4> QED BY <4>2 DEF Spent, Past
    <3>2. PICK k \in Nat : k = Cardinality(Spent)
      BY SpentFacts
    <3>3. PICK l \in Nat : l = Cardinality(Spent)' /\ k <= l
      BY <3>1, <3>2, SpentGrows
    <3>4. photo[p].position <= k
      BY <3>2 DEF PhotosInv, ModeratorsInOrder, PositionsBelow
    <3> QED BY <1>4, <2>1, <3>2, <3>3, <3>4
  <2>2. CASE r.position <= Cardinality(Spent)'
    BY <2>2
  <2> QED BY <2>1, <2>2
<1>7. /\ upload' \in [Uploads -> UploadPcs] /\ lostack' \subseteq Uploads
      /\ upload'[p] # "ended" => age[p] = 0
      /\ upload'[p] # "ended" => r = NoPhoto \/ p \in lostack'
  BY PhotoFacts, UploadFacts
<1>8. r.position = 0 \/ (HasRow(p) /\ r.position = photo[p].position) \/ targetlock[r.target] = m
  OBVIOUS
<1> QED BY <1>1, <1>2, <1>3, <1>5, <1>6, <1>7, <1>8 DEF RowStep

LEMMA FlipKeeps ==
  ASSUME PhotosInv, NEW p \in Uploads, HidePhoto(p) \/ RestorePhoto(p)
  PROVE  PhotosInv'
<1>1. PICK s \in {"APPROVED", "HIDDEN"} :
        /\ photo' = [photo EXCEPT ![p] = [photo[p] EXCEPT !.state = s]]
        /\ HasRow(p) /\ photo[p].state \in {"APPROVED", "HIDDEN"} /\ ~RowLocked(p)
        /\ UNCHANGED <<upload, store, age, modreq, targetlock, retention, lostack>>
  BY DEF HidePhoto, RestorePhoto, FlipPhoto, InState
<1>2. PICK r : r = [photo[p] EXCEPT !.state = s]
  OBVIOUS
<1>3. /\ r \in PhotoRow /\ r.state = s /\ r.target = photo[p].target /\ r.position = photo[p].position
  BY <1>1, <1>2, PhotoRowFacts DEF PhotoRow, PhotoModerationState
<1>4. /\ r # NoPhoto /\ r.state # "PENDING_REVIEW" /\ photo[p].state \in Live
      /\ InState(p, "REJECTED") => r.state = "REJECTED"
  BY <1>1, <1>3, RowIsNotNone DEF Live, InState
<1>5. /\ modreq' \in [Mods -> ModRequest \cup {IdleMod}] /\ targetlock' \in [Parents -> Mods \cup {NoMod}]
      /\ \A n \in Mods \ {NoMod} : modreq'[n] = modreq[n]
      /\ \A t \in Parents : targetlock[t] \in Mods /\ targetlock[t] # NoMod => targetlock'[t] = targetlock[t]
      /\ NoMod \in Mods \cup {NoMod} /\ NoMod \notin Mods
  BY <1>1, PhotoFacts
<1>6. RowStep(p, r, NoMod)
  BY ONLY PhotosInv, p \in Uploads, <1>1, <1>2, <1>3, <1>4, <1>5, RowChanges
<1> QED BY ONLY PhotosInv, p \in Uploads, <1>3, <1>5, <1>6, RowStepKeeps

LEMMA RejectKeeps ==
  ASSUME PhotosInv, NEW m \in Mods, RejectUpdates(m)
  PROVE  PhotosInv'
<1>1. PICK p : p = modreq[m].id
  OBVIOUS
<1>2. /\ modreq[m].pc = "reject" /\ ~RowLocked(p)
      /\ UNCHANGED <<upload, store, age, targetlock, retention, lostack>>
  BY <1>1 DEF RejectUpdates
<1>3. p \in Uploads /\ Past(p)
  BY <1>1, <1>2, ModFacts, RowIsNotNone
<1>4. CASE Rejectable(p)
  <2>1. PICK r : r = [photo[p] EXCEPT !.state = "REJECTED"]
    OBVIOUS
  <2>2. PICK y : y = [pc |-> "wipe_full", id |-> p, position |-> 0]
    OBVIOUS
  <2>3. /\ photo' = [photo EXCEPT ![p] = r] /\ modreq' = [modreq EXCEPT ![m] = y]
        /\ HasRow(p) /\ photo[p].state = "PENDING_REVIEW"
    BY <1>1, <1>4, <2>1, <2>2 DEF RejectUpdates, ModGoesTo, Rejectable, InState
  <2>4. r \in PhotoRow /\ r.state = "REJECTED" /\ r.target = photo[p].target /\ r.position = photo[p].position
    BY <1>3, <2>1, <2>3, PhotoRowFacts DEF PhotoRow, PhotoModerationState
  <2>5. r # NoPhoto /\ r.state # "PENDING_REVIEW" /\ r.state \notin Live
    BY <2>4, RowIsNotNone DEF Live
  <2>6. y \in ModRequest /\ y.id = p /\ y.pc = "wipe_full"
    BY <1>3, <2>2, PhotoFacts DEF ModRequest
  <2>7. /\ modreq' \in [Mods -> ModRequest \cup {IdleMod}] /\ targetlock' \in [Parents -> Mods \cup {NoMod}]
        /\ \A n \in Mods \ {m} : modreq'[n] = modreq[n]
        /\ modreq'[m] = y /\ m \in Mods \cup {NoMod}
        /\ \A t \in Parents : targetlock[t] \in Mods /\ targetlock[t] # m => targetlock'[t] = targetlock[t]
    BY <1>2, <2>3, <2>6, PhotoFacts
  <2>8. RowStep(p, r, m)
    BY ONLY PhotosInv, <1>2, <1>3, <2>3, <2>4, <2>5, <2>7, RowChanges
  <2>9. Past(p)' /\ Dead(p)'
    <3>1. Past(p)' /\ InState(p, "REJECTED")'
      BY <1>2, <1>3, <2>3, <2>4, <2>5, PhotoFacts DEF Past, InState, HasRow
    <3> QED BY <3>1 DEF Dead
  <2>10. modreq'[m].pc # "commit" /\ RequestStands(modreq[m], m)' /\ PositionStands(modreq[m])'
    BY <2>6, <2>7, <2>9 DEF RequestStands, PositionStands
  <2> QED BY ONLY PhotosInv, <1>3, <2>4, <2>7, <2>8, <2>10, RowStepKeeps
<1>5. CASE ~Rejectable(p)
  <2>1. ModRests(m) /\ UNCHANGED photo
    BY <1>1, <1>5 DEF RejectUpdates
  <2> QED BY <1>2, <2>1, ModEnds
<1> QED BY <1>4, <1>5

\* One more upload is spent when a pending one is decided.
LEMMA SpentAdds ==
  ASSUME PhotosInv, NEW p \in Uploads, p \notin Spent, p \in Spent',
         \A q \in Uploads : q \in Spent => q \in Spent'
  PROVE  Cardinality(Spent)' \in Nat /\ Cardinality(Spent) + 1 <= Cardinality(Spent)'
<1>1. PICK S : S = Spent'
  OBVIOUS
<1>2. PICK T : T = Spent
  OBVIOUS
<1>3. S \in SUBSET Uploads /\ T \cup {p} \in SUBSET S /\ p \notin T
  BY <1>1, <1>2 DEF Spent
<1>4. IsFiniteSet(S) /\ Cardinality(S) \in Nat
  BY <1>3, PhotoFacts, FS_Subset, FS_CardinalityType
<1>5. IsFiniteSet(T)
  BY <1>2, SpentFacts
<1>6. Cardinality(T \cup {p}) = Cardinality(T) + 1
  BY <1>3, <1>5, FS_AddElement
<1>7. Cardinality(T \cup {p}) <= Cardinality(S)
  BY <1>3, <1>4, FS_Subset
<1> QED BY <1>1, <1>2, <1>4, <1>6, <1>7

LEMMA CommitKeeps ==
  ASSUME PhotosInv, NEW m \in Mods, ApproveCommits(m)
  PROVE  PhotosInv'
<1>1. PICK p : p = modreq[m].id
  OBVIOUS
<1>2. PICK n : n = modreq[m].position
  OBVIOUS
<1>3. PICK r : r = [state |-> "APPROVED", target |-> photo[p].target, position |-> n]
  OBVIOUS
<1>4. /\ modreq[m].pc = "commit" /\ photo' = [photo EXCEPT ![p] = r] /\ targetlock' = Unlocked(m)
      /\ modreq' = [modreq EXCEPT ![m] = IdleMod]
      /\ UNCHANGED <<upload, store, age, retention, lostack>>
  BY <1>1, <1>2, <1>3 DEF ApproveCommits, ModRests
<1>5. modreq[m] # IdleMod
  BY <1>4, RowIsNotNone
<1>6. /\ p \in Uploads /\ Past(p) /\ n \in 0..Cardinality(Uploads) /\ n \in Nat
      /\ RequestStands(modreq[m], m) /\ PositionStands(modreq[m])
  BY <1>1, <1>2, <1>5, ModFacts DEF PhotosInv, ModeratorsInOrder
<1>7. /\ InState(p, "PENDING_REVIEW") /\ HasRow(p) /\ targetlock[photo[p].target] = m
      /\ n > 0 /\ n <= Cardinality(Spent) + 1
      /\ \A q \in Uploads : HasRow(q) /\ photo[q].target = photo[p].target => photo[q].position < n
  BY <1>1, <1>2, <1>4, <1>6 DEF RequestStands, PositionStands, InState
<1>8. r \in PhotoRow /\ r.state = "APPROVED" /\ r.target = photo[p].target /\ r.position = n
  BY <1>3, <1>6, <1>7, PhotoRowFacts DEF PhotoRow, PhotoModerationState
<1>9. /\ r # NoPhoto /\ r.state # "PENDING_REVIEW" /\ photo[p].state \in Live
      /\ InState(p, "REJECTED") => r.state = "REJECTED"
  BY <1>7, <1>8, RowIsNotNone DEF Live, InState
<1>10. /\ modreq' \in [Mods -> ModRequest \cup {IdleMod}] /\ targetlock' \in [Parents -> Mods \cup {NoMod}]
       /\ \A k \in Mods \ {m} : modreq'[k] = modreq[k]
       /\ modreq'[m] = IdleMod /\ m \in Mods \cup {NoMod}
       /\ \A t \in Parents : targetlock[t] \in Mods /\ targetlock[t] # m => targetlock'[t] = targetlock[t]
  BY <1>4, PhotoFacts, UnlockedFacts
<1>11. r.position <= Cardinality(Spent)'
  <2>1. photo'[p] = r /\ \A q \in Uploads : q # p => photo'[q] = photo[q]
    BY <1>4, <1>6, PhotoFacts
  <2>2. /\ ~InState(p, "PENDING_REVIEW")'
        /\ \A q \in Uploads : q # p => (InState(q, "PENDING_REVIEW")' <=> InState(q, "PENDING_REVIEW"))
    BY <1>9, <2>1 DEF InState, HasRow
  <2>3. \A q \in Uploads : Past(q)' <=> Past(q)
    BY <1>4 DEF Past
  <2>4. p \notin Spent /\ p \in Spent' /\ \A q \in Uploads : q \in Spent => q \in Spent'
    BY <1>6, <1>7, <2>2, <2>3 DEF Spent
  <2>5. PICK k \in Nat : k = Cardinality(Spent)
    BY SpentFacts
  <2>6. PICK l \in Nat : l = Cardinality(Spent)' /\ k + 1 <= l
    BY <1>6, <2>4, <2>5, SpentAdds
  <2> QED BY <1>6, <1>7, <1>8, <2>5, <2>6
<1>12. /\ targetlock[r.target] = m
       /\ \A q \in Uploads : HasRow(q) /\ photo[q].target = r.target => photo[q].position < r.position
  BY <1>7, <1>8
<1>13. m \in Mods /\ modreq[m].pc = "commit" /\ modreq[m].id = p
  BY <1>1, <1>4
<1>14. RowStep(p, r, m)
  BY ONLY PhotosInv, <1>4, <1>6, <1>7, <1>8, <1>9, <1>10, <1>11, <1>12, <1>13, RowChanges
<1> QED BY ONLY PhotosInv, <1>6, <1>8, <1>10, <1>14, RowStepKeeps

\* The row that reconciliation drops is of an upload that has ended dead, or
\* whose insert was reported as failed.
LEMMA ReconcileDropsKeeps ==
  ASSUME PhotosInv, ReconcileDrops
  PROVE  PhotosInv'
<1>1. PICK p : p = retention.id
  OBVIOUS
<1>2. /\ retention.pc = "drop" /\ ~RowLocked(p) /\ photo' = [photo EXCEPT ![p] = NoPhoto]
      /\ retention' = [pc |-> "check", ids |-> retention.ids]
      /\ UNCHANGED <<upload, store, age, modreq, targetlock, lostack>>
  BY <1>1 DEF ReconcileDrops, JobUnchanged
<1>3. p \in Uploads /\ (p \in lostack \/ Dead(p))
  BY <1>1, <1>2, JobFacts DEF PhotosInv, JobIsCareful
<1>4. Past(p)' /\ Past(p)
  BY <1>2, <1>3, UploadFacts DEF Past, Dead
<1>5. \A n \in Mods \ {NoMod} : modreq[n].pc = "commit" => modreq[n].id # p
  BY <1>2, NobodyElse
<1>6. /\ upload' \in [Uploads -> UploadPcs] /\ lostack' \subseteq Uploads
      /\ upload'[p] # "ended" => age[p] = 0
      /\ modreq' \in [Mods -> ModRequest \cup {IdleMod}] /\ targetlock' \in [Parents -> Mods \cup {NoMod}]
      /\ NoMod \in Mods \cup {NoMod} /\ NoMod \notin Mods
  BY <1>2, <1>3, PhotoFacts, UploadFacts
<1>7. RowStep(p, NoPhoto, NoMod)
  BY ONLY <1>2, <1>4, <1>5, <1>6 DEF RowStep
<1> QED BY ONLY PhotosInv, <1>3, <1>6, <1>7, RowStepKeeps

LEMMA PhotosInitial == PhotosInit => PhotosInv
<1> SUFFICES ASSUME PhotosInit PROVE PhotosInv
  OBVIOUS
<1>1. IsFiniteSet(Uploads) /\ Cardinality(Uploads) \in Nat
  BY PhotoConstantsOK, FS_CardinalityType
<1>2. PhotosTypeOK
  BY <1>1 DEF PhotosInit, PhotosTypeOK, UploadPcs
<1>3. \A p \in Uploads : ~HasRow(p) /\ upload[p] = "new" /\ age[p] = 0 /\ p \notin lostack
  BY DEF PhotosInit, HasRow
<1>4. RowHasObjects /\ PositionsDistinct /\ UploadsInOrder /\ PositionsBelow
  BY <1>3 DEF RowHasObjects, PositionsDistinct, UploadsInOrder, PositionsBelow
<1>5. JobIsCareful
  BY DEF PhotosInit, RestingJob, JobIsCareful
<1>6. \A m \in Mods : modreq[m] = IdleMod
  BY DEF PhotosInit
<1>7. OneCommitEach
  BY <1>6, RowIsNotNone DEF OneCommitEach
<1> QED BY <1>2, <1>4, <1>5, <1>6, <1>7 DEF PhotosInv, ModeratorsInOrder

LEMMA PhotosStep == PhotosInv /\ [PhotosNext]_photoVars => PhotosInv'
<1> SUFFICES ASSUME PhotosInv, [PhotosNext]_photoVars PROVE PhotosInv'
  OBVIOUS
<1>1. CASE UNCHANGED photoVars
  <2>1. UNCHANGED <<upload, photo, store, age, modreq, targetlock, retention, lostack>>
    BY <1>1 DEF photoVars
  <2>2. JobIsCareful' /\ retention' \in {RestingJob}
           \cup [pc : {"probe", "delete"}, keys : SUBSET Objects]
           \cup [pc : {"rows", "check"}, ids : SUBSET Uploads]
           \cup [pc : {"drop"}, ids : SUBSET Uploads, id : Uploads]
    BY <2>1 DEF PhotosInv, PhotosTypeOK, JobIsCareful, Past, Dead, HasRow, InState
  <2> QED BY <2>1, <2>2, JobMoves
<1>2. ASSUME NEW p \in Uploads,
             UploadStep(p) \/ DropUpload(p) \/ GrowOld(p) \/ HidePhoto(p) \/ RestorePhoto(p)
      PROVE  PhotosInv'
  BY <1>2, UploadKeeps, InsertKeeps, AgeKeeps, FlipKeeps DEF UploadStep
<1>3. ASSUME NEW m \in Mods, ModStep(m)
      PROVE  PhotosInv'
  BY <1>3, ReadPhotoKeeps, LocksKeeps, ApproveUpdatesKeeps, CommitKeeps, RejectKeeps, WipesKeep, DropsKeep
     DEF ModStep
<1>4. CASE SweepLists \/ SweepProbes \/ SweepEnds \/ \E o \in Objects : SweepDeletes(o)
  BY <1>4, SweepKeeps
<1>5. CASE ReconcileLists \/ ReconcileEnds \/ \E p \in Uploads : ReconcileChecks(p)
  BY <1>5, ReconcileKeeps
<1>6. CASE ReconcileDrops
  BY <1>6, ReconcileDropsKeeps
<1> QED BY <1>1, <1>2, <1>3, <1>4, <1>5, <1>6 DEF PhotosNext

\* PhotosInv holds in every state, whatever uploads, moderators, the sweep
\* and the reconciliation do at once.
THEOREM PhotosInductive == PhotosSpec => []PhotosInv
BY PhotosInitial, PhotosStep, PTL DEF PhotosSpec

\* What a step may do to the row of q: a row that is decided is dropped only
\* when it is rejected or its insert was reported as failed, and never changes
\* sides.
RowMay(q) ==
  /\ q \notin lostack /\ HasRow(q) /\ photo[q].state \in {"APPROVED", "HIDDEN"} => HasRow(q)'
  /\ InState(q, "REJECTED") => ~HasRow(q)' \/ InState(q, "REJECTED")'
  /\ HasRow(q) /\ photo[q].state \in {"APPROVED", "HIDDEN"} => ~InState(q, "REJECTED")'

\* Only one row changes in a step.
LEMMA OneRowChanges ==
  ASSUME PhotosInv, NEW p \in Uploads, NEW r, photo' = [photo EXCEPT ![p] = r],
         \/ ~HasRow(p) /\ r # NoPhoto
         \/ HasRow(p) /\ r # NoPhoto /\ photo[p].state = "PENDING_REVIEW"
         \/ r # NoPhoto /\ photo[p].state # "REJECTED" /\ r.state # "REJECTED"
         \/ r = NoPhoto /\ (p \in lostack \/ Dead(p))
  PROVE  \A q \in Uploads : RowMay(q)
<1>1. photo'[p] = r /\ \A q \in Uploads : q # p => photo'[q] = photo[q]
  BY PhotoFacts
<1>2. ASSUME NEW q \in Uploads, q # p PROVE RowMay(q)
  BY <1>1, <1>2 DEF RowMay, HasRow, InState
<1>3. RowMay(p)
  BY <1>1 DEF RowMay, HasRow, InState, Dead
<1> QED BY <1>2, <1>3

LEMMA RowsMay ==
  ASSUME PhotosInv, [PhotosNext]_photoVars
  PROVE  \A q \in Uploads : RowMay(q)
<1>1. CASE UNCHANGED photo
  BY <1>1 DEF RowMay, HasRow, InState
<1>2. ASSUME NEW p \in Uploads, InsertPending(p)
      PROVE  \A q \in Uploads : RowMay(q)
  <2>1. ~HasRow(p)
    BY <1>2, UploadFacts DEF InsertPending, Past
  <2>2. CASE \E t \in Parents : photo' = [photo EXCEPT ![p] = PendingRow(t)]
    <3>1. PICK t \in Parents : photo' = [photo EXCEPT ![p] = PendingRow(t)]
      BY <2>2
    <3>2. PendingRow(t) \in PhotoRow
      BY PhotoFacts DEF PendingRow, PhotoRow, PhotoModerationState
    <3> QED BY <2>1, <3>1, <3>2, OneRowChanges, RowIsNotNone
  <2> QED BY <1>1, <1>2, <2>2 DEF InsertPending
<1>3. ASSUME NEW p \in Uploads, HidePhoto(p) \/ RestorePhoto(p)
      PROVE  \A q \in Uploads : RowMay(q)
  <2>1. PICK s \in {"APPROVED", "HIDDEN"} :
          /\ photo' = [photo EXCEPT ![p] = [photo[p] EXCEPT !.state = s]]
          /\ HasRow(p) /\ photo[p].state \in {"APPROVED", "HIDDEN"}
    BY <1>3 DEF HidePhoto, RestorePhoto, FlipPhoto, InState
  <2>2. PICK r : r = [photo[p] EXCEPT !.state = s]
    OBVIOUS
  <2>3. r \in PhotoRow /\ r.state = s
    BY <2>1, <2>2, PhotoRowFacts DEF PhotoRow, PhotoModerationState
  <2> QED BY <2>1, <2>2, <2>3, OneRowChanges, RowIsNotNone
<1>4. ASSUME NEW m \in Mods, ApproveCommits(m)
      PROVE  \A q \in Uploads : RowMay(q)
  <2>1. PICK p : p = modreq[m].id
    OBVIOUS
  <2>2. PICK r : r = [state |-> "APPROVED", target |-> photo[p].target, position |-> modreq[m].position]
    OBVIOUS
  <2>3. modreq[m].pc = "commit" /\ photo' = [photo EXCEPT ![p] = r]
    BY <1>4, <2>1, <2>2 DEF ApproveCommits
  <2>4. modreq[m] # IdleMod /\ p \in Uploads
    BY <2>1, <2>3, ModFacts, RowIsNotNone
  <2>5. HasRow(p) /\ photo[p].state = "PENDING_REVIEW"
    BY <2>1, <2>3, <2>4 DEF PhotosInv, ModeratorsInOrder, RequestStands, InState
  <2>6. r # NoPhoto
    BY <2>2 DEF NoPhoto
  <2> QED BY <2>3, <2>4, <2>5, <2>6, OneRowChanges
<1>5. ASSUME NEW m \in Mods, RejectUpdates(m)
      PROVE  \A q \in Uploads : RowMay(q)
  <2>1. PICK p : p = modreq[m].id
    OBVIOUS
  <2>2. p \in Uploads
    BY <1>5, <2>1, ModFacts, RowIsNotNone DEF RejectUpdates
  <2>3. CASE Rejectable(p)
    <3>1. PICK r : r = [photo[p] EXCEPT !.state = "REJECTED"]
      OBVIOUS
    <3>2. /\ photo' = [photo EXCEPT ![p] = r] /\ HasRow(p) /\ photo[p].state = "PENDING_REVIEW"
      BY <1>5, <2>1, <2>3, <3>1 DEF RejectUpdates, Rejectable, InState
    <3>3. r \in PhotoRow
      BY <2>2, <3>1, <3>2, PhotoRowFacts DEF PhotoRow, PhotoModerationState
    <3> QED BY <2>2, <3>2, <3>3, OneRowChanges, RowIsNotNone
  <2>4. CASE ~Rejectable(p)
    BY <1>1, <1>5, <2>1, <2>4 DEF RejectUpdates
  <2> QED BY <2>3, <2>4
<1>6. CASE ReconcileDrops
  <2>1. PICK p : p = retention.id
    OBVIOUS
  <2>2. retention.pc = "drop" /\ photo' = [photo EXCEPT ![p] = NoPhoto]
    BY <1>6, <2>1 DEF ReconcileDrops
  <2>3. p \in Uploads /\ (p \in lostack \/ Dead(p))
    BY <2>1, <2>2, JobFacts DEF PhotosInv, JobIsCareful
  <2> QED BY <2>2, <2>3, OneRowChanges
<1>7. ASSUME NEW p \in Uploads,
             UploadStep(p) \/ DropUpload(p) \/ GrowOld(p) \/ HidePhoto(p) \/ RestorePhoto(p)
      PROVE  \A q \in Uploads : RowMay(q)
  BY <1>1, <1>2, <1>3, <1>7 DEF UploadStep, AcceptUpload, PutFull, PutThumb, UndoUpload, DropUpload, GrowOld
<1>8. ASSUME NEW m \in Mods, ModStep(m)
      PROVE  \A q \in Uploads : RowMay(q)
  BY <1>1, <1>4, <1>5, <1>8 DEF ModStep, ReadPhoto, ApproveLocks, ApproveUpdates, RejectWipes, DropModRequest
<1>9. CASE SweepLists \/ SweepProbes \/ SweepEnds \/ (\E o \in Objects : SweepDeletes(o))
           \/ ReconcileLists \/ ReconcileEnds \/ \E p \in Uploads : ReconcileChecks(p)
  BY <1>1, <1>9 DEF SweepLists, SweepProbes, SweepEnds, SweepDeletes, ReconcileLists, ReconcileEnds,
     ReconcileChecks
<1>10. CASE UNCHANGED photoVars
  BY <1>1, <1>10 DEF photoVars
<1> QED BY <1>6, <1>7, <1>8, <1>9, <1>10 DEF PhotosNext

\* What the photo code promises holds of every number of uploads, parents and
\* moderators: rows that are not rejected have their objects, positions of a
\* target are distinct, and neither a published row nor a decision is taken
\* back.
THEOREM PhotosSafe == PhotosSpec => PhotosAreSafe
<1>1. PhotosInv => PhotosTypeOK /\ RowHasObjects /\ PositionsDistinct
  BY DEF PhotosInv
<1>2. PhotosInv /\ [PhotosNext]_photoVars =>
        [\A p \in Uploads \ lostack :
           HasRow(p) /\ photo[p].state \in {"APPROVED", "HIDDEN"} => HasRow(p)']_photoVars
  BY RowsMay DEF RowMay
<1>3. PhotosInv /\ [PhotosNext]_photoVars =>
        [\A p \in Uploads :
           /\ InState(p, "REJECTED") => ~HasRow(p)' \/ InState(p, "REJECTED")'
           /\ HasRow(p) /\ photo[p].state \in {"APPROVED", "HIDDEN"}
                => ~InState(p, "REJECTED")']_photoVars
  BY RowsMay DEF RowMay
<1> QED BY <1>1, <1>2, <1>3, PhotosInductive, PTL
        DEF PhotosSpec, PhotosAreSafe, PublishedRowStays, DecisionStands
-----------------------------------------------------------------------------
(* Signals. *)

LEMMA SignalFacts ==
  ASSUME SignalsTypeOK
  PROVE  /\ Len(signal) \in Nat /\ DOMAIN signal = 1..Len(signal)
         /\ signal \in [1..Len(signal) -> Signal]
         /\ \A i \in DOMAIN signal : signal[i] \in Signal
         /\ Days \subseteq Nat /\ 0 \in Days /\ today \in Days /\ verifiedAt \in Days \cup {Never}
         /\ telling \in [Riders -> [pc : {"record", "mark"}, what : Told] \cup {Quiet}]
<1>1. signal \in Seq(Signal)
  BY DEF SignalsTypeOK
<1>2. Len(signal) \in Nat /\ DOMAIN signal = 1..Len(signal) /\ signal \in [1..Len(signal) -> Signal]
  BY <1>1, LenProperties
<1> QED BY <1>2, SignalConstantsOK DEF SignalsTypeOK

\* The rows that a transaction rewrites where they are.
LEMMA RewrittenSignals ==
  ASSUME SignalsTypeOK, NEW s, s = [i \in DOMAIN signal |-> s[i]],
         \A i \in DOMAIN signal : s[i] \in Signal
  PROVE  s \in Seq(Signal) /\ Len(s) = Len(signal) /\ DOMAIN s = DOMAIN signal
<1>1. Len(signal) \in Nat /\ DOMAIN signal = 1..Len(signal)
  BY SignalFacts
<1>2. s \in [1..Len(signal) -> Signal]
  BY <1>1
<1> QED BY <1>1, <1>2, RowsOf

\* What an erasure makes of a row, and what the purge does.
LEMMA ErasedSignal ==
  ASSUME SignalsTypeOK, NEW u \in Riders, NEW i \in DOMAIN signal
  PROVE  /\ Anonymous(u)[i] \in Signal
         /\ Anonymous(u)[i].result = "still_exists" <=> signal[i].result = "still_exists"
         /\ \/ Anonymous(u)[i].at = signal[i].at
            \/ Anonymous(u)[i].at = 0 /\ Anonymous(u)[i].result = "deleted"
<1>1. signal[i] \in Signal /\ 0 \in Days
  BY SignalFacts
<1>2. Anonymous(u)[i] = CASE signal[i].user # u -> signal[i]
                          [] signal[i].user = u /\ signal[i].kind = "parked_here" -> Deleted
                          [] OTHER -> [signal[i] EXCEPT !.user = NoRider]
  BY DEF Anonymous
<1>3. CASE signal[i].user # u
  BY <1>1, <1>2, <1>3
<1>4. CASE signal[i].user = u /\ signal[i].kind = "parked_here"
  <2>1. Anonymous(u)[i] = Deleted
    BY <1>2, <1>4
  <2> QED BY <1>1, <1>4, <2>1 DEF Signal, Deleted, ExistenceResult, AttributeResult
<1>5. CASE signal[i].user = u /\ signal[i].kind # "parked_here"
  <2>1. Anonymous(u)[i] = [signal[i] EXCEPT !.user = NoRider]
    BY <1>2, <1>5
  <2> QED BY <1>1, <1>5, <2>1 DEF Signal, Deleted
<1> QED BY <1>3, <1>4, <1>5

\* A row that was there says what it said, of the day it said it, or is gone.
SameWords(a, b) ==
  /\ a.result = "still_exists" <=> b.result = "still_exists"
  /\ b.at = a.at \/ (b.at = 0 /\ b.result = "deleted")

\* Rewriting rows so keeps what relates them to the stamp.
LEMMA WordsStand ==
  ASSUME SignalsInv, SignalsTypeOK', DOMAIN signal' = DOMAIN signal,
         \A i \in DOMAIN signal : SameWords(signal[i], signal'[i]),
         UNCHANGED <<verifiedAt, today, telling, lostMark>>
  PROVE  SignalsInv'
<1>1. Days \subseteq Nat /\ today \in Days
  BY SignalFacts DEF SignalsInv
<1>2. \A i \in DOMAIN signal : Confirmation(i)' <=> Confirmation(i)
  BY DEF SameWords, Confirmation
<1>3. \A i \in DOMAIN signal : Confirmation(i) => signal'[i].at = signal[i].at
  BY <1>2 DEF SameWords, Confirmation
<1>4. FreshnessKeepsUp'
  BY <1>2, <1>3 DEF SignalsInv, FreshnessKeepsUp
<1>5. \A i \in DOMAIN signal' : signal'[i].at <= today'
  <2> SUFFICES ASSUME NEW i \in DOMAIN signal PROVE signal'[i].at <= today
    OBVIOUS
  <2>1. PICK t \in Nat : t = today
    BY <1>1
  <2>2. signal[i].at <= t
    BY <2>1 DEF SignalsInv, StampsInOrder
  <2>3. signal'[i].at = signal[i].at \/ signal'[i].at = 0
    BY DEF SameWords
  <2>4. CASE signal'[i].at = signal[i].at
    BY <2>1, <2>2, <2>4
  <2>5. CASE signal'[i].at = 0
    BY <2>1, <2>5
  <2> QED BY <2>3, <2>4, <2>5
<1>6. StampsInOrder'
  BY <1>2, <1>5 DEF SignalsInv, StampsInOrder
<1> QED BY <1>4, <1>6 DEF SignalsInv

LEMMA EraseRiderStep ==
  ASSUME SignalsInv, NEW u \in Riders, EraseRider(u)
  PROVE  SignalsInv'
<1>1. SignalsTypeOK /\ signal' = Anonymous(u) /\ gone' = gone \cup {u}
  BY DEF SignalsInv, EraseRider
<1>2. UNCHANGED <<verifiedAt, live, today, telling, lostMark>>
  BY DEF EraseRider
<1>3. signal' = [i \in DOMAIN signal |-> signal'[i]]
  BY <1>1 DEF Anonymous
<1>4. \A i \in DOMAIN signal : signal'[i] \in Signal /\ SameWords(signal[i], signal'[i])
  BY <1>1, ErasedSignal DEF SameWords
<1>5. signal' \in Seq(Signal) /\ Len(signal') = Len(signal) /\ DOMAIN signal' = DOMAIN signal
  BY <1>1, <1>3, <1>4, RewrittenSignals
<1>6. SignalsTypeOK'
  BY <1>1, <1>2, <1>5 DEF SignalsTypeOK
<1> QED BY <1>2, <1>4, <1>5, <1>6, WordsStand

LEMMA PurgedSignal ==
  ASSUME SignalsTypeOK, PurgeParkedHere, NEW i \in DOMAIN signal
  PROVE  /\ \/ signal'[i] = Deleted /\ signal[i].kind = "parked_here"
            \/ signal'[i] = signal[i]
         /\ signal'[i] \in Signal /\ SameWords(signal[i], signal'[i])
<1>1. signal[i] \in Signal
  BY SignalFacts
<1>2. signal'[i] = IF signal[i].kind = "parked_here" /\ signal[i].expires < today
                   THEN Deleted ELSE signal[i]
  BY DEF PurgeParkedHere
<1>3. CASE signal[i].kind = "parked_here" /\ signal[i].expires < today
  <2>1. signal'[i] = Deleted
    BY <1>2, <1>3
  <2>2. Deleted.result = "deleted" /\ Deleted.at = 0 /\ Deleted \in Signal
    BY DEF Deleted, Signal
  <2>3. signal[i].result # "still_exists"
    BY <1>1, <1>3 DEF Signal, Deleted, ExistenceResult, AttributeResult
  <2> QED BY <1>3, <2>1, <2>2, <2>3 DEF SameWords
<1>4. CASE ~(signal[i].kind = "parked_here" /\ signal[i].expires < today)
  BY <1>1, <1>2, <1>4 DEF SameWords
<1> QED BY <1>3, <1>4

LEMMA PurgeStep ==
  ASSUME SignalsInv, PurgeParkedHere
  PROVE  SignalsInv'
<1>1. SignalsTypeOK /\ UNCHANGED <<verifiedAt, live, today, telling, gone, lostMark>>
  BY DEF SignalsInv, PurgeParkedHere
<1>2. signal' = [i \in DOMAIN signal |-> signal'[i]]
  BY DEF PurgeParkedHere
<1>3. \A i \in DOMAIN signal : signal'[i] \in Signal /\ SameWords(signal[i], signal'[i])
  BY <1>1, PurgedSignal
<1>4. signal' \in Seq(Signal) /\ Len(signal') = Len(signal) /\ DOMAIN signal' = DOMAIN signal
  BY <1>1, <1>2, <1>3, RewrittenSignals
<1>5. SignalsTypeOK'
  BY <1>1, <1>4 DEF SignalsTypeOK
<1> QED BY <1>1, <1>3, <1>4, <1>5, WordsStand

\* A request that records appends one row of today, by its rider.
LEMMA Recorded ==
  ASSUME SignalsTypeOK, NEW u \in Riders, RecordSignal(u)
  PROVE  \E r \in Signal :
           /\ r.user = u /\ r.at = today
           /\ (r.result = "still_exists") <=> Confirms(telling[u].what)
           /\ signal' \in Seq(Signal) /\ Len(signal') = Len(signal) + 1 /\ Len(signal') <= MaxSignals
           /\ DOMAIN signal' = DOMAIN signal \cup {Len(signal')}
           /\ \A i \in DOMAIN signal : signal'[i] = signal[i]
           /\ signal'[Len(signal')] = r
<1>1. PICK r, w, n : n = Len(signal) /\ w = telling[u].what /\ r = NewSignal(u, w)
  OBVIOUS
<1>2. n \in Nat /\ DOMAIN signal = 1..n /\ signal \in Seq(Signal) /\ today \in Days /\ Days \subseteq Nat
  BY <1>1, SignalFacts DEF SignalsTypeOK
<1>3. w \in Told
  BY <1>1, SignalFacts DEF RecordSignal, Quiet
<1>4. r \in Signal /\ r.user = u /\ r.at = today
  <2>1. PICK d \in Nat : d = today /\ d \in Days
    BY <1>2
  <2>2. CASE w = <<"parked_here", "parked_here">>
    BY <1>1, <2>1, <2>2 DEF NewSignal, Signal, PARKED_HERE_RETENTION_DAYS
  <2>3. ASSUME NEW q \in ExistenceResult, w = <<"existence", q>>
        PROVE  r \in Signal /\ r.user = u /\ r.at = today
    BY <1>1, <2>1, <2>3 DEF NewSignal, Signal
  <2>4. ASSUME NEW q \in AttributeResult, w = <<"attribute", q>>
        PROVE  r \in Signal /\ r.user = u /\ r.at = today
    BY <1>1, <2>1, <2>4 DEF NewSignal, Signal
  <2> QED BY <1>3, <2>2, <2>3, <2>4 DEF Told
<1>5. (r.result = "still_exists") <=> Confirms(w)
  <2>1. r.result = w[2]
    BY <1>1 DEF NewSignal
  <2> QED BY <1>3, <2>1 DEF Told, Confirms, ExistenceResult, AttributeResult
<1>6. signal' = Append(signal, r) /\ n < MaxSignals
  BY <1>1 DEF RecordSignal
<1>7. /\ signal' \in Seq(Signal) /\ Len(signal') = n + 1
      /\ \A i \in 1..n : signal'[i] = signal[i]
      /\ signal'[n + 1] = r
  BY <1>2, <1>4, <1>6, AppendProperties
<1>8. DOMAIN signal' = 1..(n + 1)
  BY <1>7, LenProperties
<1>9. 1..(n + 1) = 1..n \cup {n + 1} /\ n + 1 <= MaxSignals
  BY <1>2, <1>6, SignalConstantsOK
<1> QED BY <1>1, <1>2, <1>4, <1>5, <1>7, <1>8, <1>9

LEMMA RecordStands ==
  ASSUME SignalsInv, NEW u \in Riders, RecordSignal(u)
  PROVE  SignalsInv'
<1>1. SignalsTypeOK
  BY DEF SignalsInv
<1>2. PICK r \in Signal :
        /\ r.user = u /\ r.at = today
        /\ (r.result = "still_exists") <=> Confirms(telling[u].what)
        /\ signal' \in Seq(Signal) /\ Len(signal') = Len(signal) + 1 /\ Len(signal') <= MaxSignals
        /\ DOMAIN signal' = DOMAIN signal \cup {Len(signal')}
        /\ \A i \in DOMAIN signal : signal'[i] = signal[i]
        /\ signal'[Len(signal')] = r
  BY <1>1, Recorded
<1>3. PICK k : k = Len(signal')
  OBVIOUS
<1>4. /\ DOMAIN signal' = DOMAIN signal \cup {k} /\ signal'[k] = r /\ k \in DOMAIN signal'
      /\ \A i \in DOMAIN signal : signal'[i] = signal[i]
  BY <1>2, <1>3
<1>5. /\ telling[u] \in [pc : {"record", "mark"}, what : Told] /\ telling[u].pc = "record"
      /\ telling \in [Riders -> [pc : {"record", "mark"}, what : Told] \cup {Quiet}]
      /\ Days \subseteq Nat /\ today \in Days
  BY <1>1, SignalFacts DEF RecordSignal, Quiet
<1>6. UNCHANGED <<verifiedAt, live, today, gone, lostMark>>
  BY DEF RecordSignal
<1>7. \A i \in DOMAIN signal : Confirmation(i)' <=> Confirmation(i)
  BY <1>4 DEF Confirmation
<1>8. \A v \in Riders : v # u => telling'[v] = telling[v]
  BY <1>5 DEF RecordSignal
<1>9. \A i \in DOMAIN signal' : signal'[i].at <= today'
  BY <1>2, <1>4, <1>5, <1>6 DEF SignalsInv, StampsInOrder
<1>10. verifiedAt' # Never => \E i \in DOMAIN signal' : Confirmation(i)' /\ signal'[i].at <= verifiedAt'
  BY <1>4, <1>6, <1>7 DEF SignalsInv, FreshnessKeepsUp
<1>11. CASE Confirms(telling[u].what)
  <2>1. telling'[u] = [pc |-> "mark", what |-> telling[u].what]
    BY <1>5, <1>11 DEF RecordSignal
  <2>2. telling'[u].pc = "mark" /\ telling' \in [Riders -> [pc : {"record", "mark"}, what : Told] \cup {Quiet}]
    BY <1>5, <1>11, <2>1 DEF RecordSignal
  <2>3. SignalsTypeOK'
    BY <1>1, <1>2, <1>6, <2>2 DEF SignalsTypeOK
  <2>4. FreshnessKeepsUp'
    BY <1>10, <2>2 DEF FreshnessKeepsUp
  <2>5. Confirmation(k)'
    BY <1>2, <1>3, <1>4, <1>11 DEF Confirmation
  <2>6. StampsInOrder'
    BY <1>4, <1>6, <1>9, <2>5 DEF SignalsInv, StampsInOrder
  <2> QED BY <2>3, <2>4, <2>6 DEF SignalsInv
<1>12. CASE ~Confirms(telling[u].what)
  <2>1. telling'[u] = Quiet /\ Quiet.pc = "quiet"
    BY <1>5, <1>12 DEF RecordSignal, Quiet
  <2>2. telling' \in [Riders -> [pc : {"record", "mark"}, what : Told] \cup {Quiet}]
    BY <1>5, <1>12 DEF RecordSignal
  <2>3. SignalsTypeOK'
    BY <1>1, <1>2, <1>6, <2>2 DEF SignalsTypeOK
  <2>4. ~Confirmation(k)'
    BY <1>2, <1>3, <1>4, <1>12 DEF Confirmation
  <2>5. \A v \in Riders : telling'[v].pc = "mark" <=> telling[v].pc = "mark"
    BY <1>5, <1>8, <2>1
  <2>6. FreshnessKeepsUp'
    BY <1>4, <1>6, <1>7, <1>10, <2>4, <2>5 DEF SignalsInv, FreshnessKeepsUp
  <2>7. StampsInOrder'
    BY <1>4, <1>6, <1>7, <1>9, <2>5 DEF SignalsInv, StampsInOrder
  <2> QED BY <2>3, <2>6, <2>7 DEF SignalsInv
<1> QED BY <1>11, <1>12

LEMMA SignalsStep == SignalsInv /\ [SignalsNext]_signalVars => SignalsInv'
<1> SUFFICES ASSUME SignalsInv, [SignalsNext]_signalVars PROVE SignalsInv'
  OBVIOUS
<1>1. /\ SignalsTypeOK /\ FreshnessKeepsUp /\ StampsInOrder
      /\ telling \in [Riders -> [pc : {"record", "mark"}, what : Told] \cup {Quiet}]
      /\ Quiet.pc = "quiet" /\ Days \subseteq Nat /\ today \in Days
  BY SignalFacts DEF SignalsInv, Quiet
<1>2. ASSUME NEW u \in Riders, NEW what \in Told, BeginTelling(u, what)
      PROVE  SignalsInv'
  <2>1. UNCHANGED <<signal, verifiedAt, live, today, gone, lostMark>>
    BY <1>2 DEF BeginTelling
  <2>2. telling' \in [Riders -> [pc : {"record", "mark"}, what : Told] \cup {Quiet}]
    BY <1>1, <1>2 DEF BeginTelling
  <2>3. \A v \in Riders : telling'[v].pc = "mark" <=> telling[v].pc = "mark"
    BY <1>1, <1>2 DEF BeginTelling
  <2> QED BY <1>1, <2>1, <2>2, <2>3
          DEF SignalsInv, SignalsTypeOK, FreshnessKeepsUp, StampsInOrder, Confirmation
<1>3. ASSUME NEW u \in Riders, MarkVerified(u)
      PROVE  SignalsInv'
  <2>1. UNCHANGED <<signal, live, today, gone, lostMark>> /\ verifiedAt' = today /\ telling[u].pc = "mark"
    BY <1>3 DEF MarkVerified
  <2>2. telling' \in [Riders -> [pc : {"record", "mark"}, what : Told] \cup {Quiet}]
    BY <1>1, <1>3 DEF MarkVerified
  <2>3. \A v \in Riders : telling'[v].pc = "mark" => telling[v].pc = "mark"
    BY <1>1, <1>3 DEF MarkVerified
  <2>4. SignalsTypeOK'
    BY <1>1, <2>1, <2>2 DEF SignalsTypeOK
  <2>5. FreshnessKeepsUp'
    BY <1>1, <2>1 DEF FreshnessKeepsUp, StampsInOrder, Confirmation
  <2>6. verifiedAt' <= today'
    <3>1. PICK d \in Nat : d = today
      BY <1>1
    <3> QED BY <2>1, <3>1
  <2>7. StampsInOrder'
    BY <1>1, <2>1, <2>3, <2>6 DEF StampsInOrder, Confirmation
  <2> QED BY <2>4, <2>5, <2>7 DEF SignalsInv
<1>4. ASSUME NEW u \in Riders, StopTelling(u)
      PROVE  SignalsInv'
  <2>1. UNCHANGED <<signal, verifiedAt, live, today, gone>>
    BY <1>4 DEF StopTelling
  <2>2. telling' \in [Riders -> [pc : {"record", "mark"}, what : Told] \cup {Quiet}]
    BY <1>1, <1>4 DEF StopTelling
  <2>3. \A v \in Riders : telling'[v].pc = "mark" => telling[v].pc = "mark"
    BY <1>1, <1>4 DEF StopTelling
  <2>4. \A v \in Riders : telling[v].pc = "mark" => telling'[v].pc = "mark" \/ lostMark'
    <3>1. lostMark' <=> lostMark \/ telling[u].pc = "mark"
      BY <1>4 DEF StopTelling
    <3>2. \A v \in Riders : v # u => telling'[v] = telling[v]
      BY <1>1, <1>4 DEF StopTelling
    <3> QED BY <3>1, <3>2
  <2>5. lostMark' \in BOOLEAN /\ (lostMark => lostMark')
    BY <1>1, <1>4 DEF StopTelling, SignalsTypeOK
  <2>6. SignalsTypeOK'
    BY <1>1, <2>1, <2>2, <2>5 DEF SignalsTypeOK
  <2>7. FreshnessKeepsUp'
    BY <1>1, <2>1, <2>4, <2>5 DEF FreshnessKeepsUp, Confirmation
  <2>8. StampsInOrder'
    BY <1>1, <2>1, <2>3 DEF StampsInOrder, Confirmation
  <2> QED BY <2>6, <2>7, <2>8 DEF SignalsInv
<1>5. ASSUME FlipListing \/ UNCHANGED signalVars PROVE SignalsInv'
  <2>1. UNCHANGED <<signal, verifiedAt, today, telling, gone, lostMark>> /\ live' \in BOOLEAN
    BY <1>1, <1>5 DEF FlipListing, signalVars, SignalsTypeOK
  <2> QED BY <1>1, <2>1
          DEF SignalsInv, SignalsTypeOK, FreshnessKeepsUp, StampsInOrder, Confirmation
<1>6. ASSUME NEW d \in Days, DayPasses(d) PROVE SignalsInv'
  <2>1. UNCHANGED <<signal, verifiedAt, live, telling, gone, lostMark>> /\ today' = d /\ d > today
    BY <1>6 DEF DayPasses
  <2>2. \A i \in DOMAIN signal : signal[i].at \in Days
    <3>1. ASSUME NEW r \in Signal PROVE r.at \in Days
      BY SignalConstantsOK DEF Signal, Deleted
    <3> QED BY <1>1, <3>1, SignalFacts
  <2>3. verifiedAt \in Days \cup {Never}
    BY <1>1 DEF SignalsTypeOK
  <2>4. SignalsTypeOK'
    BY <1>1, <2>1 DEF SignalsTypeOK
  <2>5. FreshnessKeepsUp'
    BY <1>1, <2>1 DEF FreshnessKeepsUp, Confirmation
  <2>6. \A i \in DOMAIN signal : signal[i].at <= d
    <3> SUFFICES ASSUME NEW i \in DOMAIN signal PROVE signal[i].at <= d
      OBVIOUS
    <3>1. PICK x \in Nat, y \in Nat, z \in Nat : x = signal[i].at /\ y = today /\ z = d
      BY <1>1, <2>2
    <3> QED BY <1>1, <2>1, <3>1 DEF StampsInOrder
  <2>7. verifiedAt <= d
    <3>1. PICK x \in Int, y \in Nat, z \in Nat : x = verifiedAt /\ y = today /\ z = d
      BY <1>1, <2>3 DEF Never
    <3> QED BY <1>1, <2>1, <3>1 DEF StampsInOrder
  <2>8. StampsInOrder'
    BY <1>1, <2>1, <2>6, <2>7 DEF StampsInOrder, Confirmation
  <2> QED BY <2>4, <2>5, <2>8 DEF SignalsInv
<1> QED BY <1>2, <1>3, <1>4, <1>5, <1>6, RecordStands, EraseRiderStep, PurgeStep DEF SignalsNext

LEMMA SignalsStart == SignalsInit => SignalsInv
<1> SUFFICES ASSUME SignalsInit PROVE SignalsInv
  OBVIOUS
<1>1. signal = << >> /\ signal \in Seq(Signal) /\ Len(signal) = 0 /\ DOMAIN signal = {}
  BY DEF SignalsInit
<1>2. /\ verifiedAt = Never /\ today = 0 /\ telling = [u \in Riders |-> Quiet] /\ Quiet.pc = "quiet"
      /\ live \in BOOLEAN /\ lostMark \in BOOLEAN /\ gone \subseteq Riders
  BY DEF SignalsInit, Quiet
<1>3. SignalsTypeOK
  BY <1>1, <1>2, SignalConstantsOK DEF SignalsTypeOK
<1>4. FreshnessKeepsUp /\ StampsInOrder
  BY <1>1, <1>2 DEF FreshnessKeepsUp, StampsInOrder, Never
<1> QED BY <1>3, <1>4 DEF SignalsInv

\* At all times nothing is dated after today, a stamp goes back to a recorded
\* confirmation, and it is at least as new as all of them while nobody is about
\* to stamp and no stamp was lost (record_verification, mark_verified_at).
THEOREM SignalsInductive == SignalsSpec => []SignalsInv
BY SignalsStart, SignalsStep, PTL DEF SignalsSpec
-----------------------------------------------------------------------------
(* The badges.  Both are made from a number of days and from what the latest  *)
(* signal of each rider says; these are written as constants here, so that   *)
(* the facts about them are about any two days and any two tables.           *)

Band(n) == Cardinality({k \in 1..4 : n >= DEFAULT_THRESHOLDS[k]})
CategoryAt(t, d) == IF d = Never THEN "Never" ELSE FreshnessCategory[Band(Max({t - d, 0})) + 1]
Ats == {signal[i].at : i \in {j \in LatestExistence : signal[j].result = "still_exists"}}
Badge(denied, A, t) ==
  IF denied THEN "Conflicting" ELSE IF A = {} THEN "Reported" ELSE ConfidenceOf(CategoryAt(t, Max(A)))
Denied == \E i \in LatestExistence : signal[i].result = "no_longer_exists"

\* More days reach at least as many thresholds.
LEMMA BandGrows ==
  ASSUME NEW n \in Nat, NEW m \in Nat, n <= m
  PROVE  Band(n) \in 0..4 /\ Band(m) \in 0..4 /\ Band(n) <= Band(m)
<1>1. PICK S, T : /\ S = {k \in 1..4 : n >= DEFAULT_THRESHOLDS[k]}
                  /\ T = {k \in 1..4 : m >= DEFAULT_THRESHOLDS[k]}
  OBVIOUS
<1>2. \A k \in 1..4 : DEFAULT_THRESHOLDS[k] \in Nat
  <2>1. \A k \in 1..4 : k = 1 \/ k = 2 \/ k = 3 \/ k = 4
    OBVIOUS
  <2> QED BY <2>1 DEF DEFAULT_THRESHOLDS
<1>3. S \subseteq T /\ T \subseteq 1..4
  <2>1. ASSUME NEW k \in 1..4, n >= DEFAULT_THRESHOLDS[k] PROVE m >= DEFAULT_THRESHOLDS[k]
    <3>1. PICK h \in Nat : h = DEFAULT_THRESHOLDS[k]
      BY <1>2
    <3> QED BY <2>1, <3>1
  <2> QED BY <1>1, <2>1
<1>4. IsFiniteSet(1..4) /\ Cardinality(1..4) = 4
  <2>1. PICK a \in Int, b \in Int : a = 1 /\ b = 4
    OBVIOUS
  <2>2. IsFiniteSet(a..b) /\ Cardinality(a..b) = IF a > b THEN 0 ELSE b - a + 1
    BY ONLY a \in Int, b \in Int, FS_Interval
  <2> QED BY <2>1, <2>2
<1>5. IsFiniteSet(T) /\ Cardinality(T) <= 4
  BY <1>3, <1>4, FS_Subset
<1>6. IsFiniteSet(S) /\ Cardinality(S) <= Cardinality(T)
  BY <1>3, <1>5, FS_Subset
<1>7. Cardinality(S) \in Nat /\ Cardinality(T) \in Nat
  BY <1>5, <1>6, FS_CardinalityType
<1>8. PICK x \in Nat, y \in Nat : x = Cardinality(S) /\ y = Cardinality(T) /\ x <= y /\ y <= 4
  BY <1>5, <1>6, <1>7
<1>9. Band(n) = x /\ Band(m) = y
  BY <1>1, <1>8 DEF Band
<1>10. x \in 0..4 /\ y \in 0..4
  BY <1>8
<1> QED BY <1>8, <1>9, <1>10

\* The badge that a number of thresholds stands for.
LEMMA BandBadge ==
  ASSUME NEW n \in 0..4
  PROVE  ConfidenceOf(FreshnessCategory[n + 1]) =
           IF n = 0 THEN "RecentlyVerified" ELSE IF n < 3 THEN "Verified" ELSE "Stale"
<1>1. n = 0 \/ n = 1 \/ n = 2 \/ n = 3 \/ n = 4
  OBVIOUS
<1>2. CASE n = 0
  BY <1>2 DEF FreshnessCategory, ConfidenceOf
<1>3. CASE n = 1
  BY <1>3 DEF FreshnessCategory, ConfidenceOf
<1>4. CASE n = 2
  BY <1>4 DEF FreshnessCategory, ConfidenceOf
<1>5. CASE n = 3
  BY <1>5 DEF FreshnessCategory, ConfidenceOf
<1>6. CASE n = 4
  BY <1>6 DEF FreshnessCategory, ConfidenceOf
<1> QED BY <1>1, <1>2, <1>3, <1>4, <1>5, <1>6

\* The badge of confirmations none of which is of a later day.
LEMMA BadgeOf ==
  ASSUME NEW t \in Nat, NEW A \in SUBSET (0..t), A # {}
  PROVE  /\ Max(A) \in Nat /\ Max(A) <= t
         /\ Badge(FALSE, A, t) = ConfidenceOf(FreshnessCategory[Band(t - Max(A)) + 1])
<1>1. PICK m \in Nat : m = Max(A) /\ m <= t
  <2>1. Max(A) \in A
    BY MaxFacts
  <2>2. \A a \in A : a \in Nat /\ a <= t
    OBVIOUS
  <2> QED BY <2>1, <2>2
<1>2. Max({t - m, 0}) = t - m
  <2>1. PICK d \in Nat : d = t - m /\ d <= t
    BY <1>1
  <2>2. {d, 0} \in SUBSET (0..t) /\ {d, 0} # {}
    BY <2>1
  <2>3. PICK x : x = Max({d, 0})
    OBVIOUS
  <2>4. x \in {d, 0} /\ \A y \in {d, 0} : y <= x
    BY <2>2, <2>3, MaxFacts
  <2>5. x = d
    BY <2>1, <2>4
  <2> QED BY <2>1, <2>3, <2>5
<1>3. m # Never
  BY DEF Never
<1> QED BY <1>1, <1>2, <1>3 DEF Badge, CategoryAt

LEMMA ConfidenceIsBadge == Confidence = Badge(Denied, Ats, today)
<1>1. PICK P : P = {j \in LatestExistence : signal[j].result = "still_exists"}
  OBVIOUS
<1>2. PICK A : A = Ats /\ A = {signal[i].at : i \in P}
  BY <1>1 DEF Ats
<1>3. P = {} <=> A = {}
  BY <1>2
<1>4. Categorize(Max(A)) = CategoryAt(today, Max(A))
  BY DEF Categorize, CategoryAt, Band
<1>5. Confidence = IF Denied THEN "Conflicting" ELSE IF P = {} THEN "Reported"
                   ELSE ConfidenceOf(Categorize(Max(A)))
  BY <1>1, <1>2 DEF Confidence, Denied
<1> QED BY <1>2, <1>3, <1>4, <1>5 DEF Badge

\* The signals count from day 0 to today.
LEMMA AtsAreDays ==
  ASSUME SignalsInv
  PROVE  today \in Nat /\ Ats \in SUBSET (0..today)
<1>1. Days \subseteq Nat /\ today \in Days /\ \A i \in DOMAIN signal : signal[i] \in Signal
  BY SignalFacts DEF SignalsInv
<1>2. ASSUME NEW r \in Signal PROVE r.at \in Days
  BY SignalConstantsOK DEF Signal, Deleted
<1>3. \A i \in DOMAIN signal : signal[i].at \in 0..today
  <2> SUFFICES ASSUME NEW i \in DOMAIN signal PROVE signal[i].at \in 0..today
    OBVIOUS
  <2>1. PICK x \in Nat, y \in Nat : x = signal[i].at /\ y = today
    BY <1>1, <1>2
  <2> QED BY <2>1 DEF SignalsInv, StampsInOrder
<1> QED BY <1>1, <1>3 DEF Ats, LatestExistence

\* A listing is in conflict just when somebody's latest word is that it is gone.
LEMMA ConflictIsDenied ==
  ASSUME SignalsInv
  PROVE  Confidence = "Conflicting" <=> Denied
<1>1. CASE Denied
  BY <1>1, ConfidenceIsBadge DEF Badge
<1>2. CASE ~Denied /\ Ats = {}
  BY <1>2, ConfidenceIsBadge DEF Badge
<1>3. CASE ~Denied /\ Ats # {}
  <2>1. PICK t, A : t \in Nat /\ A \in SUBSET (0..t) /\ t = today /\ A = Ats /\ A # {}
    BY <1>3, AtsAreDays
  <2>2. PICK n \in 0..4 : n = Band(t - Max(A))
    <3>1. PICK m \in Nat : m = Max(A) /\ m <= t
      BY <2>1, BadgeOf
    <3>2. PICK d \in Nat : d = t - m
      BY <2>1, <3>1
    <3>3. Band(d) \in 0..4
      BY BandGrows
    <3> QED BY <3>1, <3>2, <3>3
  <2>3. Confidence = ConfidenceOf(FreshnessCategory[n + 1])
    <3>1. Confidence = Badge(FALSE, A, t)
      BY <1>3, <2>1, ConfidenceIsBadge DEF Badge
    <3> QED BY <2>1, <2>2, <3>1, BadgeOf
  <2>4. Confidence # "Conflicting"
    BY <2>3, BandBadge
  <2> QED BY <1>3, <2>4
<1> QED BY <1>1, <1>2, <1>3

\* A word that only appends a rider's own row or rewrites rows of others.
LEMMA LatestStands ==
  ASSUME SignalsTypeOK, SignalsTypeOK', NEW i \in LatestExistence, i \in DOMAIN signal',
         signal'[i] = signal[i],
         \A j \in DOMAIN signal' :
           /\ signal'[j].kind = "existence" /\ signal'[j].user = signal[i].user
           => j \in DOMAIN signal /\ signal'[j] = signal[j]
  PROVE  i \in LatestExistence'
BY DEF LatestExistence

\* The badge leaves the conflict only by a word of somebody who denied, or with
\* an account (RecordSignal, EraseRider); a purge takes no such word.
LEMMA ConflictStep ==
  ASSUME SignalsInv, SignalsInv', [SignalsNext]_signalVars,
         Confidence = "Conflicting", Confidence' # "Conflicting"
  PROVE  \E i \in LatestExistence :
           /\ signal[i].result = "no_longer_exists"
           /\ \/ gone' # gone
              \/ Len(signal') > Len(signal) /\ signal'[Len(signal')].user = signal[i].user
<1>1. SignalsTypeOK /\ SignalsTypeOK'
  BY DEF SignalsInv
<1>2. PICK i \in LatestExistence : signal[i].result = "no_longer_exists"
  BY ConflictIsDenied DEF Denied
<1>3. ~Denied'
  <2>1. (Confidence = Badge(Denied, Ats, today))'
    BY ConfidenceIsBadge, PTL
  <2> QED BY <2>1 DEF Badge
<1>4. i \in DOMAIN signal /\ signal[i].kind = "existence" /\ signal[i].user # NoRider
  BY DEF LatestExistence
<1>5. CASE signal' = signal
  BY <1>2, <1>3, <1>5 DEF Denied, LatestExistence
<1>6. ASSUME NEW u \in Riders, RecordSignal(u)
      PROVE  Len(signal') > Len(signal) /\ signal'[Len(signal')].user = signal[i].user
  <2>1. PICK r \in Signal :
          /\ r.user = u /\ Len(signal') = Len(signal) + 1
          /\ DOMAIN signal' = DOMAIN signal \cup {Len(signal')}
          /\ \A j \in DOMAIN signal : signal'[j] = signal[j]
          /\ signal'[Len(signal')] = r
    BY <1>1, <1>6, Recorded
  <2>2. ASSUME u # signal[i].user PROVE FALSE
    <3>1. i \in LatestExistence'
      BY <1>1, <1>4, <2>1, <2>2, LatestStands
    <3> QED BY <1>2, <1>3, <1>4, <2>1, <3>1 DEF Denied
  <2>3. PICK n \in Nat : n = Len(signal)
    BY <1>1, SignalFacts
  <2> QED BY <2>1, <2>2, <2>3
<1>7. ASSUME NEW u \in Riders, EraseRider(u) PROVE gone' # gone
  BY <1>7 DEF EraseRider
<1>8. ASSUME PurgeParkedHere PROVE FALSE
  <2>1. DOMAIN signal' = DOMAIN signal
    BY <1>8 DEF PurgeParkedHere
  <2>2. \A j \in DOMAIN signal : signal'[j].kind = "existence" => signal'[j] = signal[j]
    BY <1>1, <1>8, PurgedSignal DEF Deleted
  <2>3. signal'[i] = signal[i]
    BY <1>1, <1>4, <1>8, PurgedSignal
  <2>4. i \in LatestExistence'
    BY <1>1, <1>4, <2>1, <2>2, <2>3, LatestStands
  <2> QED BY <1>2, <1>3, <2>3, <2>4 DEF Denied
<1>9. \/ signal' = signal \/ PurgeParkedHere
      \/ \E u \in Riders : RecordSignal(u) \/ EraseRider(u)
  BY DEF SignalsNext, signalVars, BeginTelling, MarkVerified, StopTelling, FlipListing, DayPasses
<1> QED BY <1>2, <1>5, <1>6, <1>7, <1>8, <1>9

\* A later day, and the same signals: the badge only falls.
LEMMA DecayStep ==
  ASSUME SignalsInv, [SignalsNext]_signalVars, today' > today, Confidence \in DOMAIN Rank
  PROVE  Confidence' \in DOMAIN Rank /\ Rank[Confidence'] <= Rank[Confidence]
<1>1. PICK d \in Days : DayPasses(d)
  <2>1. Days \subseteq Nat /\ today \in Days
    BY SignalFacts DEF SignalsInv
  <2>2. today' # today
    <3>1. PICK x \in Nat : x = today
      BY <2>1
    <3> QED BY <3>1
  <2> QED BY <2>2 DEF SignalsNext, signalVars, BeginTelling, RecordSignal, MarkVerified, StopTelling,
                      EraseRider, FlipListing, PurgeParkedHere
<1>2. signal' = signal /\ today' = d /\ d > today /\ d \in Nat
  BY <1>1, SignalConstantsOK DEF DayPasses
<1>3. DOMAIN Rank = {"Stale", "Verified", "RecentlyVerified"}
  BY DEF Rank
<1>4. ~Denied /\ Ats # {}
  BY <1>3, ConfidenceIsBadge DEF Badge
<1>5. PICK t, A : t \in Nat /\ A \in SUBSET (0..t) /\ t = today /\ A = Ats /\ A # {}
  BY <1>4, AtsAreDays
<1>6. Denied' = Denied /\ Ats' = Ats
  BY <1>2 DEF Denied, Ats, LatestExistence
<1>7. Confidence' = Badge(FALSE, A, d)
  <2>1. (Confidence = Badge(Denied, Ats, today))'
    BY ConfidenceIsBadge, PTL
  <2> QED BY <1>2, <1>4, <1>5, <1>6, <2>1 DEF Badge
<1>8. Confidence = Badge(FALSE, A, t)
  BY <1>4, <1>5, ConfidenceIsBadge DEF Badge
<1>9. A \in SUBSET (0..d)
  BY <1>2, <1>5
<1>10. PICK m \in Nat : m = Max(A) /\ m <= t
  BY <1>5, BadgeOf
<1>11. PICK x \in Nat, y \in Nat : x = t - m /\ y = d - m /\ x <= y
  BY <1>2, <1>5, <1>10
<1>12. PICK p \in 0..4, q \in 0..4 : p = Band(x) /\ q = Band(y) /\ p <= q
  BY <1>11, BandGrows
<1>13. Confidence = ConfidenceOf(FreshnessCategory[p + 1])
  BY <1>5, <1>8, <1>10, <1>11, <1>12, BadgeOf
<1>14. Confidence' = ConfidenceOf(FreshnessCategory[q + 1])
  BY <1>2, <1>5, <1>7, <1>9, <1>10, <1>11, <1>12, BadgeOf
<1>15. Rank["Stale"] = 1 /\ Rank["Verified"] = 2 /\ Rank["RecentlyVerified"] = 3
  BY DEF Rank
<1>16. Confidence = IF p = 0 THEN "RecentlyVerified" ELSE IF p < 3 THEN "Verified" ELSE "Stale"
  BY <1>13, BandBadge
<1>17. Confidence' = IF q = 0 THEN "RecentlyVerified" ELSE IF q < 3 THEN "Verified" ELSE "Stale"
  BY <1>14, BandBadge
<1> QED BY <1>3, <1>12, <1>15, <1>16, <1>17

\* What the badges promise: whatever riders say and take back by leaving, and
\* whatever request is cut short, freshness keeps up with the confirmations,
\* no number of riders outvotes one who says the listing is gone, and time
\* alone makes no listing look better (record_verification, confidence).
THEOREM BadgesHonest == SignalsSpec => BadgesAreHonest
<1>1. SignalsInv => SignalsTypeOK /\ FreshnessKeepsUp
  BY DEF SignalsInv
<1>2. SignalsInv /\ SignalsInv' /\ [SignalsNext]_signalVars =>
        [Confidence = "Conflicting" /\ Confidence' # "Conflicting" =>
           \E i \in LatestExistence :
             /\ signal[i].result = "no_longer_exists"
             /\ \/ gone' # gone
                \/ Len(signal') > Len(signal) /\ signal'[Len(signal')].user = signal[i].user]_signalVars
  BY ConflictStep
<1>3. SignalsInv /\ [SignalsNext]_signalVars =>
        [today' > today /\ Confidence \in DOMAIN Rank =>
           Confidence' \in DOMAIN Rank /\ Rank[Confidence'] <= Rank[Confidence]]_signalVars
  BY DecayStep
<1> QED BY <1>1, <1>2, <1>3, SignalsInductive, PTL
        DEF SignalsSpec, BadgesAreHonest, ConflictIsNotOutvoted, ConfidenceDecays
=============================================================================
