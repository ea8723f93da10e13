--------------------------- MODULE JobQueueProofs ---------------------------
(***************************************************************************)
(* Proofs about the work behind the site: the job queue (JobQueue), for    *)
(* every number of workers, jobs, attempts and faults, the admission of    *)
(* CPU work (Admission) and the exports of personal data (Exports), for    *)
(* every number of callers, permits, places, clients and exports.          *)
(***************************************************************************)
EXTENDS JobQueue, Admission, Exports, FiniteSetTheorems, SequenceTheorems, TLAPS

-----------------------------------------------------------------------------
(* Lemmas about the operators on rows. *)

\* NoRow, NewRow, Requeued, Settled, Cancelled and ClaimedRow build rows.
LEMMA NewRowType ==
  /\ NoRow \in Row
  /\ \A s \in Schedules, t \in Int : NewRow(s, t) \in Row
BY DEF NoRow, NewRow, Row, States, Open, Schedules

LEMMA RequeuedType ==
  \A row \in Row, n \in Nat, t \in Int : Requeued(row, n, t) \in Row
BY DEF Requeued, Row, States, Open

LEMMA SettledType ==
  ASSUME TypeOK, NEW j \in Jobs, NEW s \in Terminal
  PROVE  Settled(j, s) \in Row
<1>1. rows[j] \in Row
  BY DEF TypeOK
<1> QED BY <1>1 DEF Settled, Row, States, Terminal

LEMMA CancelledType ==
  ASSUME TypeOK, NEW j \in Jobs
  PROVE  Cancelled(j) \in Row
<1>1. rows[j] \in Row
  BY DEF TypeOK
<1>2. CASE rows[j].state \in Open
  BY <1>1, <1>2 DEF Cancelled, Row, States, Terminal
<1>3. CASE rows[j].state \notin Open
  BY <1>1, <1>3 DEF Cancelled, Row, States
<1> QED BY <1>2, <1>3

LEMMA ClaimedRowType ==
  ASSUME TypeOK, NEW j \in Jobs, NEW o \in Owners, NEW ttl \in Int
  PROVE  ClaimedRow(j, o, ttl) \in Row
<1>1. rows[j] \in Row
  BY DEF TypeOK
<1> QED BY <1>1 DEF ClaimedRow, Row, States, Open

LEMMA NewAttemptType ==
  ASSUME TypeOK, NEW j \in Jobs, NEW o \in Owners
  PROVE  NewAttempt(j, o) \in Attempt
<1>1. rows[j] \in Row
  BY DEF TypeOK
<1> QED BY <1>1 DEF NewAttempt, Attempt, Row, Outcomes

\* What register_recurring makes of a row is a row.
LEMMA ReconciledType ==
  ASSUME NEW row \in Row
  PROVE  Reconciled(row) \in Row
<1>1. CASE row.state = "absent"
  BY <1>1, NewRowType DEF Reconciled, Schedules
<1>2. CASE row.state = "pending"
  BY <1>2 DEF Reconciled, Row, Schedules
<1>3. CASE row.state = "running"
  BY <1>3 DEF Reconciled
<1>4. CASE row.state \in Terminal
  <2>1. /\ Requeued(row, 0, Period) \in Row
        /\ [Requeued(row, 0, 0) EXCEPT !.schedule = "every"] \in Row
    BY RequeuedType, NumbersOK DEF Row, Schedules
  <2> QED BY <1>4, <2>1 DEF Reconciled, Terminal
<1> QED BY <1>1, <1>2, <1>3, <1>4 DEF Row, States, Open

\* Of finitely many rows, finitely many are due: the rank Tick gives a due row
\* is an integer.
LEMMA RunAtAfterTickType ==
  ASSUME TypeOK, NEW t \in Int
  PROVE  RunAtAfterTick(t) \in Int
<1>1. IsFiniteSet(DueLater(After(t)))
  BY NoOwnerOK, FS_Subset DEF DueLater
<1>2. Cardinality(DueLater(After(t))) \in Nat
  BY <1>1, FS_CardinalityType
<1> QED BY <1>2 DEF RunAtAfterTick, After

\* What an outcome may write is a row.
LEMMA OutcomeRowsType ==
  ASSUME TypeOK, NEW a \in active, a.pc \in Outcomes
  PROVE  OutcomeRows(a) \subseteq Row
<1>1. a.job \in Jobs /\ a.schedule \in Schedules /\ rows[a.job] \in Row
  BY DEF TypeOK, Attempt
<1>2. rows[a.job].attempts \in Nat
  BY <1>1 DEF Row
<1>3. /\ Settled(a.job, "failed") \in Row
      /\ Settled(a.job, "succeeded") \in Row
      /\ Requeued(rows[a.job], 0, Period) \in Row
  BY <1>1, SettledType, RequeuedType, NumbersOK DEF Terminal
<1>4. Retry(a) \subseteq Row
  <2>1. Backoff(a.attempts) \subseteq Int /\ {InlineDelay} \subseteq Int
    BY NumbersOK DEF Backoff
  <2> QED BY <1>1, <1>2, <2>1, RequeuedType DEF Retry
<1>5. FinishSuccess(a) \subseteq Row /\ GiveUp(a) \subseteq Row
  BY <1>1, <1>3 DEF FinishSuccess, GiveUp, Schedules
<1> QED BY <1>3, <1>4, <1>5 DEF OutcomeRows, Outcomes

\* What a handler leaves behind is a table.
LEMMA TablesAfterType ==
  ASSUME TypeOK, NEW j \in Jobs, NEW outcome
  PROVE  TablesAfter(j, outcome) \subseteq [Jobs -> Row]
<1>1. rows \in [Jobs -> Row]
  BY DEF TypeOK
<1>2. Collected \in [Jobs -> Row]
  BY <1>1, NewRowType DEF Collected
<1>3. \A mails : CancelMail(mails) \in [Jobs -> Row]
  BY <1>1, CancelledType DEF CancelMail
<1> QED BY <1>1, <1>2, <1>3 DEF TablesAfter

-----------------------------------------------------------------------------
(* Type correctness. *)

LEMMA TypeInit == Init => TypeOK
<1> SUFFICES ASSUME Init PROVE TypeOK
  OBVIOUS
<1>1. rows \in [Jobs -> Row]
  BY NewRowType, LegacyOK DEF Init
<1> QED BY <1>1, NumbersOK DEF Init, TypeOK

LEMMA TypeWorkerStep ==
  ASSUME TypeOK, NEW w \in Workers, WorkerStep(w)
  PROVE  TypeOK'
<1> USE NumbersOK DEF TypeOK
<1>1. CASE Start(w)
  BY <1>1 DEF Start
<1>2. ASSUME NEW j \in Recurring, Register(w, j)
      PROVE  TypeOK'
  <2>1. rows' \in [Jobs -> Row]
    BY <1>2, ReconciledType DEF Register, Jobs
  <2> QED BY <1>2, <2>1 DEF Register
<1>3. ASSUME NEW j \in Recurring, RegisterDeferred(w, j)
      PROVE  TypeOK'
  BY <1>3 DEF RegisterDeferred
<1>4. ASSUME NEW j \in Recurring, RegisterError(w, j)
      PROVE  TypeOK'
  BY <1>4 DEF RegisterError, Fault
<1>5. CASE BootstrapEnds(w)
  BY <1>5 DEF BootstrapEnds
<1>6. CASE BootstrapAgain(w)
  BY <1>6 DEF BootstrapAgain
<1>7. CASE FinalizeExhaustedLeases(w)
  <2>1. \A j \in Jobs : Finalized(j) \in Row
    <3> TAKE j \in Jobs
    <3>1. rows[j] \in Row
      OBVIOUS
    <3> QED BY <3>1, SettledType, RequeuedType DEF Finalized, Terminal
  <2> QED BY <1>7, <2>1 DEF FinalizeExhaustedLeases
<1>8. ASSUME NEW j \in Jobs, Claim(w, j)
      PROVE  TypeOK'
  BY <1>8, ClaimedRowType, NewAttemptType DEF Claim
<1>9. ASSUME NEW j \in Jobs, ClaimLost(w, j)
      PROVE  TypeOK'
  BY <1>9, ClaimedRowType DEF ClaimLost, Fault
<1>10. CASE NothingDue(w)
  BY <1>10 DEF NothingDue
<1>11. CASE Shutdown(w)
  BY <1>11 DEF Shutdown, Fault
<1>12. CASE Stop(w)
  BY <1>12 DEF Stop
<1>13. CASE Crash(w)
  BY <1>13 DEF Crash, Fault
<1> QED BY <1>1, <1>2, <1>3, <1>4, <1>5, <1>6, <1>7, <1>8, <1>9, <1>10, <1>11, <1>12, <1>13
        DEF WorkerStep

LEMMA TypeAttemptStep ==
  ASSUME TypeOK, NEW a \in active, AttemptStep(a)
  PROVE  TypeOK'
<1> USE NumbersOK DEF TypeOK, workerVars
<1>a. a \in Attempt /\ a.job \in Jobs
  BY DEF Attempt
<1>1. ASSUME NEW outcome \in {"ok", "failed", "permanent"}, HandlerEnds(a, outcome)
      PROVE  TypeOK'
  <2>1. [a EXCEPT !.pc = outcome] \in Attempt
    BY <1>a DEF Attempt, Outcomes
  <2> QED BY <1>1, <1>a, <2>1, TablesAfterType DEF HandlerEnds, Advance
<1>2. CASE Heartbeat(a)
  BY <1>2, <1>a DEF Heartbeat, Row
<1>3. HeartbeatStops(a) => active' \in SUBSET Attempt
  <2>1. [a EXCEPT !.heartbeat = FALSE] \in Attempt
    BY <1>a DEF Attempt
  <2> QED BY <2>1 DEF HeartbeatStops, Ends, Advance
<1>4. CASE HeartbeatLost(a)
  BY <1>3, <1>4 DEF HeartbeatLost
<1>5. CASE HeartbeatError(a)
  BY <1>3, <1>5 DEF HeartbeatError, Fault
<1>6. CASE WriteOutcome(a)
  BY <1>6, <1>a, OutcomeRowsType DEF WriteOutcome, Ends
<1>7. CASE OutcomeLost(a)
  BY <1>7 DEF OutcomeLost, Fault, Ends
<1> QED BY <1>1, <1>2, <1>4, <1>5, <1>6, <1>7 DEF AttemptStep

LEMMA TypeNext == TypeOK /\ [Next]_vars => TypeOK'
<1> SUFFICES ASSUME TypeOK, [Next]_vars PROVE TypeOK'
  OBVIOUS
<1> USE DEF workerVars
<1>1. CASE Tick
  <2>1. \A j \in Jobs : [rows[j] EXCEPT !.run_at = RunAtAfterTick(@),
                                        !.lease = LeaseAfterTick(@)] \in Row
    <3> TAKE j \in Jobs
    <3>1. rows[j] \in Row
      BY DEF TypeOK
    <3>2. RunAtAfterTick(rows[j].run_at) \in Int /\ LeaseAfterTick(rows[j].lease) \in Int
      BY <3>1, RunAtAfterTickType DEF Row, LeaseAfterTick, After
    <3> QED BY <3>1, <3>2 DEF Row
  <2> QED BY <1>1, <2>1 DEF Tick, TypeOK
<1>2. ASSUME NEW j \in Jobs, Age(j)
      PROVE  TypeOK'
  BY <1>2 DEF Age, TypeOK, Row
<1>3. ASSUME NEW j \in OneShot, NEW t \in Int, Enqueue(j, t)
      PROVE  TypeOK'
  BY <1>3, NewRowType DEF Enqueue, TypeOK, Jobs, Schedules
<1>4. ASSUME NEW w \in Workers, WorkerStep(w)
      PROVE  TypeOK'
  BY <1>4, TypeWorkerStep
<1>5. ASSUME NEW i \in Inliners, InlineDropped(i)
      PROVE  TypeOK'
  BY <1>5, NumbersOK DEF InlineDropped, Fault, TypeOK
<1>6. ASSUME NEW i \in Inliners, NEW j \in Mail, InlineClaim(i, j)
      PROVE  TypeOK'
  BY <1>6, ClaimedRowType, NewAttemptType, NumbersOK DEF InlineClaim, TypeOK, Jobs, OneShot
<1>7. ASSUME NEW a \in active, AttemptStep(a)
      PROVE  TypeOK'
  BY <1>7, TypeAttemptStep
<1>8. ASSUME NEW mails \in SUBSET Mail, Anonymize(mails)
      PROVE  TypeOK'
  BY <1>8, CancelledType DEF Anonymize, CancelMail, TypeOK
<1>9. ASSUME NEW mails \in SUBSET Mail, RetireExhausted(mails)
      PROVE  TypeOK'
  BY <1>9, SettledType DEF RetireExhausted, TypeOK, Terminal
<1>10. CASE UNCHANGED vars
  BY <1>10 DEF vars, TypeOK
<1> QED BY <1>1, <1>2, <1>3, <1>4, <1>5, <1>6, <1>7, <1>8, <1>9, <1>10, NumbersOK
        DEF Next, OneShot

\* Every reachable state is one the table's columns and the worker's fields
\* can hold, for every configuration of the queue.
THEOREM TypeCorrect == Spec => []TypeOK
BY TypeInit, TypeNext, PTL DEF Spec

-----------------------------------------------------------------------------
(* The inductive invariant.  A step is seen through what it does to a row: *)
(* the row stays Good; a row that keeps its claim keeps what the claimer   *)
(* read (RowKept); a scheduled recurring row stays scheduled and a settled    *)
(* one-shot row stays settled (Stays).                                     *)

Good(j, row) ==
  /\ row.state = "pending" => row.attempts < MaxAttempts
  /\ row.state = "running" => row.attempts \in 1..MaxAttempts
  /\ row.claimed_by # NoOwner => row.state = "running"
  /\ j \in Mail /\ row.state \in Terminal => row.redacted

RowKept(j, row) ==
  row.claimed_by # NoOwner => /\ row.claimed_by = rows[j].claimed_by
                              /\ row.attempts = rows[j].attempts
                              /\ row.schedule = rows[j].schedule

Stays(j, row) ==
  /\ j \in Recurring /\ Scheduled(j) => row.schedule = "every" /\ row.state \in Open
  /\ j \in OneShot /\ rows[j].state \in Terminal => row.state \in {rows[j].state, "absent"}

\* The invariants about rows say that every row is good.
LEMMA GoodIsInvariant ==
  ASSUME IInv
  PROVE  \A j \in Jobs : rows[j] \in Row /\ Good(j, rows[j])
BY DEF IInv, TypeOK, BudgetRespected, TerminalMailIsRedacted, OwnedRowsRun, Good, Jobs, OneShot

\* Rows that are new, put back with budget left, or settled are good and free.
LEMMA FreshRows ==
  ASSUME NEW j \in Jobs
  PROVE  /\ Good(j, NoRow) /\ RowKept(j, NoRow)
         /\ \A s, t : Good(j, NewRow(s, t)) /\ RowKept(j, NewRow(s, t))
BY NumbersOK DEF Good, RowKept, NoRow, NewRow, Terminal

LEMMA RequeuedRows ==
  ASSUME NEW j \in Jobs, NEW row, NEW t, NEW n \in Nat, n < MaxAttempts
  PROVE  /\ Good(j, Requeued(row, n, t)) /\ RowKept(j, Requeued(row, n, t))
         /\ row.schedule = "every" =>
              Requeued(row, n, t).schedule = "every" /\ Requeued(row, n, t).state \in Open
BY DEF Good, RowKept, Requeued, Terminal, Open

LEMMA SettledRows ==
  ASSUME NEW j \in Jobs, NEW s \in Terminal
  PROVE  Good(j, Settled(j, s)) /\ RowKept(j, Settled(j, s))
BY DEF Good, RowKept, Settled, Terminal

\* Cancelling touches only mail, and leaves it redacted and unclaimed.
LEMMA CancelledRows ==
  ASSUME IInv, NEW mails \in SUBSET Mail, NEW j \in Jobs
  PROVE  Good(j, CancelMail(mails)[j]) /\ RowKept(j, CancelMail(mails)[j]) /\ Stays(j, CancelMail(mails)[j])
<1>1. rows[j] \in Row /\ Good(j, rows[j])
  BY GoodIsInvariant
<1>2. CASE j \in mails /\ Present(j)
  <2>1. Good(j, Cancelled(j)) /\ RowKept(j, Cancelled(j))
    BY <1>1, <1>2 DEF Good, RowKept, Cancelled, Row, States, Terminal, Open, Present
  <2>2. j \notin Recurring
    BY <1>2, JobsDisjoint DEF OneShot
  <2>3. rows[j].state \in Terminal => Cancelled(j).state = rows[j].state
    BY DEF Cancelled, Terminal, Open
  <2> QED BY <1>2, <2>1, <2>2, <2>3 DEF CancelMail, Stays
<1>3. CASE ~(j \in mails /\ Present(j))
  BY <1>1, <1>3 DEF CancelMail, RowKept, Stays, Scheduled
<1> QED BY <1>2, <1>3

\* jobs.gc removes settled rows only, so no claim and no schedule.
LEMMA CollectedRows ==
  ASSUME IInv, NEW j \in Jobs
  PROVE  Good(j, Collected[j]) /\ RowKept(j, Collected[j]) /\ Stays(j, Collected[j])
<1>1. rows[j] \in Row /\ Good(j, rows[j])
  BY GoodIsInvariant
<1>2. CASE Collected[j] = rows[j]
  BY <1>1, <1>2 DEF RowKept, Stays, Scheduled
<1>3. CASE Collected[j] # rows[j]
  <2>1. Collected[j] = NoRow /\ rows[j].state \in Terminal
    BY <1>3 DEF Collected
  <2>2. ~Scheduled(j)
    BY <2>1 DEF Scheduled, Terminal, Open
  <2>3. NoRow.state = "absent" /\ Good(j, NoRow) /\ RowKept(j, NoRow)
    BY FreshRows DEF NoRow
  <2> QED BY <2>1, <2>2, <2>3 DEF Stays
<1> QED BY <1>2, <1>3

\* register_recurring leaves a running row alone and frees every other one.
LEMMA ReconciledRows ==
  ASSUME IInv, NEW j \in Jobs, j \in Recurring, Reconcilable(rows[j])
  PROVE  /\ Good(j, Reconciled(rows[j])) /\ RowKept(j, Reconciled(rows[j]))
         /\ Reconciled(rows[j]).schedule = "every" /\ Reconciled(rows[j]).state \in Open
<1>1. rows[j] \in Row /\ Good(j, rows[j])
  BY GoodIsInvariant
<1>2. CASE rows[j].state = "absent"
  BY <1>2, FreshRows DEF Reconciled, NewRow, Open
<1>3. CASE rows[j].state = "pending"
  BY <1>1, <1>3 DEF Reconciled, Good, RowKept, Row, Open, Terminal
<1>4. CASE rows[j].state = "running"
  BY <1>1, <1>4 DEF Reconciled, Reconcilable, RowKept, Row, Schedules, Open
<1>5. CASE rows[j].state \in Terminal
  <2>1. 0 \in Nat /\ 0 < MaxAttempts
    BY NumbersOK
  <2>2. /\ Good(j, Requeued(rows[j], 0, Period)) /\ RowKept(j, Requeued(rows[j], 0, Period))
        /\ rows[j].schedule = "every" => /\ Requeued(rows[j], 0, Period).schedule = "every"
                                         /\ Requeued(rows[j], 0, Period).state \in Open
    BY <2>1, RequeuedRows
  <2> DEFINE again == [Requeued(rows[j], 0, 0) EXCEPT !.schedule = "every"]
  <2>3. Good(j, again) /\ RowKept(j, again) /\ again.schedule = "every" /\ again.state \in Open
    BY NumbersOK DEF Good, RowKept, Requeued, Terminal, Open
  <2>4. Reconciled(rows[j]) \in {Requeued(rows[j], 0, Period), again}
        /\ (Reconciled(rows[j]) # again => rows[j].schedule = "every")
    BY <1>5 DEF Reconciled, Terminal
  <2> HIDE DEF again
  <2> QED BY <2>2, <2>3, <2>4
<1> QED BY <1>1, <1>2, <1>3, <1>4, <1>5 DEF Row, States, Open

\* A claim burns one attempt of a row that had one left.
LEMMA ClaimedRows ==
  ASSUME IInv, NEW j \in Jobs, NEW o, NEW ttl, Due(j),
         \/ rows[j].state = "pending"
         \/ rows[j].state = "running" /\ ~Exhausted(j)
  PROVE  Good(j, ClaimedRow(j, o, ttl)) /\ Stays(j, ClaimedRow(j, o, ttl))
<1>1. rows[j] \in Row /\ Good(j, rows[j])
  BY GoodIsInvariant
<1>2. rows[j].attempts \in Nat /\ rows[j].attempts < MaxAttempts
  BY <1>1, NumbersOK DEF Good, Exhausted, Row
<1>3. rows[j].state \notin Terminal
  BY DEF Terminal
<1> QED BY <1>2, <1>3, NumbersOK DEF Good, Stays, Scheduled, ClaimedRow, Terminal, Open

\* What the holder of a claim may write: it frees the row, within the budget,
\* and a recurring row goes back to its schedule.
LEMMA OutcomeIsGood ==
  ASSUME IInv, NEW a \in active, a.pc \in Outcomes, Holds(a), NEW row \in OutcomeRows(a)
  PROVE  Good(a.job, row) /\ RowKept(a.job, row) /\ Stays(a.job, row)
<1> DEFINE j == a.job
<1>1. /\ j \in Jobs /\ a.owner \in Owners /\ a.schedule \in Schedules /\ a.attempts \in Nat
      /\ a.owner # NoOwner
  BY NoOwnerOK DEF IInv, TypeOK, Attempt
<1>2. a.attempts = rows[j].attempts /\ a.schedule = rows[j].schedule
  BY DEF IInv, ClaimSnapshot, Holds
<1>3. 0 \in Nat /\ 0 < MaxAttempts /\ rows[j].state \notin Terminal
  BY NumbersOK DEF Holds, Terminal
<1>4. ASSUME NEW s \in Terminal, row = Settled(j, s), a.schedule # "every" \/ j \notin Recurring
      PROVE  Good(j, row) /\ RowKept(j, row) /\ Stays(j, row)
  BY <1>1, <1>2, <1>3, <1>4, SettledRows DEF Stays, Scheduled
<1>5. ASSUME NEW t, NEW n \in Nat, n < MaxAttempts, row = Requeued(rows[j], n, t)
      PROVE  Good(j, row) /\ RowKept(j, row) /\ Stays(j, row)
  BY <1>1, <1>3, <1>5, RequeuedRows DEF Stays, Scheduled
<1>6. ASSUME row \in FinishSuccess(a)
      PROVE  Good(j, row) /\ RowKept(j, row) /\ Stays(j, row)
  <2>1. CASE a.schedule = "every"
    BY <1>3, <1>5, <1>6, <2>1 DEF FinishSuccess
  <2>2. CASE a.schedule # "every"
    BY <1>1, <1>4, <1>6, <2>2 DEF FinishSuccess, Schedules, Terminal
  <2> QED BY <2>1, <2>2
<1>7. ASSUME row \in GiveUp(a)
      PROVE  Good(j, row) /\ RowKept(j, row) /\ Stays(j, row)
  <2>1. CASE a.schedule = "every"
    BY <1>3, <1>5, <1>7, <2>1 DEF GiveUp
  <2>2. CASE a.schedule # "every"
    BY <1>4, <1>7, <2>2 DEF GiveUp, Terminal
  <2> QED BY <2>1, <2>2
<1>8. ASSUME row \in Retry(a), a.attempts < MaxAttempts
      PROVE  Good(j, row) /\ RowKept(j, row) /\ Stays(j, row)
  <2>1. PICK t : row = Requeued(rows[j], rows[j].attempts, t)
    BY <1>8 DEF Retry
  <2> QED BY <1>1, <1>2, <1>5, <1>8, <2>1
<1>9. CASE a.pc = "ok"
  BY <1>6, <1>9 DEF OutcomeRows
<1>10. CASE a.pc = "failed"
  BY <1>7, <1>8, <1>10 DEF OutcomeRows
<1>11. CASE a.pc = "permanent"
  BY <1>7, <1>11 DEF OutcomeRows
<1>12. CASE a.pc = "nohandler"
  <2>1. j \notin Recurring
    BY <1>12, JobsDisjoint DEF IInv, HandlerlessIsPlain, OneShot
  <2> QED BY <1>4, <1>12, <2>1 DEF OutcomeRows, Terminal
<1> QED BY <1>9, <1>10, <1>11, <1>12 DEF Outcomes

\* The steps that take a claim; all others only keep or free rows.
ClaimStep(j, o) ==
  /\ \E ttl \in Int : rows' = [rows EXCEPT ![j] = ClaimedRow(j, o, ttl)]
  /\ o \in Owners /\ FreshOwner(o)
  /\ active' \in {active, active \cup {NewAttempt(j, o)}}

\* No step but a claim gives anybody a row, and every step leaves all rows good
\* and all schedules in place.
LEMMA RowStep ==
  ASSUME IInv, [Next]_vars
  PROVE  /\ \A j \in Jobs : Good(j, rows'[j]) /\ Stays(j, rows'[j])
         /\ \/ \A j \in Jobs : RowKept(j, rows'[j])
            \/ \E j \in Jobs, o \in Owners : ClaimStep(j, o)
<1> DEFINE Quiet == \A j \in Jobs : Good(j, rows'[j]) /\ Stays(j, rows'[j]) /\ RowKept(j, rows'[j])
           Claims == /\ \A j \in Jobs : Good(j, rows'[j]) /\ Stays(j, rows'[j])
                     /\ \E j \in Jobs, o \in Owners : ClaimStep(j, o)
<1>0. /\ rows \in [Jobs -> Row]
      /\ \A j \in Jobs : /\ rows[j] \in Row /\ Good(j, rows[j])
                         /\ Stays(j, rows[j]) /\ RowKept(j, rows[j])
  BY GoodIsInvariant DEF Stays, RowKept, Scheduled, IInv, TypeOK
<1>1. ASSUME rows' = rows
      PROVE  Quiet
  BY <1>0, <1>1
<1>2. ASSUME Tick
      PROVE  Quiet
  <2> SUFFICES ASSUME NEW j \in Jobs
               PROVE  Good(j, rows'[j]) /\ Stays(j, rows'[j]) /\ RowKept(j, rows'[j])
    OBVIOUS
  <2>1. /\ rows'[j].state = rows[j].state /\ rows'[j].attempts = rows[j].attempts
        /\ rows'[j].schedule = rows[j].schedule /\ rows'[j].claimed_by = rows[j].claimed_by
        /\ rows'[j].redacted = rows[j].redacted
    BY <1>0, <1>2 DEF Tick, Row
  <2> QED BY <1>0, <2>1 DEF Good, Stays, RowKept, Scheduled
<1>3. ASSUME NEW k \in Jobs, Age(k)
      PROVE  Quiet
  <2> SUFFICES ASSUME NEW j \in Jobs
               PROVE  Good(j, rows'[j]) /\ Stays(j, rows'[j]) /\ RowKept(j, rows'[j])
    OBVIOUS
  <2>1. /\ rows'[j].state = rows[j].state /\ rows'[j].attempts = rows[j].attempts
        /\ rows'[j].schedule = rows[j].schedule /\ rows'[j].claimed_by = rows[j].claimed_by
        /\ rows'[j].redacted = rows[j].redacted
    BY <1>0, <1>3 DEF Age, Row
  <2> QED BY <1>0, <2>1 DEF Good, Stays, RowKept, Scheduled
<1>4. ASSUME NEW k \in OneShot, NEW t, Enqueue(k, t)
      PROVE  Quiet
  <2>1. k \in Jobs /\ k \notin Recurring /\ rows[k].state \notin Terminal
    BY <1>4, JobsDisjoint DEF Jobs, Enqueue, Present, Terminal
  <2>2. Good(k, NewRow("none", t)) /\ RowKept(k, NewRow("none", t)) /\ Stays(k, NewRow("none", t))
    BY <2>1, FreshRows DEF Stays
  <2>3. \A j \in Jobs : rows'[j] = IF j = k THEN NewRow("none", t) ELSE rows[j]
    BY <1>0, <1>4 DEF Enqueue
  <2> QED BY <1>0, <2>2, <2>3
<1>5. ASSUME NEW w \in Workers, NEW k \in Recurring, Register(w, k)
      PROVE  Quiet
  <2>1. k \in Jobs /\ Reconcilable(rows[k])
    BY <1>5 DEF Register, Jobs
  <2>2. Good(k, Reconciled(rows[k])) /\ RowKept(k, Reconciled(rows[k])) /\ Stays(k, Reconciled(rows[k]))
    BY <2>1, ReconciledRows, JobsDisjoint DEF Stays
  <2>3. \A j \in Jobs : rows'[j] = IF j = k THEN Reconciled(rows[k]) ELSE rows[j]
    BY <1>0, <1>5 DEF Register
  <2> QED BY <1>0, <2>2, <2>3
<1>6. ASSUME NEW w \in Workers, FinalizeExhaustedLeases(w)
      PROVE  Quiet
  <2> SUFFICES ASSUME NEW j \in Jobs
               PROVE  Good(j, rows'[j]) /\ Stays(j, rows'[j]) /\ RowKept(j, rows'[j])
    OBVIOUS
  <2>1. rows'[j] = rows[j] \/ (rows[j].state \notin Terminal /\ rows'[j] = Finalized(j))
    BY <1>6 DEF FinalizeExhaustedLeases, ExhaustedLease, Terminal
  <2>2. ASSUME rows[j].state \notin Terminal
        PROVE  Good(j, Finalized(j)) /\ RowKept(j, Finalized(j)) /\ Stays(j, Finalized(j))
    <3>1. CASE rows[j].schedule = "every"
      BY <2>2, <3>1, RequeuedRows, NumbersOK DEF Finalized, Stays
    <3>2. CASE rows[j].schedule # "every"
      BY <2>2, <3>2, SettledRows DEF Finalized, Stays, Scheduled, Terminal
    <3> QED BY <3>1, <3>2
  <2> QED BY <1>0, <2>1, <2>2
<1>7. ASSUME NEW k \in Jobs, NEW o \in Owners, ClaimStep(k, o), Due(k),
             rows[k].state = "pending" \/ (rows[k].state = "running" /\ ~Exhausted(k))
      PROVE  Claims
  <2>1. PICK ttl \in Int : rows' = [rows EXCEPT ![k] = ClaimedRow(k, o, ttl)]
    BY <1>7 DEF ClaimStep
  <2>2. \A j \in Jobs : rows'[j] = IF j = k THEN ClaimedRow(k, o, ttl) ELSE rows[j]
    BY <1>0, <2>1
  <2>3. Good(k, ClaimedRow(k, o, ttl)) /\ Stays(k, ClaimedRow(k, o, ttl))
    BY <1>7, ClaimedRows
  <2> QED BY <1>0, <1>7, <2>2, <2>3
<1>8. ASSUME NEW w \in Workers, NEW k \in Jobs, Claim(w, k) \/ ClaimLost(w, k)
      PROVE  Claims
  <2>1. PICK o \in Owners : ClaimStep(k, o)
    BY <1>8, NumbersOK DEF Claim, ClaimLost, NextOwner, ClaimStep
  <2> QED BY <1>7, <1>8, <2>1 DEF Claim, ClaimLost, Oldest, Claimable
<1>9. ASSUME NEW i \in Inliners, NEW k \in Mail, InlineClaim(i, k)
      PROVE  Claims
  <2>0. PICK o \in Owners : /\ NextOwner(o)
                            /\ rows' = [rows EXCEPT ![k] = ClaimedRow(k, o, InlineLease)]
                            /\ active' = active \cup {NewAttempt(k, o)}
    BY <1>9 DEF InlineClaim
  <2>1. ClaimStep(k, o)
    <3>1. InlineLease \in Int
      BY NumbersOK
    <3>2. FreshOwner(o)
      BY <2>0 DEF NextOwner
    <3> QED BY <2>0, <3>1, <3>2, Zenon DEF ClaimStep
  <2> QED BY <1>7, <1>9, <2>1 DEF InlineClaim, InlineClaimable, Jobs, OneShot
<1>10. ASSUME NEW a \in active, NEW outcome, HandlerEnds(a, outcome)
       PROVE  Quiet
  <2>1. rows' \in {rows, Collected} \cup {CancelMail(expired) : expired \in SUBSET Mail}
    BY <1>10 DEF HandlerEnds, TablesAfter
  <2> QED BY <1>1, <2>1, CollectedRows, CancelledRows
<1>11. ASSUME NEW a \in active, Heartbeat(a)
       PROVE  Quiet
  <2> SUFFICES ASSUME NEW j \in Jobs
               PROVE  Good(j, rows'[j]) /\ Stays(j, rows'[j]) /\ RowKept(j, rows'[j])
    OBVIOUS
  <2>1. /\ rows'[j].state = rows[j].state /\ rows'[j].attempts = rows[j].attempts
        /\ rows'[j].schedule = rows[j].schedule /\ rows'[j].claimed_by = rows[j].claimed_by
        /\ rows'[j].redacted = rows[j].redacted
    BY <1>0, <1>11 DEF Heartbeat, Row
  <2> QED BY <1>0, <2>1 DEF Good, Stays, RowKept, Scheduled
<1>12. ASSUME NEW a \in active, WriteOutcome(a)
       PROVE  Quiet
  <2>1. CASE rows' = rows
    BY <1>1, <2>1
  <2>2. ASSUME Holds(a), NEW row \in OutcomeRows(a), rows' = [rows EXCEPT ![a.job] = row]
        PROVE  Quiet
    <3>1. Good(a.job, row) /\ RowKept(a.job, row) /\ Stays(a.job, row)
      BY <1>12, <2>2, OutcomeIsGood DEF WriteOutcome
    <3>2. \A j \in Jobs : rows'[j] = IF j = a.job THEN row ELSE rows[j]
      BY <1>0, <2>2
    <3> QED BY <1>0, <3>1, <3>2
  <2> QED BY <1>12, <2>1, <2>2 DEF WriteOutcome
<1>13. ASSUME NEW mails \in SUBSET Mail, Anonymize(mails)
       PROVE  Quiet
  BY <1>13, CancelledRows DEF Anonymize
<1>14. ASSUME NEW mails \in SUBSET Mail, RetireExhausted(mails)
       PROVE  Quiet
  <2> SUFFICES ASSUME NEW j \in Jobs
               PROVE  Good(j, rows'[j]) /\ Stays(j, rows'[j]) /\ RowKept(j, rows'[j])
    OBVIOUS
  <2>1. \/ rows'[j] = rows[j]
        \/ j \in Mail /\ rows[j].state \notin Terminal /\ rows'[j] = Settled(j, "failed")
    BY <1>14 DEF RetireExhausted, Terminal
  <2>2. j \in Mail => j \notin Recurring
    BY JobsDisjoint DEF OneShot
  <2> QED BY <1>0, <2>1, <2>2, SettledRows DEF Stays, Terminal
<1>15. ASSUME NEW w \in Workers, WorkerStep(w)
       PROVE  Quiet \/ Claims
  <2>1. \/ rows' = rows
        \/ \E k \in Recurring : Register(w, k)
        \/ FinalizeExhaustedLeases(w)
        \/ \E k \in Jobs : Claim(w, k) \/ ClaimLost(w, k)
    BY <1>15 DEF WorkerStep, Start, RegisterDeferred, RegisterError, BootstrapEnds,
         BootstrapAgain, NothingDue, Shutdown, Stop, Crash
  <2> HIDE DEF Quiet, Claims
  <2> QED BY <1>1, <1>5, <1>6, <1>8, <2>1
<1>16. ASSUME NEW a \in active, AttemptStep(a)
       PROVE  Quiet
  <2>1. \/ rows' = rows
        \/ \E outcome : HandlerEnds(a, outcome)
        \/ Heartbeat(a) \/ WriteOutcome(a)
    BY <1>16 DEF AttemptStep, HeartbeatLost, HeartbeatError, OutcomeLost
  <2> HIDE DEF Quiet
  <2> QED BY <1>1, <1>10, <1>11, <1>12, <2>1
<1>17. Quiet \/ Claims
  <2> HIDE DEF Quiet, Claims
  <2>1. \A i \in Inliners : InlineDropped(i) => rows' = rows
    BY DEF InlineDropped
  <2>2. UNCHANGED vars => rows' = rows
    BY DEF vars
  <2> QED BY <1>1, <1>2, <1>3, <1>4, <1>9, <1>13, <1>14, <1>15, <1>16, <2>1, <2>2
          DEF Next, OneShot
<1> QED BY <1>17

\* The same attempt, further on.
Onward(a, b) ==
  /\ b.owner = a.owner /\ b.job = a.job /\ b.attempts = a.attempts /\ b.schedule = a.schedule
  /\ b.pc = "nohandler" => a.pc = "nohandler"

\* Apart from claims, a step drops attempts or takes one of them further.
LEMMA ActiveStep ==
  ASSUME IInv, [Next]_vars
  PROVE  \/ active' \subseteq active
         \/ \E a \in active : \E b : Onward(a, b) /\ active' = (active \ {a}) \cup {b}
         \/ \E j \in Jobs, o \in Owners : ClaimStep(j, o)
<1> DEFINE Fewer == active' \subseteq active
           Further == \E a \in active : \E b : Onward(a, b) /\ active' = (active \ {a}) \cup {b}
           Claims == \E j \in Jobs, o \in Owners : ClaimStep(j, o)
<1>0. active \subseteq Attempt
  BY DEF IInv, TypeOK
<1>1. ASSUME NEW w \in Workers, NEW k \in Jobs, Claim(w, k) \/ ClaimLost(w, k)
      PROVE  Claims
  BY <1>1, NumbersOK DEF Claim, ClaimLost, NextOwner, ClaimStep
<1>2. ASSUME NEW w \in Workers, WorkerStep(w)
      PROVE  Fewer \/ Claims
  <2>1. Fewer \/ \E k \in Jobs : Claim(w, k) \/ ClaimLost(w, k)
    BY <1>2 DEF WorkerStep, Start, Register, RegisterDeferred, RegisterError, BootstrapEnds,
         BootstrapAgain, FinalizeExhaustedLeases, NothingDue, Shutdown, Stop, Crash
  <2> HIDE DEF Fewer, Claims
  <2> QED BY <1>1, <2>1
<1>3. ASSUME NEW i \in Inliners, NEW k \in Mail, InlineClaim(i, k)
      PROVE  Claims
  <2>1. PICK o \in Owners : /\ NextOwner(o)
                            /\ rows' = [rows EXCEPT ![k] = ClaimedRow(k, o, InlineLease)]
                            /\ active' = active \cup {NewAttempt(k, o)}
    BY <1>3 DEF InlineClaim
  <2>2. InlineLease \in Int
    BY NumbersOK
  <2>3. FreshOwner(o)
    BY <2>1 DEF NextOwner
  <2>4. ClaimStep(k, o)
    BY <2>1, <2>2, <2>3, Zenon DEF ClaimStep
  <2> QED BY <2>4 DEF Jobs, OneShot
<1>4. ASSUME NEW a \in active, AttemptStep(a)
      PROVE  Fewer \/ Further
  <2>0. a \in Attempt
    BY <1>0
  <2>1. ASSUME NEW outcome \in {"ok", "failed", "permanent"}, HandlerEnds(a, outcome)
        PROVE  Further
    <3>1. Onward(a, [a EXCEPT !.pc = outcome])
      BY <2>0 DEF Onward, Attempt
    <3> QED BY <2>1, <3>1 DEF HandlerEnds, Advance
  <2>2. ASSUME HeartbeatStops(a)
        PROVE  Fewer \/ Further
    <3>1. Onward(a, [a EXCEPT !.heartbeat = FALSE])
      BY <2>0 DEF Onward, Attempt
    <3> QED BY <2>2, <3>1 DEF HeartbeatStops, Advance, Ends
  <2>3. CASE Heartbeat(a)
    BY <2>3 DEF Heartbeat
  <2>4. CASE WriteOutcome(a) \/ OutcomeLost(a)
    BY <2>4 DEF WriteOutcome, OutcomeLost, Ends
  <2> HIDE DEF Fewer, Further
  <2> QED BY <1>4, <2>1, <2>2, <2>3, <2>4 DEF AttemptStep, HeartbeatLost, HeartbeatError
<1>5. ASSUME \/ Tick \/ \E j \in Jobs : Age(j)
             \/ \E j \in OneShot, t \in Int : Enqueue(j, t)
             \/ \E mails \in SUBSET Mail : Anonymize(mails) \/ RetireExhausted(mails)
             \/ \E i \in Inliners : InlineDropped(i)
             \/ UNCHANGED vars
      PROVE  Fewer
  BY <1>5 DEF Tick, Age, Enqueue, Anonymize, RetireExhausted, InlineDropped, vars
<1>6. Period \in Int /\ 0 \in Int
  BY NumbersOK
<1> HIDE DEF Fewer, Further, Claims
<1>7. Fewer \/ Further \/ Claims
  BY <1>2, <1>3, <1>4, <1>5, <1>6 DEF Next, OneShot
<1> QED BY <1>7 DEF Fewer, Further, Claims

\* Tokens stay unique and snapshots current.
LEMMA AttemptInvariants ==
  ASSUME IInv, [Next]_vars
  PROVE  ClaimsUnique' /\ ClaimSnapshot' /\ HandlerlessIsPlain'
<1>0. /\ rows \in [Jobs -> Row] /\ active \subseteq Attempt
      /\ \A a \in active : a.job \in Jobs /\ a.owner \in Owners /\ a.owner # NoOwner
  BY NoOwnerOK DEF IInv, TypeOK, Attempt
<1>1. ASSUME NEW j \in Jobs, NEW o \in Owners, ClaimStep(j, o)
      PROVE  ClaimsUnique' /\ ClaimSnapshot' /\ HandlerlessIsPlain'
  <2> DEFINE n == NewAttempt(j, o)
  <2>1. /\ n.owner = o /\ n.job = j /\ n.attempts = rows[j].attempts + 1
        /\ n.schedule = rows[j].schedule /\ (n.pc = "nohandler" => j \in Plain)
    BY JobsDisjoint DEF NewAttempt
  <2>2. PICK ttl \in Int : rows' = [rows EXCEPT ![j] = ClaimedRow(j, o, ttl)]
    BY <1>1 DEF ClaimStep
  <2>3. /\ rows'[j].claimed_by = o /\ rows'[j].attempts = rows[j].attempts + 1
        /\ rows'[j].schedule = rows[j].schedule
        /\ \A k \in Jobs : k # j => rows'[k] = rows[k]
    BY <1>0, <2>2 DEF ClaimedRow
  <2>4. active' = active \/ active' = active \cup {n}
    BY <1>1 DEF ClaimStep
  <2>5. \A a \in active : a.owner # o
    BY <1>1 DEF ClaimStep, FreshOwner
  <2> HIDE DEF n
  <2>6. ClaimsUnique'
    BY <2>1, <2>4, <2>5 DEF IInv, ClaimsUnique
  <2>7. ClaimSnapshot'
    BY <1>0, <2>1, <2>3, <2>4, <2>5 DEF IInv, ClaimSnapshot
  <2>8. HandlerlessIsPlain'
    BY <2>1, <2>4 DEF IInv, HandlerlessIsPlain
  <2> QED BY <2>6, <2>7, <2>8
<1>2. ASSUME \A j \in Jobs : RowKept(j, rows'[j]), active' \subseteq active
      PROVE  ClaimsUnique' /\ ClaimSnapshot' /\ HandlerlessIsPlain'
  <2>1. ClaimsUnique' /\ HandlerlessIsPlain'
    BY <1>2 DEF IInv, ClaimsUnique, HandlerlessIsPlain
  <2>2. ClaimSnapshot'
    BY <1>0, <1>2 DEF IInv, ClaimSnapshot, RowKept
  <2> QED BY <2>1, <2>2
<1>3. ASSUME \A j \in Jobs : RowKept(j, rows'[j]), NEW a \in active, NEW b, Onward(a, b),
             active' = (active \ {a}) \cup {b}
      PROVE  ClaimsUnique' /\ ClaimSnapshot' /\ HandlerlessIsPlain'
  <2>1. ClaimsUnique' /\ HandlerlessIsPlain'
    BY <1>3 DEF IInv, ClaimsUnique, HandlerlessIsPlain, Onward
  <2>2. ClaimSnapshot'
    BY <1>0, <1>3 DEF IInv, ClaimSnapshot, RowKept, Onward
  <2> QED BY <2>1, <2>2
<1> QED BY <1>1, <1>2, <1>3, RowStep, ActiveStep

\* Passes and flags: schedules are stable, so only the loop itself matters.
LEMMA BootstrapInvariants ==
  ASSUME IInv, [Next]_vars
  PROVE  PassHasScheduled' /\ BootstrappedMeansScheduled'
<1>1. \A j \in Recurring : Scheduled(j) => Scheduled(j)'
  BY RowStep DEF Stays, Scheduled, Jobs
<1>2. ASSUME UNCHANGED <<loop, todo, bootstrapped, incomplete>>
      PROVE  PassHasScheduled' /\ BootstrappedMeansScheduled'
  BY <1>1, <1>2 DEF IInv, PassHasScheduled, BootstrappedMeansScheduled, Scheduled
<1>3. ASSUME NEW w \in Workers, WorkerStep(w)
      PROVE  PassHasScheduled' /\ BootstrappedMeansScheduled'
  <2> USE DEF IInv, TypeOK
  <2>0. ASSUME bootstrapped' = bootstrapped \/ bootstrapped' = [bootstrapped EXCEPT ![w] = FALSE]
        PROVE  BootstrappedMeansScheduled'
    BY <1>1, <2>0 DEF BootstrappedMeansScheduled, Scheduled
  <2>a. ASSUME loop'[w] # "bootstrap" \/ todo'[w] = Recurring \/ incomplete'[w],
               \A v \in Workers \ {w} : /\ loop'[v] = loop[v] /\ todo'[v] = todo[v]
                                        /\ incomplete'[v] = incomplete[v]
        PROVE  PassHasScheduled'
    BY <1>1, <2>a DEF PassHasScheduled
  <2>1. CASE Start(w)
    BY <2>0, <2>a, <2>1 DEF Start
  <2>2. ASSUME NEW k \in Recurring, Register(w, k)
        PROVE  PassHasScheduled' /\ BootstrappedMeansScheduled'
    <3>1. Scheduled(k)'
      <4>1. k \in Jobs /\ Reconcilable(rows[k])
        BY <2>2 DEF Register, Jobs
      <4>2. rows'[k] = Reconciled(rows[k])
        BY <2>2, <4>1 DEF Register
      <4> QED BY <4>1, <4>2, ReconciledRows DEF Scheduled
    <3>2. PassHasScheduled'
      BY <1>1, <2>2, <3>1 DEF Register, PassHasScheduled
    <3> QED BY <2>0, <2>2, <3>2 DEF Register
  <2>3. ASSUME NEW k \in Recurring, RegisterDeferred(w, k) \/ RegisterError(w, k)
        PROVE  PassHasScheduled' /\ BootstrappedMeansScheduled'
    BY <2>0, <2>a, <2>3 DEF RegisterDeferred, RegisterError
  <2>4. CASE BootstrapEnds(w)
    <3>1. PassHasScheduled'
      BY <2>a, <2>4 DEF BootstrapEnds
    <3>2. CASE incomplete[w]
      BY <2>0, <2>4, <3>1, <3>2 DEF BootstrapEnds
    <3>3. CASE ~incomplete[w]
      <4>1. \A j \in Recurring : Scheduled(j)
        BY <2>4, <3>3 DEF BootstrapEnds, PassHasScheduled
      <4> QED BY <1>1, <3>1, <4>1 DEF BootstrappedMeansScheduled, Scheduled
    <3> QED BY <3>2, <3>3
  <2>5. CASE BootstrapAgain(w)
    BY <2>0, <2>a, <2>5 DEF BootstrapAgain
  <2>6. CASE FinalizeExhaustedLeases(w) \/ NothingDue(w)
    BY <2>0, <2>a, <2>6 DEF FinalizeExhaustedLeases, NothingDue
  <2>7. ASSUME NEW k \in Jobs, Claim(w, k) \/ ClaimLost(w, k)
        PROVE  PassHasScheduled' /\ BootstrappedMeansScheduled'
    BY <2>0, <2>a, <2>7 DEF Claim, ClaimLost
  <2>8. CASE Shutdown(w) \/ Stop(w) \/ Crash(w)
    BY <2>0, <2>a, <2>8 DEF Shutdown, Stop, Crash
  <2> QED BY <1>3, <2>1, <2>2, <2>3, <2>4, <2>5, <2>6, <2>7, <2>8 DEF WorkerStep
<1>4. \/ UNCHANGED <<loop, todo, bootstrapped, incomplete>>
      \/ \E w \in Workers : WorkerStep(w)
  <2> USE DEF workerVars
  <2>1. \A a \in active : AttemptStep(a) => UNCHANGED <<loop, todo, bootstrapped, incomplete>>
    BY DEF AttemptStep, HandlerEnds, Heartbeat, HeartbeatLost, HeartbeatError, WriteOutcome, OutcomeLost
  <2> QED BY <2>1 DEF Next, Tick, Age, Enqueue, InlineDropped, InlineClaim, Anonymize,
             RetireExhausted, vars
<1> QED BY <1>2, <1>3, <1>4

-----------------------------------------------------------------------------
(* The results. *)

LEMMA InvInit == Init => IInv
<1> SUFFICES ASSUME Init PROVE IInv
  OBVIOUS
<1>1. TypeOK
  BY TypeInit
<1>2. \A j \in Jobs : rows[j] = NoRow \/ (j \in Recurring /\ rows[j] \in LegacyRows)
  BY DEF Init, Jobs
<1>3. \A j \in Jobs : Good(j, rows[j])
  <2> TAKE j \in Jobs
  <2>1. CASE rows[j] = NoRow
    BY <2>1, FreshRows
  <2>2. CASE j \in Recurring /\ rows[j] \in LegacyRows
    BY <2>2, LegacyOK, JobsDisjoint DEF Good, Terminal, OneShot
  <2> QED BY <1>2, <2>1, <2>2
<1>4. BudgetRespected /\ TerminalMailIsRedacted /\ OwnedRowsRun
  BY <1>3 DEF Good, BudgetRespected, TerminalMailIsRedacted, OwnedRowsRun, Jobs, OneShot
<1>5. ClaimsUnique /\ ClaimSnapshot /\ HandlerlessIsPlain
  BY DEF Init, ClaimsUnique, ClaimSnapshot, HandlerlessIsPlain
<1>6. PassHasScheduled /\ BootstrappedMeansScheduled
  BY DEF Init, PassHasScheduled, BootstrappedMeansScheduled
<1> QED BY <1>1, <1>4, <1>5, <1>6 DEF IInv

LEMMA InvNext == IInv /\ [Next]_vars => IInv'
<1> SUFFICES ASSUME IInv, [Next]_vars PROVE IInv'
  OBVIOUS
<1>1. TypeOK'
  BY TypeNext DEF IInv
<1>2. (BudgetRespected /\ TerminalMailIsRedacted /\ OwnedRowsRun)'
  BY RowStep DEF Good, BudgetRespected, TerminalMailIsRedacted, OwnedRowsRun, Jobs, OneShot
<1> QED BY <1>1, <1>2, AttemptInvariants, BootstrapInvariants DEF IInv

LEMMA Inductive == Spec => []IInv
BY InvInit, InvNext, PTL DEF Spec

\* No interleaving of claims, crashes, lost answers and outcome writes runs a
\* job more often than its attempt budget allows.
THEOREM BudgetIsRespected == Spec => []BudgetRespected
<1>1. IInv => BudgetRespected
  BY DEF IInv
<1> QED BY <1>1, Inductive, PTL

\* The fence works: at most one attempt passes it, and what that attempt read
\* when it was claimed is still what the row says.
THEOREM FenceIsSound == Spec => []HolderSnapshotCurrent
<1>1. IInv => HolderSnapshotCurrent
  BY DEF IInv, ClaimsUnique, ClaimSnapshot, Holds, HolderSnapshotCurrent
<1> QED BY <1>1, Inductive, PTL

\* Every path to a terminal state redacts a mail.
THEOREM MailIsRedacted == Spec => []TerminalMailIsRedacted
<1>1. IInv => TerminalMailIsRedacted
  BY DEF IInv
<1> QED BY <1>1, Inductive, PTL

\* A complete bootstrap stays complete.
THEOREM BootstrapIsLasting == Spec => []BootstrappedMeansScheduled
<1>1. IInv => BootstrappedMeansScheduled
  BY DEF IInv
<1> QED BY <1>1, Inductive, PTL

\* No late write revives a settled one-shot job.
THEOREM SettledStaysSettled == Spec => SettledIsFinal
<1>1. IInv /\ [Next]_vars =>
        [\A j \in OneShot : rows[j].state \in Terminal
            => rows'[j].state \in {rows[j].state, "absent"}]_vars
  BY RowStep DEF Stays, Jobs
<1> QED BY <1>1, Inductive, PTL DEF Spec, SettledIsFinal

-----------------------------------------------------------------------------
(* The refinement.  Once more a step is seen through what it does to a row: *)
(* what the contract allows it to (Moves), and a one-shot row gets no       *)
(* schedule.                                                                *)

Moves(j, row) ==
  /\ \/ row.state = rows[j].state /\ row.attempts = rows[j].attempts
     \/ rows[j].state = "absent" /\ row.state = "pending" /\ row.attempts = 0
     \/ /\ rows[j].state \in Open /\ rows[j].attempts < MaxAttempts
        /\ row.state = "running" /\ row.attempts = rows[j].attempts + 1
     \/ /\ rows[j].state = "running" /\ rows[j].attempts < MaxAttempts
        /\ row.state = "pending" /\ row.attempts = rows[j].attempts
     \/ rows[j].state \in Open /\ row.state \in Terminal /\ row.attempts = rows[j].attempts
     \/ rows[j].state \in Terminal /\ row.state = "absent" /\ row.attempts = 0
     \/ /\ j \in Recurring /\ rows[j].state \in {"running"} \cup Terminal
        /\ row.state = "pending" /\ row.attempts = 0
  /\ j \in OneShot => row.schedule = "none"

\* Ending a job, by the queue or by a request, is a move.
LEMMA EndingMoves ==
  ASSUME IInv, OneShotUnscheduled, NEW j \in Jobs
  PROVE  /\ Moves(j, rows[j])
         /\ \A s \in Terminal : rows[j].state \in Open => Moves(j, Settled(j, s))
         /\ \A mails \in SUBSET Mail : Moves(j, CancelMail(mails)[j])
         /\ Moves(j, Collected[j])
<1>1. rows[j] \in Row /\ (j \in OneShot => rows[j].schedule = "none")
  BY DEF IInv, TypeOK, OneShotUnscheduled
<1>2. Moves(j, rows[j])
  BY <1>1 DEF Moves
<1>3. \A s \in Terminal : rows[j].state \in Open => Moves(j, Settled(j, s))
  BY <1>1 DEF Moves, Settled
<1>4. Present(j) => Moves(j, Cancelled(j))
  BY <1>1 DEF Moves, Cancelled, Present, Row, States, Open, Terminal
<1>5. \A mails \in SUBSET Mail : Moves(j, CancelMail(mails)[j])
  BY <1>2, <1>4 DEF CancelMail
<1>6. Moves(j, Collected[j])
  <2>1. rows[j].state \in Terminal => Moves(j, NoRow)
    BY DEF Moves, NoRow
  <2> QED BY <1>2, <2>1 DEF Collected
<1> QED BY <1>2, <1>3, <1>5, <1>6

\* Going back to the queue is a move: with the attempts of a run that failed
\* and may be tried again, or with none where the job has a schedule.
LEMMA RequeueMoves ==
  ASSUME IInv, OneShotUnscheduled, NEW j \in Jobs, NEW t
  PROVE  /\ rows[j].state = "running" /\ rows[j].attempts < MaxAttempts
              => Moves(j, Requeued(rows[j], rows[j].attempts, t))
         /\ rows[j].schedule # "none" /\ rows[j].state = "running"
              => Moves(j, Requeued(rows[j], 0, t))
<1>1. j \in OneShot => rows[j].schedule = "none"
  BY DEF OneShotUnscheduled
<1>2. rows[j].schedule # "none" => j \in Recurring
  BY <1>1 DEF Jobs
<1> QED BY <1>1, <1>2 DEF Moves, Requeued

\* What register_recurring writes is a move.
LEMMA ReconcileMoves ==
  ASSUME IInv, NEW j \in Recurring
  PROVE  Moves(j, Reconciled(rows[j]))
<1>1. j \in Jobs /\ rows[j] \in Row /\ j \notin OneShot
  BY JobsDisjoint DEF IInv, TypeOK, Jobs
<1>2. CASE rows[j].state = "absent"
  BY <1>1, <1>2 DEF Moves, Reconciled, NewRow
<1>3. CASE rows[j].state = "pending"
  BY <1>1, <1>3 DEF Moves, Reconciled, Row
<1>4. CASE rows[j].state = "running"
  BY <1>1, <1>4 DEF Moves, Reconciled
<1>5. CASE rows[j].state \in Terminal
  <2>1. Reconciled(rows[j]).state = "pending" /\ Reconciled(rows[j]).attempts = 0
    BY <1>5 DEF Reconciled, Requeued, Terminal
  <2> QED BY <1>1, <1>5, <2>1 DEF Moves
<1> QED BY <1>1, <1>2, <1>3, <1>4, <1>5 DEF Row, States, Open

\* A claim counts a try of a row that had one left.
LEMMA ClaimMoves ==
  ASSUME IInv, OneShotUnscheduled, NEW j \in Jobs, NEW o, NEW ttl,
         rows[j].state = "pending" \/ (rows[j].state = "running" /\ ~Exhausted(j))
  PROVE  Moves(j, ClaimedRow(j, o, ttl))
<1>1. rows[j] \in Row /\ (j \in OneShot => rows[j].schedule = "none")
  BY DEF IInv, TypeOK, OneShotUnscheduled
<1>2. rows[j].attempts < MaxAttempts
  BY <1>1, NumbersOK DEF IInv, BudgetRespected, Exhausted, Row
<1> QED BY <1>1, <1>2 DEF Moves, ClaimedRow, Open

\* So is every outcome that passes the fence: the attempt decides on what the
\* row still says.
LEMMA OutcomeMoves ==
  ASSUME IInv, OneShotUnscheduled, NEW a \in active, a.pc \in Outcomes, Holds(a),
         NEW row \in OutcomeRows(a)
  PROVE  Moves(a.job, row)
<1> DEFINE j == a.job
<1>1. j \in Jobs /\ a.schedule \in Schedules
  BY DEF IInv, TypeOK, Attempt
<1>2. /\ a.attempts = rows[j].attempts /\ a.schedule = rows[j].schedule
      /\ rows[j].state = "running" /\ rows[j].state \in Open
  BY DEF IInv, ClaimSnapshot, Holds, Open
<1>3. \A s \in Terminal : Moves(j, Settled(j, s))
  BY <1>1, <1>2, EndingMoves
<1>4. /\ a.schedule = "every" => Moves(j, Requeued(rows[j], 0, Period))
      /\ a.attempts < MaxAttempts => \A t : Moves(j, Requeued(rows[j], rows[j].attempts, t))
  BY <1>1, <1>2, RequeueMoves
<1>5. FinishSuccess(a) \subseteq {Settled(j, s) : s \in Terminal}
        \cup {r \in {Requeued(rows[j], 0, Period)} : a.schedule = "every"}
  BY <1>1 DEF FinishSuccess, Schedules, Terminal
<1>6. GiveUp(a) \subseteq {Settled(j, s) : s \in Terminal}
        \cup {r \in {Requeued(rows[j], 0, Period)} : a.schedule = "every"}
  BY <1>1 DEF GiveUp, Schedules, Terminal
<1>7. row \in Retry(a) => \E t : row = Requeued(rows[j], rows[j].attempts, t)
  BY DEF Retry
<1>8. \/ row \in FinishSuccess(a) \/ row \in GiveUp(a)
      \/ row \in Retry(a) /\ a.attempts < MaxAttempts
      \/ row = Settled(j, "failed")
  BY DEF OutcomeRows, Outcomes
<1>9. "failed" \in Terminal
  BY DEF Terminal
<1> HIDE DEF j
<1>10. Moves(j, row)
  BY <1>3, <1>4, <1>5, <1>6, <1>7, <1>8, <1>9
<1> QED BY <1>10 DEF j

\* Every step moves every job as the contract allows.
LEMMA MoveStep ==
  ASSUME IInv, OneShotUnscheduled, [Next]_vars, NEW j \in Jobs
  PROVE  Moves(j, rows'[j])
<1>0. rows \in [Jobs -> Row] /\ Moves(j, rows[j])
  BY EndingMoves DEF IInv, TypeOK
<1>1. ASSUME rows' = rows
      PROVE  Moves(j, rows'[j])
  BY <1>0, <1>1
<1>2. CASE Tick \/ \E k \in Jobs : Age(k)
  <2>1. /\ rows'[j].state = rows[j].state /\ rows'[j].attempts = rows[j].attempts
        /\ rows'[j].schedule = rows[j].schedule
    <3>1. CASE Tick
      BY <1>0, <3>1 DEF Tick, Row
    <3>2. ASSUME NEW k \in Jobs, Age(k)
          PROVE  <2>1!:
      BY <1>0, <3>2 DEF Age, Row
    <3> QED BY <1>2, <3>1, <3>2
  <2> QED BY <1>0, <2>1 DEF Moves
<1>3. ASSUME NEW k \in OneShot, NEW t, Enqueue(k, t)
      PROVE  Moves(j, rows'[j])
  <2>1. k \in Jobs /\ rows[k].state = "absent"
    BY <1>3 DEF Jobs, Enqueue, Present
  <2>2. Moves(k, NewRow("none", t))
    BY <2>1 DEF Moves, NewRow
  <2>3. rows'[j] = IF j = k THEN NewRow("none", t) ELSE rows[j]
    BY <1>0, <1>3 DEF Enqueue
  <2> QED BY <1>0, <2>2, <2>3
<1>4. ASSUME NEW w \in Workers, NEW k \in Recurring, Register(w, k)
      PROVE  Moves(j, rows'[j])
  <2>1. rows'[j] = IF j = k THEN Reconciled(rows[k]) ELSE rows[j]
    BY <1>0, <1>4 DEF Register
  <2> QED BY <1>0, <2>1, ReconcileMoves
<1>5. ASSUME NEW w \in Workers, FinalizeExhaustedLeases(w)
      PROVE  Moves(j, rows'[j])
  <2>1. rows'[j] = rows[j] \/ (rows[j].state = "running" /\ rows'[j] = Finalized(j))
    BY <1>5 DEF FinalizeExhaustedLeases, ExhaustedLease
  <2>2. rows[j].state = "running" => Moves(j, Finalized(j))
    BY EndingMoves, RequeueMoves DEF Finalized, Open, Terminal
  <2> QED BY <1>0, <2>1, <2>2
<1>6. ASSUME NEW k \in Jobs, NEW o \in Owners, ClaimStep(k, o),
             rows[k].state = "pending" \/ (rows[k].state = "running" /\ ~Exhausted(k))
      PROVE  Moves(j, rows'[j])
  <2>1. PICK ttl \in Int : rows' = [rows EXCEPT ![k] = ClaimedRow(k, o, ttl)]
    BY <1>6 DEF ClaimStep
  <2>2. Moves(k, ClaimedRow(k, o, ttl))
    BY <1>6, ClaimMoves
  <2> QED BY <1>0, <2>1, <2>2
<1>7. ASSUME NEW w \in Workers, NEW k \in Jobs, Claim(w, k) \/ ClaimLost(w, k)
      PROVE  Moves(j, rows'[j])
  <2>1. PICK o \in Owners : ClaimStep(k, o)
    BY <1>7, NumbersOK DEF Claim, ClaimLost, NextOwner, ClaimStep
  <2> QED BY <1>6, <1>7, <2>1 DEF Claim, ClaimLost, Oldest, Claimable
<1>8. ASSUME NEW i \in Inliners, NEW k \in Mail, InlineClaim(i, k)
      PROVE  Moves(j, rows'[j])
  <2>1. PICK o \in Owners : rows' = [rows EXCEPT ![k] = ClaimedRow(k, o, InlineLease)]
    BY <1>8 DEF InlineClaim
  <2>2. k \in Jobs /\ Moves(k, ClaimedRow(k, o, InlineLease))
    BY <1>8, ClaimMoves DEF InlineClaim, InlineClaimable, Jobs, OneShot
  <2> QED BY <1>0, <2>1, <2>2
<1>9. ASSUME NEW a \in active, NEW outcome, HandlerEnds(a, outcome)
      PROVE  Moves(j, rows'[j])
  <2>1. rows' \in {rows, Collected} \cup {CancelMail(expired) : expired \in SUBSET Mail}
    BY <1>9 DEF HandlerEnds, TablesAfter
  <2> QED BY <2>1, EndingMoves
<1>10. ASSUME NEW a \in active, Heartbeat(a)
       PROVE  Moves(j, rows'[j])
  <2>1. /\ rows'[j].state = rows[j].state /\ rows'[j].attempts = rows[j].attempts
        /\ rows'[j].schedule = rows[j].schedule
    BY <1>0, <1>10 DEF Heartbeat, Row
  <2> QED BY <1>0, <2>1 DEF Moves
<1>11. ASSUME NEW a \in active, WriteOutcome(a)
       PROVE  Moves(j, rows'[j])
  <2>1. ASSUME Holds(a), NEW row \in OutcomeRows(a), rows' = [rows EXCEPT ![a.job] = row]
        PROVE  Moves(j, rows'[j])
    <3>1. Moves(a.job, row)
      BY <1>11, <2>1, OutcomeMoves DEF WriteOutcome
    <3> QED BY <1>0, <2>1, <3>1
  <2> QED BY <1>1, <1>11, <2>1 DEF WriteOutcome
<1>12. ASSUME NEW mails \in SUBSET Mail, Anonymize(mails) \/ RetireExhausted(mails)
       PROVE  Moves(j, rows'[j])
  <2>1. \/ rows'[j] = CancelMail(mails)[j] \/ rows'[j] = rows[j]
        \/ rows[j].state \in Open /\ rows'[j] = Settled(j, "failed")
    BY <1>12 DEF Anonymize, RetireExhausted, Open
  <2> QED BY <1>0, <2>1, EndingMoves DEF Terminal
<1>13. ASSUME NEW w \in Workers, WorkerStep(w)
       PROVE  Moves(j, rows'[j])
  <2>1. \/ rows' = rows
        \/ \E k \in Recurring : Register(w, k)
        \/ FinalizeExhaustedLeases(w)
        \/ \E k \in Jobs : Claim(w, k) \/ ClaimLost(w, k)
    BY <1>13 DEF WorkerStep, Start, RegisterDeferred, RegisterError, BootstrapEnds,
         BootstrapAgain, NothingDue, Shutdown, Stop, Crash
  <2> QED BY <1>1, <1>4, <1>5, <1>7, <2>1
<1>14. ASSUME NEW a \in active, AttemptStep(a)
       PROVE  Moves(j, rows'[j])
  <2>1. \/ rows' = rows
        \/ \E outcome : HandlerEnds(a, outcome)
        \/ Heartbeat(a) \/ WriteOutcome(a)
    BY <1>14 DEF AttemptStep, HeartbeatLost, HeartbeatError, OutcomeLost
  <2> QED BY <1>1, <1>9, <1>10, <1>11, <2>1
<1>15. \A i \in Inliners : InlineDropped(i) => rows' = rows
  BY DEF InlineDropped
<1>16. UNCHANGED vars => rows' = rows
  BY DEF vars
<1> QED BY <1>1, <1>2, <1>3, <1>8, <1>12, <1>13, <1>14, <1>15, <1>16 DEF Next, OneShot

LEMMA Unscheduled == Spec => []OneShotUnscheduled
<1>1. Init => OneShotUnscheduled
  BY DEF Init, OneShotUnscheduled, NoRow
<1>2. IInv /\ OneShotUnscheduled /\ [Next]_vars => OneShotUnscheduled'
  BY MoveStep DEF Moves, OneShotUnscheduled, Jobs
<1> QED BY <1>1, <1>2, Inductive, PTL DEF Spec

\* What the contract sees of a state.
LEMMA Phases ==
  /\ PhaseOf("absent") = "absent" /\ PhaseOf("pending") = "waiting"
  /\ PhaseOf("running") = "underway"
  /\ \A s \in Terminal : PhaseOf(s) = "over"
BY DEF PhaseOf, Terminal

\* The queue with its claims, leases, fences, sweeps, crashes and late writes
\* implements the contract, for every number of workers, jobs and faults.
THEOREM ContractIsKept == Spec => ImplementsContract
<1>1. Init => Contract!ContractInit
  <2> SUFFICES ASSUME Init, NEW j \in OneShot \cup Recurring
               PROVE  \/ PhaseOf(rows[j].state) = "absent" /\ rows[j].attempts = 0
                      \/ j \in Recurring /\ PhaseOf(rows[j].state) = "over"
                      \/ /\ j \in Recurring /\ PhaseOf(rows[j].state) = "waiting"
                         /\ rows[j].attempts < MaxAttempts
    BY DEF Contract!ContractInit, Contract!Work, Jobs
  <2>1. rows[j] = NoRow \/ (j \in Recurring /\ rows[j] \in LegacyRows)
    BY DEF Init, Jobs
  <2>2. CASE rows[j] = NoRow
    BY <2>2, Phases DEF NoRow
  <2>3. CASE j \in Recurring /\ rows[j] \in LegacyRows
    BY <2>3, LegacyOK, Phases
  <2> QED BY <2>1, <2>2, <2>3
<1>2. IInv /\ OneShotUnscheduled /\ [Next]_vars => [Contract!ContractStep]_(Contract!contractVars)
  <2> SUFFICES ASSUME IInv, OneShotUnscheduled, [Next]_vars
               PROVE  Contract!ContractStep
    OBVIOUS
  <2> SUFFICES ASSUME NEW j \in OneShot \cup Recurring
               PROVE  \/ Contract!Same(j) \/ Contract!Accept(j) \/ Contract!Try(j)
                      \/ Contract!TryAgainLater(j) \/ Contract!Finish(j) \/ Contract!Forget(j)
                      \/ Contract!StartOver(j)
    BY DEF Contract!ContractStep, Contract!Work
  <2>1. j \in Jobs /\ Moves(j, rows'[j])
    BY MoveStep DEF Jobs
  <2>2. \/ Contract!Same(j)
        \/ rows[j].state = "absent" /\ Contract!Accept(j)
        \/ rows[j].state \in Open /\ Contract!Try(j)
        \/ rows[j].state = "running" /\ Contract!TryAgainLater(j)
        \/ rows[j].state \in Open /\ Contract!Finish(j)
        \/ rows[j].state \in Terminal /\ Contract!Forget(j)
        \/ rows[j].state \in {"running"} \cup Terminal /\ Contract!StartOver(j)
    BY <2>1, Phases DEF Moves, Open, Contract!Same, Contract!Accept, Contract!Try,
       Contract!TryAgainLater, Contract!Finish, Contract!Forget, Contract!StartOver
  <2> QED BY <2>2
<1> QED BY <1>1, <1>2, Inductive, Unscheduled, PTL
        DEF Spec, ImplementsContract, Contract!ContractSpec

-----------------------------------------------------------------------------
(* Admission. *)

\* How many callers a function has in a state.
Count(f, s) == Cardinality({c \in Callers : f[c] = s})

LEMMA CountType ==
  ASSUME NEW f, NEW s
  PROVE  IsFiniteSet({c \in Callers : f[c] = s}) /\ Count(f, s) \in Nat
<1>1. {c \in Callers : f[c] = s} \in SUBSET Callers
  OBVIOUS
<1> QED BY <1>1, AdmissionConstantsOK, FS_Subset, FS_CardinalityType DEF Count

\* One caller moves from s to t: one less there, one more here.
LEMMA CountMoves ==
  ASSUME NEW f \in [Callers -> CallerStates], NEW c \in Callers, NEW t \in CallerStates, NEW u,
         f[c] = u, u # t, NEW g \in [Callers -> CallerStates],
         g[c] = t, \A d \in Callers : d # c => g[d] = f[d]
  PROVE  /\ Count(g, t) = Count(f, t) + 1 /\ Count(g, u) = Count(f, u) - 1
         /\ \A s : s # t /\ s # u => Count(g, s) = Count(f, s)
<1>0. g \in [Callers -> CallerStates] /\ g[c] = t /\ \A d \in Callers : d # c => g[d] = f[d]
  OBVIOUS
<1>1. Count(g, t) = Count(f, t) + 1
  <2>1. PICK S : S = {d \in Callers : f[d] = t}
    OBVIOUS
  <2>2. c \notin S /\ IsFiniteSet(S)
    BY <2>1, CountType
  <2>3. {d \in Callers : g[d] = t} = S \cup {c}
    BY <1>0, <2>1
  <2>4. Cardinality(S \cup {c}) = Cardinality(S) + 1
    BY <2>2, FS_AddElement
  <2> QED BY <2>1, <2>3, <2>4 DEF Count
<1>2. Count(g, u) = Count(f, u) - 1
  <2>2. PICK S : S = {d \in Callers : f[d] = u}
    OBVIOUS
  <2>3. c \in S /\ IsFiniteSet(S)
    BY <2>2, CountType
  <2>4. {d \in Callers : g[d] = u} = S \ {c}
    BY <1>0, <2>2
  <2>5. Cardinality(S \ {c}) = Cardinality(S) - 1
    BY <2>3, FS_RemoveElement
  <2> QED BY <2>2, <2>4, <2>5 DEF Count
<1>3. ASSUME NEW s, s # t, s # u PROVE Count(g, s) = Count(f, s)
  <2>1. {d \in Callers : g[d] = s} = {d \in Callers : f[d] = s}
    BY <1>0, <1>3
  <2> QED BY <2>1 DEF Count
<1> QED BY <1>0, <1>1, <1>2, <1>3

\* The permits and the places, as counts.
Conserved(f, n, k, o) ==
  /\ n + Count(f, "granted") + Count(f, "working") + o = Concurrency
  /\ k + Count(f, "queued") + Count(f, "granted") = QueueCapacity

LEMMA ConservedIs == PermitsAreConserved <=> Conserved(caller, permits, places, orphans)
BY DEF PermitsAreConserved, Conserved, Count, In

LEMMA AdmissionFacts ==
  ASSUME AdmissionIsSound
  PROVE  /\ caller \in [Callers -> CallerStates] /\ line \in Seq(Callers) /\ Len(line) \in Nat
         /\ permits \in Nat /\ places \in Nat /\ orphans \in Nat
         /\ Concurrency \in Nat /\ QueueCapacity \in Nat
         /\ Conserved(caller, permits, places, orphans)
BY AdmissionConstantsOK, ConservedIs DEF AdmissionIsSound, AdmissionTypeOK

\* What the counts add up to bounds each of them.
LEMMA SoundAfter ==
  ASSUME caller' \in [Callers -> CallerStates], line' \in Seq(Callers),
         permits' \in Nat, places' \in Nat, orphans' \in Nat,
         Conserved(caller', permits', places', orphans'), LineIsExact'
  PROVE  AdmissionIsSound'
<1>1. \A s : Count(caller', s) \in Nat
  BY CountType
<1>2. permits' \in 0..Concurrency /\ places' \in 0..QueueCapacity /\ orphans' \in 0..Concurrency
  BY <1>1, AdmissionConstantsOK DEF Conserved
<1>3. PermitsAreConserved'
  BY DEF PermitsAreConserved, Conserved, Count, In
<1> QED BY <1>2, <1>3 DEF AdmissionIsSound, AdmissionTypeOK

\* The line of callers ln holds those that f has queued, once each.
Exact(f, ln) ==
  /\ \A c \in Callers : f[c] = "queued" <=> \E i \in 1..Len(ln) : ln[i] = c
  /\ \A i, j \in 1..Len(ln) : ln[i] = ln[j] => i = j

LEMMA ExactIs ==
  /\ line \in Seq(Callers) => (LineIsExact <=> Exact(caller, line))
  /\ line' \in Seq(Callers) => (LineIsExact' <=> Exact(caller', line'))
BY DEF LineIsExact, Exact

\* The head leaves and is no longer queued.
LEMMA ExactHead ==
  ASSUME NEW f \in [Callers -> CallerStates], NEW ln \in Seq(Callers), ln # << >>, Exact(f, ln),
         NEW g, g = [f EXCEPT ![Head(ln)] = "granted"]
  PROVE  /\ Head(ln) \in Callers /\ f[Head(ln)] = "queued"
         /\ Tail(ln) \in Seq(Callers) /\ Exact(g, Tail(ln))
<1>1. Len(ln) \in Nat /\ Len(ln) >= 1 /\ \A i \in 1..Len(ln) : ln[i] \in Callers
  <2>1. Len(ln) \in Nat /\ Len(ln) # 0
    BY EmptySeq
  <2> QED BY <2>1
<1>2. PICK h : h = Head(ln)
  OBVIOUS
<1>3. h = ln[1] /\ h \in Callers /\ f[h] = "queued"
  BY <1>1, <1>2 DEF Exact
<1>4. PICK t : t = Tail(ln)
  OBVIOUS
<1>5. t \in Seq(Callers) /\ Len(t) = Len(ln) - 1 /\ \A i \in 1..Len(t) : t[i] = ln[i + 1]
  BY <1>1, <1>4
<1>6. \A i, j \in 1..Len(t) : t[i] = t[j] => i = j
  <2>1. ASSUME NEW i \in 1..Len(t), NEW j \in 1..Len(t), t[i] = t[j] PROVE i = j
    <3>1. i + 1 \in 1..Len(ln) /\ j + 1 \in 1..Len(ln) /\ ln[i + 1] = ln[j + 1]
      BY <1>1, <1>5, <2>1
    <3>2. i + 1 = j + 1
      BY <3>1 DEF Exact
    <3> QED BY <3>2
  <2> QED BY <2>1
<1>7. ASSUME NEW c \in Callers PROVE g[c] = "queued" <=> \E i \in 1..Len(t) : t[i] = c
  <2>1. CASE c = h
    <3>1. g[c] = "granted"
      BY <1>2, <1>3, <2>1
    <3>2. ASSUME NEW i \in 1..Len(t), t[i] = c PROVE FALSE
      <4>1. i + 1 \in 1..Len(ln) /\ 1 \in 1..Len(ln) /\ ln[i + 1] = ln[1] /\ i \in Nat
        BY <1>1, <1>3, <1>5, <2>1, <3>2
      <4>2. i + 1 = 1
        BY <4>1 DEF Exact
      <4> QED BY <3>2, <4>2
    <3> QED BY <3>1, <3>2
  <2>2. CASE c # h
    <3>1. g[c] = f[c]
      BY <1>2, <2>2
    <3>2. ASSUME NEW i \in 1..Len(t), t[i] = c PROVE f[c] = "queued"
      <4>1. i + 1 \in 1..Len(ln) /\ ln[i + 1] = c
        BY <1>1, <1>5, <3>2
      <4> QED BY <4>1 DEF Exact
    <3>3. ASSUME f[c] = "queued" PROVE \E i \in 1..Len(t) : t[i] = c
      <4>1. PICK k \in 1..Len(ln) : ln[k] = c
        BY <3>3 DEF Exact
      <4>2. k # 1
        BY <1>3, <2>2, <4>1
      <4>3. k - 1 \in 1..Len(t)
        BY <1>1, <1>5, <4>1, <4>2
      <4>4. t[k - 1] = c
        BY <1>5, <4>1, <4>3
      <4> QED BY <4>3, <4>4
    <3> QED BY <3>1, <3>2, <3>3
  <2> QED BY <2>1, <2>2
<1> QED BY <1>2, <1>3, <1>4, <1>5, <1>6, <1>7 DEF Exact

\* A permit is released: f is what the callers do but for whom it goes to.
LEMMA ReleaseKeeps ==
  ASSUME AdmissionIsSound, NEW f \in [Callers -> CallerStates], Release(f),
         \A c \in Callers : f[c] = "queued" <=> caller[c] = "queued",
         places' \in Nat, orphans' \in Nat, Conserved(f, permits + 1, places', orphans')
  PROVE  AdmissionIsSound'
<1>1. Exact(caller, line) /\ line \in Seq(Callers)
  BY AdmissionFacts, ExactIs DEF AdmissionIsSound
<1>2. Exact(f, line)
  BY <1>1 DEF Exact
<1>3. CASE line = << >>
  <2>1. permits' = permits + 1 /\ line' = line /\ caller' = f
    BY <1>3 DEF Release
  <2>2. LineIsExact'
    BY <1>1, <1>2, <2>1, ExactIs
  <2> QED BY <1>1, <2>1, <2>2, AdmissionFacts, SoundAfter
<1>4. CASE line # << >>
  <2>1. permits' = permits /\ line' = Tail(line) /\ caller' = [f EXCEPT ![Head(line)] = "granted"]
    BY <1>4 DEF Release
  <2>2. Head(line) \in Callers /\ f[Head(line)] = "queued" /\ line' \in Seq(Callers) /\ Exact(caller', line')
    BY <1>1, <1>2, <1>4, <2>1, ExactHead
  <2>3. "granted" \in CallerStates
    BY DEF CallerStates
  <2>4. /\ caller' \in [Callers -> CallerStates]
        /\ Count(caller', "granted") = Count(f, "granted") + 1
        /\ Count(caller', "queued") = Count(f, "queued") - 1
        /\ Count(caller', "working") = Count(f, "working")
    <3>1. PICK h \in Callers : h = Head(line)
      BY <2>2
    <3>2. PICK g \in [Callers -> CallerStates] : g = caller'
      BY <2>1, <2>2, <2>3
    <3>3. f[h] = "queued" /\ "queued" # "granted" /\ g[h] = "granted" /\ \A d \in Callers : d # h => g[d] = f[d]
      BY <2>1, <2>2, <3>1, <3>2
    <3>4. /\ Count(g, "granted") = Count(f, "granted") + 1
          /\ Count(g, "queued") = Count(f, "queued") - 1
          /\ \A s : s # "granted" /\ s # "queued" => Count(g, s) = Count(f, s)
      BY ONLY <2>3, <3>3, f \in [Callers -> CallerStates], CountMoves
    <3> QED BY <3>2, <3>4
  <2>5. /\ Count(f, "granted") \in Nat /\ Count(f, "queued") \in Nat /\ Count(f, "working") \in Nat
    BY CountType
  <2>6. Conserved(caller', permits', places', orphans')
    <3>1. /\ (permits + 1) + Count(f, "granted") + Count(f, "working") + orphans' = Concurrency
          /\ places' + Count(f, "queued") + Count(f, "granted") = QueueCapacity
      BY DEF Conserved
    <3>2. permits + Count(caller', "granted") + Count(caller', "working") + orphans' = Concurrency
      BY <2>4, <2>5, <3>1, AdmissionFacts
    <3>3. places' + Count(caller', "queued") + Count(caller', "granted") = QueueCapacity
      <4>1. PICK x \in Nat : x = Count(f, "queued")
        BY <2>5
      <4>2. PICK y \in Nat : y = Count(f, "granted")
        BY <2>5
      <4>3. places' + (x - 1) + (y + 1) = QueueCapacity
        BY <3>1, <4>1, <4>2
      <4> QED BY <2>4, <4>1, <4>2, <4>3
    <3> QED BY <2>1, <3>2, <3>3 DEF Conserved
  <2>7. LineIsExact'
    BY <2>2, ExactIs
  <2> QED BY <2>1, <2>2, <2>4, <2>6, <2>7, AdmissionFacts, SoundAfter
<1> QED BY <1>3, <1>4

\* A caller moves without touching the line.
LEMMA CallerMoves ==
  ASSUME AdmissionIsSound, NEW c \in Callers, NEW t \in CallerStates,
         caller[c] # "queued", t # "queued", caller' = [caller EXCEPT ![c] = t], line' = line
  PROVE  caller' \in [Callers -> CallerStates] /\ line' \in Seq(Callers) /\ LineIsExact'
<1>1. line \in Seq(Callers) /\ Exact(caller, line)
  BY AdmissionFacts, ExactIs DEF AdmissionIsSound
<1>2. caller' \in [Callers -> CallerStates]
      /\ \A d \in Callers : caller'[d] = "queued" <=> caller[d] = "queued"
  BY AdmissionFacts
<1>3. Exact(caller', line')
  BY <1>1, <1>2 DEF Exact
<1> QED BY <1>1, <1>2, <1>3, ExactIs

\* The counts when one caller moves.
LEMMA CallerCounts ==
  ASSUME AdmissionIsSound, NEW f \in [Callers -> CallerStates], NEW c \in Callers, NEW t \in CallerStates,
         NEW u, caller[c] = u, u # t, f[c] = t, \A d \in Callers : d # c => f[d] = caller[d]
  PROVE  /\ Count(f, t) = Count(caller, t) + 1 /\ Count(f, u) = Count(caller, u) - 1
         /\ \A s : s # t /\ s # u => Count(f, s) = Count(caller, s)
<1>1. PICK e \in [Callers -> CallerStates] : e = caller
  BY AdmissionFacts
<1>2. f[c] = t /\ e[c] = u /\ \A d \in Callers : d # c => f[d] = e[d]
  BY <1>1
<1>3. /\ Count(f, t) = Count(e, t) + 1 /\ Count(f, u) = Count(e, u) - 1
      /\ \A s : s # t /\ s # u => Count(f, s) = Count(e, s)
  BY ONLY <1>2, u # t, CountMoves, f \in [Callers -> CallerStates], c \in Callers, t \in CallerStates
<1> QED BY <1>1, <1>3

\* What the counts lose or gain is made good by the counters.
LEMMA Balance ==
  ASSUME AdmissionIsSound, NEW f, NEW dg \in Int, NEW dw \in Int, NEW dq \in Int,
         Count(f, "granted") = Count(caller, "granted") + dg,
         Count(f, "working") = Count(caller, "working") + dw,
         Count(f, "queued") = Count(caller, "queued") + dq,
         NEW n \in Nat, NEW k \in Nat, NEW o \in Nat,
         n + dg + dw + o = permits + orphans, k + dq + dg = places
  PROVE  Conserved(f, n, k, o)
<1>1. PICK g \in Nat : g = Count(caller, "granted")
  BY CountType
<1>2. PICK w \in Nat : w = Count(caller, "working")
  BY CountType
<1>3. PICK q \in Nat : q = Count(caller, "queued")
  BY CountType
<1>4. permits + g + w + orphans = Concurrency /\ places + q + g = QueueCapacity
  BY <1>1, <1>2, <1>3, AdmissionFacts DEF Conserved
<1>5. n + (g + dg) + (w + dw) + o = Concurrency
  <2>1. permits \in Nat /\ orphans \in Nat /\ n + dg + dw + o = permits + orphans
    BY AdmissionFacts
  <2>2. permits + g + w + orphans = (permits + orphans) + (g + w)
    BY <2>1
  <2>3. n + (g + dg) + (w + dw) + o = (n + dg + dw + o) + (g + w)
    OBVIOUS
  <2> QED BY <1>4, <2>1, <2>2, <2>3
<1>6. k + (q + dq) + (g + dg) = QueueCapacity
  BY <1>4, AdmissionFacts
<1> QED BY <1>1, <1>2, <1>3, <1>5, <1>6 DEF Conserved

LEMMA AdmitKeeps ==
  ASSUME AdmissionIsSound, NEW c \in Callers, AdmitAtOnce(c)
  PROVE  AdmissionIsSound'
<1>1. /\ caller[c] = "idle" /\ permits > 0 /\ permits' = permits - 1
      /\ caller' = [caller EXCEPT ![c] = "working"] /\ UNCHANGED <<places, line, orphans>>
      /\ "working" \in CallerStates
  BY DEF AdmitAtOnce, Goes, CallerStates
<1>2. caller' \in [Callers -> CallerStates] /\ line' \in Seq(Callers) /\ LineIsExact'
  BY <1>1, CallerMoves
<1>3. PICK f \in [Callers -> CallerStates] : f = caller'
  BY <1>2
<1>4. /\ caller[c] = "idle" /\ "idle" # "working" /\ f[c] = "working"
      /\ \A d \in Callers : d # c => f[d] = caller[d]
  BY <1>1, <1>3, AdmissionFacts
<1>5. /\ Count(f, "working") = Count(caller, "working") + 1 /\ Count(f, "idle") = Count(caller, "idle") - 1
      /\ \A s : s # "working" /\ s # "idle" => Count(f, s) = Count(caller, s)
  BY ONLY AdmissionIsSound, c \in Callers, <1>1, <1>4, CallerCounts
<1>6. \A s : Count(caller, s) \in Nat
  BY CountType
<1>7. /\ Count(f, "granted") = Count(caller, "granted") + (0)
      /\ Count(f, "working") = Count(caller, "working") + (1)
      /\ Count(f, "queued") = Count(caller, "queued") + 0
  BY <1>5, <1>6
<1>8. permits' \in Nat /\ places' \in Nat /\ orphans' \in Nat
  BY <1>1, AdmissionFacts
<1>9. permits' + (0) + (1) + orphans' = permits + orphans /\ places' + 0 + (0) = places
  BY <1>1, <1>8, AdmissionFacts
<1>10. 0 \in Int /\ 1 \in Int /\ 0 \in Int
  OBVIOUS
<1>11. Conserved(f, permits', places', orphans')
  BY ONLY AdmissionIsSound, <1>7, <1>8, <1>9, <1>10, Balance
<1> QED BY <1>2, <1>3, <1>8, <1>11, SoundAfter

LEMMA StartKeeps ==
  ASSUME AdmissionIsSound, NEW c \in Callers, StartWork(c)
  PROVE  AdmissionIsSound'
<1>1. /\ caller[c] = "granted" /\ places' = places + 1
      /\ caller' = [caller EXCEPT ![c] = "working"] /\ UNCHANGED <<permits, line, orphans>>
      /\ "working" \in CallerStates
  BY DEF StartWork, Goes, CallerStates
<1>2. caller' \in [Callers -> CallerStates] /\ line' \in Seq(Callers) /\ LineIsExact'
  BY <1>1, CallerMoves
<1>3. PICK f \in [Callers -> CallerStates] : f = caller'
  BY <1>2
<1>4. /\ caller[c] = "granted" /\ "granted" # "working" /\ f[c] = "working"
      /\ \A d \in Callers : d # c => f[d] = caller[d]
  BY <1>1, <1>3, AdmissionFacts
<1>5. /\ Count(f, "working") = Count(caller, "working") + 1 /\ Count(f, "granted") = Count(caller, "granted") - 1
      /\ \A s : s # "working" /\ s # "granted" => Count(f, s) = Count(caller, s)
  BY ONLY AdmissionIsSound, c \in Callers, <1>1, <1>4, CallerCounts
<1>6. \A s : Count(caller, s) \in Nat
  BY CountType
<1>7. /\ Count(f, "granted") = Count(caller, "granted") + (-1)
      /\ Count(f, "working") = Count(caller, "working") + (1)
      /\ Count(f, "queued") = Count(caller, "queued") + 0
  BY <1>5, <1>6
<1>8. permits' \in Nat /\ places' \in Nat /\ orphans' \in Nat
  BY <1>1, AdmissionFacts
<1>9. permits' + (-1) + (1) + orphans' = permits + orphans /\ places' + 0 + (-1) = places
  BY <1>1, <1>8, AdmissionFacts
<1>10. -1 \in Int /\ 1 \in Int /\ 0 \in Int
  OBVIOUS
<1>11. Conserved(f, permits', places', orphans')
  BY ONLY AdmissionIsSound, <1>7, <1>8, <1>9, <1>10, Balance
<1> QED BY <1>2, <1>3, <1>8, <1>11, SoundAfter

LEMMA DropWorkingKeeps ==
  ASSUME AdmissionIsSound, NEW c \in Callers, DropWorking(c)
  PROVE  AdmissionIsSound'
<1>1. /\ caller[c] = "working" /\ orphans' = orphans + 1
      /\ caller' = [caller EXCEPT ![c] = "idle"] /\ UNCHANGED <<permits, places, line>>
      /\ "idle" \in CallerStates
  BY DEF DropWorking, Goes, CallerStates
<1>2. caller' \in [Callers -> CallerStates] /\ line' \in Seq(Callers) /\ LineIsExact'
  BY <1>1, CallerMoves
<1>3. PICK f \in [Callers -> CallerStates] : f = caller'
  BY <1>2
<1>4. /\ caller[c] = "working" /\ "working" # "idle" /\ f[c] = "idle"
      /\ \A d \in Callers : d # c => f[d] = caller[d]
  BY <1>1, <1>3, AdmissionFacts
<1>5. /\ Count(f, "idle") = Count(caller, "idle") + 1 /\ Count(f, "working") = Count(caller, "working") - 1
      /\ \A s : s # "idle" /\ s # "working" => Count(f, s) = Count(caller, s)
  BY ONLY AdmissionIsSound, c \in Callers, <1>1, <1>4, CallerCounts
<1>6. \A s : Count(caller, s) \in Nat
  BY CountType
<1>7. /\ Count(f, "granted") = Count(caller, "granted") + (0)
      /\ Count(f, "working") = Count(caller, "working") + (-1)
      /\ Count(f, "queued") = Count(caller, "queued") + 0
  BY <1>5, <1>6
<1>8. permits' \in Nat /\ places' \in Nat /\ orphans' \in Nat
  BY <1>1, AdmissionFacts
<1>9. permits' + (0) + (-1) + orphans' = permits + orphans /\ places' + 0 + (0) = places
  BY <1>1, <1>8, AdmissionFacts
<1>10. 0 \in Int /\ -1 \in Int /\ 0 \in Int
  OBVIOUS
<1>11. Conserved(f, permits', places', orphans')
  BY ONLY AdmissionIsSound, <1>7, <1>8, <1>9, <1>10, Balance
<1> QED BY <1>2, <1>3, <1>8, <1>11, SoundAfter

\* A permit comes back: of a task, or of a caller that was woken and dropped.
LEMMA FinishKeeps ==
  ASSUME AdmissionIsSound, NEW c \in Callers, FinishWork(c) \/ DropGranted(c)
  PROVE  AdmissionIsSound'
<1>1. PICK f \in [Callers -> CallerStates] : f = [caller EXCEPT ![c] = "idle"]
  BY AdmissionFacts DEF CallerStates
<1>2. Release(f) /\ orphans' = orphans
  BY <1>1 DEF FinishWork, DropGranted
<1>3. PICK u \in {"working", "granted"} :
        caller[c] = u /\ (u = "working" => places' = places) /\ (u = "granted" => places' = places + 1)
  BY DEF FinishWork, DropGranted
<1>4. /\ "idle" \in CallerStates /\ u # "idle" /\ f[c] = "idle"
      /\ \A d \in Callers : d # c => f[d] = caller[d]
  BY <1>1, <1>3, AdmissionFacts DEF CallerStates
<1>5. /\ Count(f, u) = Count(caller, u) - 1
      /\ \A s : s # "idle" /\ s # u => Count(f, s) = Count(caller, s)
  BY ONLY AdmissionIsSound, c \in Callers, <1>3, <1>4, CallerCounts
<1>6. \A s : Count(caller, s) \in Nat
  BY CountType
<1>7. permits + 1 \in Nat /\ places' \in Nat /\ orphans' \in Nat
  BY <1>2, <1>3, AdmissionFacts
<1>8. Conserved(f, permits + 1, places', orphans')
  <2>1. CASE u = "working"
    <3>1. /\ Count(f, "granted") = Count(caller, "granted") + 0
          /\ Count(f, "working") = Count(caller, "working") + (-1)
          /\ Count(f, "queued") = Count(caller, "queued") + 0
      BY <1>5, <1>6, <2>1
    <3>2. (permits + 1) + 0 + (-1) + orphans' = permits + orphans /\ places' + 0 + 0 = places
      BY <1>2, <1>3, <2>1, AdmissionFacts
    <3>3. 0 \in Int /\ -1 \in Int
      OBVIOUS
    <3> QED BY ONLY AdmissionIsSound, <1>7, <3>1, <3>2, <3>3, Balance
  <2>2. CASE u = "granted"
    <3>1. /\ Count(f, "granted") = Count(caller, "granted") + (-1)
          /\ Count(f, "working") = Count(caller, "working") + 0
          /\ Count(f, "queued") = Count(caller, "queued") + 0
      BY <1>5, <1>6, <2>2
    <3>2. (permits + 1) + (-1) + 0 + orphans' = permits + orphans /\ places' + 0 + (-1) = places
      BY <1>2, <1>3, <2>2, AdmissionFacts
    <3>3. 0 \in Int /\ -1 \in Int
      OBVIOUS
    <3> QED BY ONLY AdmissionIsSound, <1>7, <3>1, <3>2, <3>3, Balance
  <2> QED BY <1>3, <2>1, <2>2
<1>9. \A d \in Callers : f[d] = "queued" <=> caller[d] = "queued"
  BY <1>3, <1>4
<1> QED BY ONLY AdmissionIsSound, <1>2, <1>7, <1>8, <1>9, ReleaseKeeps, f \in [Callers -> CallerStates]

LEMMA OrphanKeeps ==
  ASSUME AdmissionIsSound, FinishOrphan
  PROVE  AdmissionIsSound'
<1>1. orphans > 0 /\ orphans' = orphans - 1 /\ Release(caller) /\ places' = places
  BY DEF FinishOrphan
<1>2. permits + 1 \in Nat /\ places' \in Nat /\ orphans' \in Nat
  BY <1>1, AdmissionFacts
<1>3. \A s : Count(caller, s) \in Nat
  BY CountType
<1>4. Conserved(caller, permits + 1, places', orphans')
  <2>1. /\ Count(caller, "granted") = Count(caller, "granted") + 0
        /\ Count(caller, "working") = Count(caller, "working") + 0
        /\ Count(caller, "queued") = Count(caller, "queued") + 0
    BY <1>3
  <2>2. (permits + 1) + 0 + 0 + orphans' = permits + orphans /\ places' + 0 + 0 = places
    BY <1>1, AdmissionFacts
  <2>3. 0 \in Int
    OBVIOUS
  <2> QED BY ONLY AdmissionIsSound, <1>2, <2>1, <2>2, <2>3, Balance
<1> QED BY <1>1, <1>2, <1>4, AdmissionFacts, ReleaseKeeps

LEMMA StandKeeps ==
  ASSUME AdmissionIsSound, NEW c \in Callers, StandInLine(c)
  PROVE  AdmissionIsSound'
<1>1. /\ caller[c] = "idle" /\ places > 0 /\ places' = places - 1 /\ line' = Append(line, c)
      /\ caller' = [caller EXCEPT ![c] = "queued"] /\ UNCHANGED <<permits, orphans>>
      /\ "queued" \in CallerStates
  BY DEF StandInLine, Goes, CallerStates
<1>2. PICK f \in [Callers -> CallerStates] : f = caller'
  BY <1>1, AdmissionFacts
<1>3. /\ caller[c] = "idle" /\ "idle" # "queued" /\ f[c] = "queued"
      /\ \A d \in Callers : d # c => f[d] = caller[d]
  BY <1>1, <1>2, AdmissionFacts
<1>4. /\ Count(f, "queued") = Count(caller, "queued") + 1
      /\ \A s : s # "queued" /\ s # "idle" => Count(f, s) = Count(caller, s)
  BY ONLY AdmissionIsSound, c \in Callers, <1>1, <1>3, CallerCounts
<1>5. \A s : Count(caller, s) \in Nat
  BY CountType
<1>6. permits' \in Nat /\ places' \in Nat /\ orphans' \in Nat
  BY <1>1, AdmissionFacts
<1>7. Conserved(f, permits', places', orphans')
  <2>1. /\ Count(f, "granted") = Count(caller, "granted") + 0
        /\ Count(f, "working") = Count(caller, "working") + 0
        /\ Count(f, "queued") = Count(caller, "queued") + 1
    BY <1>4, <1>5
  <2>2. permits' + 0 + 0 + orphans' = permits + orphans /\ places' + 1 + 0 = places
    BY <1>1, <1>6, AdmissionFacts
  <2>3. 0 \in Int /\ 1 \in Int
    OBVIOUS
  <2> QED BY ONLY AdmissionIsSound, <1>6, <2>1, <2>2, <2>3, Balance
<1>8. line' \in Seq(Callers) /\ LineIsExact'
  <2>1. line \in Seq(Callers) /\ Exact(caller, line) /\ Len(line) \in Nat
    BY AdmissionFacts, ExactIs DEF AdmissionIsSound
  <2>2. PICK n \in Nat : n = Len(line)
    BY <2>1
  <2>3. PICK l \in Seq(Callers) : l = line'
    BY <1>1, <2>1
  <2>4. Len(l) = n + 1 /\ l[n + 1] = c /\ \A i \in 1..n : l[i] = line[i]
    BY <1>1, <2>1, <2>2, <2>3
  <2>5. \A i \in 1..n : line[i] # c
    BY <1>1, <2>1, <2>2 DEF Exact
  <2>6. \A i, j \in 1..Len(l) : l[i] = l[j] => i = j
    <3>1. \A i, j \in 1..n : l[i] = l[j] => i = j
      BY <2>1, <2>2, <2>4 DEF Exact
    <3>2. \A i \in 1..Len(l) : i \in 1..n \/ i = n + 1
      BY <2>4
    <3> QED BY <2>4, <2>5, <3>1, <3>2
  <2>7. ASSUME NEW d \in Callers PROVE f[d] = "queued" <=> \E i \in 1..Len(l) : l[i] = d
    <3>1. CASE d = c
      <4>1. n + 1 \in 1..Len(l)
        BY <2>4
      <4> QED BY <1>3, <2>4, <3>1, <4>1
    <3>2. CASE d # c
      <4>1. f[d] = "queued" <=> \E i \in 1..n : line[i] = d
        BY <1>3, <2>1, <2>2, <3>2 DEF Exact
      <4>2. \A i \in 1..Len(l) : i \in 1..n \/ i = n + 1
        BY <2>4
      <4>3. \A i \in 1..n : i \in 1..Len(l)
        BY <2>4
      <4> QED BY <2>4, <3>2, <4>1, <4>2, <4>3
    <3> QED BY <3>1, <3>2
  <2>8. Exact(f, l)
    BY <2>6, <2>7 DEF Exact
  <2> QED BY <1>2, <2>3, <2>8, ExactIs
<1> QED BY <1>2, <1>6, <1>7, <1>8, SoundAfter

LEMMA LeaveKeeps ==
  ASSUME AdmissionIsSound, NEW c \in Callers, LeaveLine(c)
  PROVE  AdmissionIsSound'
<1>1. /\ caller[c] = "queued" /\ places' = places + 1
      /\ caller' = [caller EXCEPT ![c] = "idle"] /\ UNCHANGED <<permits, orphans>>
      /\ "idle" \in CallerStates
  BY DEF LeaveLine, Goes, CallerStates
<1>2. PICK f \in [Callers -> CallerStates] : f = caller'
  BY <1>1, AdmissionFacts
<1>3. /\ caller[c] = "queued" /\ "queued" # "idle" /\ f[c] = "idle"
      /\ \A d \in Callers : d # c => f[d] = caller[d]
  BY <1>1, <1>2, AdmissionFacts
<1>4. /\ Count(f, "queued") = Count(caller, "queued") - 1
      /\ \A s : s # "idle" /\ s # "queued" => Count(f, s) = Count(caller, s)
  BY ONLY AdmissionIsSound, c \in Callers, <1>1, <1>3, CallerCounts
<1>5. \A s : Count(caller, s) \in Nat
  BY CountType
<1>6. permits' \in Nat /\ places' \in Nat /\ orphans' \in Nat
  BY <1>1, AdmissionFacts
<1>7. Conserved(f, permits', places', orphans')
  <2>1. /\ Count(f, "granted") = Count(caller, "granted") + 0
        /\ Count(f, "working") = Count(caller, "working") + 0
        /\ Count(f, "queued") = Count(caller, "queued") + (-1)
    BY <1>4, <1>5
  <2>2. permits' + 0 + 0 + orphans' = permits + orphans /\ places' + (-1) + 0 = places
    BY <1>1, <1>6, AdmissionFacts
  <2>3. 0 \in Int /\ -1 \in Int
    OBVIOUS
  <2> QED BY ONLY AdmissionIsSound, <1>6, <2>1, <2>2, <2>3, Balance
<1>8. line' \in Seq(Callers) /\ LineIsExact'
  <2>1. line \in Seq(Callers) /\ Exact(caller, line) /\ Len(line) \in Nat
    BY AdmissionFacts, ExactIs DEF AdmissionIsSound
  <2>2. PICK n \in Nat : n = Len(line)
    BY <2>1
  <2>3. PICK k \in 1..n : line[k] = c /\ line' = LineWithout(k)
    BY <2>1, <2>2 DEF LeaveLine
  <2>4. n - 1 \in Nat /\ \A i \in 1..n : line[i] \in Callers
    BY <2>1, <2>2, <2>3
  <2>5. line' = [i \in 1..(n - 1) |-> IF i < k THEN line[i] ELSE line[i + 1]]
    BY <2>2, <2>3 DEF LineWithout
  <2>6. \A i \in 1..(n - 1) : i \in 1..n /\ i + 1 \in 1..n /\ i \in Nat
    BY <2>2
  <2>7. line' \in Seq(Callers) /\ Len(line') = n - 1
    <3>1. line' \in [1..(n - 1) -> Callers]
      BY <2>4, <2>5, <2>6
    <3> QED BY <2>4, <3>1, SeqDef, LenProperties
  <2>8. PICK l \in Seq(Callers) : l = line'
    BY <2>7
  <2>9. /\ Len(l) = n - 1
        /\ \A i \in 1..(n - 1) : (i < k => l[i] = line[i]) /\ (~(i < k) => l[i] = line[i + 1])
    BY <2>5, <2>7, <2>8
  <2>10. \A i, j \in 1..n : line[i] = line[j] => i = j
    BY <2>1, <2>2 DEF Exact
  <2>11. \A i, j \in 1..Len(l) : l[i] = l[j] => i = j
    <3>1. ASSUME NEW i \in 1..(n - 1), NEW j \in 1..(n - 1), l[i] = l[j] PROVE i = j
      <4>1. PICK x \in 1..n : l[i] = line[x] /\ x = (IF i < k THEN i ELSE i + 1)
        BY <2>6, <2>9
      <4>2. PICK y \in 1..n : l[j] = line[y] /\ y = (IF j < k THEN j ELSE j + 1)
        BY <2>6, <2>9
      <4>3. x = y
        BY <2>10, <3>1, <4>1, <4>2
      <4> QED BY <2>3, <4>1, <4>2, <4>3
    <3> QED BY <2>9, <3>1
  <2>12. ASSUME NEW d \in Callers PROVE f[d] = "queued" <=> \E i \in 1..Len(l) : l[i] = d
    <3>1. ASSUME NEW i \in 1..(n - 1), l[i] = d PROVE f[d] = "queued"
      <4>1. PICK x \in 1..n : l[i] = line[x] /\ x = (IF i < k THEN i ELSE i + 1)
        BY <2>6, <2>9
      <4>2. x # k
        BY <2>3, <4>1
      <4>3. d # c /\ caller[d] = "queued"
        BY <2>1, <2>2, <2>3, <2>10, <3>1, <4>1, <4>2 DEF Exact
      <4> QED BY <1>3, <4>3
    <3>2. ASSUME f[d] = "queued" PROVE \E i \in 1..(n - 1) : l[i] = d
      <4>1. d # c /\ caller[d] = "queued"
        BY <1>3, <3>2
      <4>2. PICK x \in 1..n : line[x] = d
        BY <2>1, <2>2, <4>1 DEF Exact
      <4>3. x # k
        BY <2>3, <4>1, <4>2
      <4>4. CASE x < k
        <5>1. x \in 1..(n - 1) /\ l[x] = d
          BY <2>2, <2>3, <2>9, <4>2, <4>4
        <5> QED BY <5>1
      <4>5. CASE ~(x < k)
        <5>1. PICK y : y = x - 1
          OBVIOUS
        <5>2. y \in 1..(n - 1) /\ ~(y < k) /\ y + 1 = x
          BY <2>2, <2>3, <4>2, <4>3, <4>5, <5>1
        <5> QED BY <2>9, <4>2, <5>2
      <4> QED BY <4>4, <4>5
    <3> QED BY <2>9, <3>1, <3>2
  <2>13. Exact(f, l)
    BY <2>11, <2>12 DEF Exact
  <2> QED BY <1>2, <2>8, <2>13, ExactIs
<1> QED BY <1>2, <1>6, <1>7, <1>8, SoundAfter

LEMMA AdmissionInitial == AdmissionInit => AdmissionIsSound
<1> SUFFICES ASSUME AdmissionInit PROVE AdmissionIsSound
  OBVIOUS
<1>1. /\ permits = Concurrency /\ places = QueueCapacity /\ line = << >> /\ orphans = 0
      /\ \A c \in Callers : caller[c] = "idle"
      /\ caller \in [Callers -> CallerStates]
  BY DEF AdmissionInit, CallerStates
<1>2. AdmissionTypeOK
  BY <1>1, AdmissionConstantsOK DEF AdmissionTypeOK
<1>3. In("granted") = {} /\ In("working") = {} /\ In("queued") = {}
  BY <1>1 DEF In
<1>4. PermitsAreConserved
  <2>1. Cardinality(In("granted")) = 0 /\ Cardinality(In("working")) = 0 /\ Cardinality(In("queued")) = 0
    BY <1>3, FS_EmptySet
  <2>2. Concurrency + 0 + 0 + 0 = Concurrency /\ QueueCapacity + 0 + 0 = QueueCapacity
    BY AdmissionConstantsOK
  <2> QED BY <1>1, <2>1, <2>2 DEF PermitsAreConserved
<1>5. LineIsExact
  BY <1>1 DEF LineIsExact
<1> QED BY <1>2, <1>4, <1>5 DEF AdmissionIsSound

LEMMA AdmissionStep == AdmissionIsSound /\ [AdmissionNext]_admissionVars => AdmissionIsSound'
<1> SUFFICES ASSUME AdmissionIsSound, [AdmissionNext]_admissionVars PROVE AdmissionIsSound'
  OBVIOUS
<1>1. CASE UNCHANGED admissionVars
  BY <1>1 DEF admissionVars, AdmissionIsSound, AdmissionTypeOK, PermitsAreConserved, LineIsExact, In
<1>2. CASE AdmissionNext
  BY <1>2, AdmitKeeps, StandKeeps, StartKeeps, LeaveKeeps, FinishKeeps, DropWorkingKeeps, OrphanKeeps
     DEF AdmissionNext
<1> QED BY <1>1, <1>2

\* However many callers, permits and places there are, and whoever is dropped,
\* times out or finishes first: every permit and every place is accounted for,
\* at most Concurrency tasks run, and the line holds exactly those that wait.
THEOREM AdmissionSound == AdmissionSpec => []AdmissionIsSound
BY AdmissionInitial, AdmissionStep, PTL DEF AdmissionSpec

-----------------------------------------------------------------------------
(* Exports. *)

\* The tables, one by one.
LEMMA ExportFacts ==
  ASSUME ExportsInv
  PROVE  /\ export \in Seq(ExportRow) /\ Len(export) \in Nat /\ Len(export) <= MaxExports
         /\ DOMAIN export = 1..Len(export) /\ DOMAIN export \subseteq 1..MaxExports
         /\ asking \in [Clients -> Asking \cup {Silent}] /\ copies \in [1..MaxExports -> Nat]
         /\ data \in [Holders -> 0..MaxEdits] /\ hour \in 0..MaxHours /\ hour \in Nat
         /\ erasedOwners \subseteq Holders
         /\ MaxExports \in Nat /\ MaxEdits \in Nat /\ MaxHours \in Nat
<1>1. export \in Seq(ExportRow) /\ Len(export) <= MaxExports
  BY DEF ExportsInv, ExportsAreSafe, ExportsTypeOK
<1>2. Len(export) \in Nat /\ DOMAIN export = 1..Len(export)
  BY <1>1
<1> QED BY <1>1, <1>2, ExportConstantsOK DEF ExportsInv, ExportsAreSafe, ExportsTypeOK

\* A request that has a step to take.
LEMMA AskingFacts ==
  ASSUME ExportsInv, NEW c \in Clients, asking[c].pc # "silent"
  PROVE  /\ asking[c] \in Asking
         /\ asking[c].pc \in {"sections", "create"} =>
              asking[c] \in [pc : {"sections", "create"}, who : Holders, at : Nat, payload : Payload]
         /\ asking[c].pc \in {"payload", "check", "consume", "audit"} =>
              asking[c] \in [pc : {"payload", "check", "consume", "audit"}, who : Holders, at : Nat,
                             id : 1..MaxExports]
<1>1. asking[c] \in Asking
  BY ExportFacts DEF Silent
<1> QED BY <1>1 DEF Asking

LEMMA SilentIs == Silent.pc = "silent"
BY DEF Silent

\* What holds of the copies, now and after a step that leaves them types.
LEMMA InvAfter ==
  ASSUME ExportsTypeOK', OneTaker', PayloadsAreOneMoment', ExportIsOneMoment',
         \A i \in 1..MaxExports : copies'[i] <= 1
  PROVE  ExportsInv'
<1>1. DOMAIN copies' = 1..MaxExports
  BY DEF ExportsTypeOK
<1>2. OneCopy'
  BY <1>1 DEF OneCopy
<1> QED BY <1>2 DEF ExportsInv, ExportsAreSafe

LEMMA CopiesNow ==
  ASSUME ExportsInv, NEW i \in 1..MaxExports
  PROVE  copies[i] \in Nat /\ copies[i] <= 1
BY ExportFacts DEF ExportsInv, ExportsAreSafe, OneCopy

\* A request moves on and hands nothing over.
LEMMA ClientMoves ==
  ASSUME ExportsInv, NEW c \in Clients, NEW y \in Asking \cup {Silent}, y.pc # "audit",
         y.pc \in {"sections", "create"} => y.payload.sections = y.payload.account,
         asking' = [asking EXCEPT ![c] = y], UNCHANGED <<export, copies, data, hour, erasedOwners>>
  PROVE  ExportsInv'
<1>1. /\ asking' \in [Clients -> Asking \cup {Silent}] /\ asking'[c] = y
      /\ \A d \in Clients : d # c => asking'[d] = asking[d]
  BY ExportFacts
<1>2. ExportsTypeOK'
  BY <1>1 DEF ExportsInv, ExportsAreSafe, ExportsTypeOK
<1>3. \A d \in Clients : asking'[d].pc = "audit" => asking'[d] = asking[d]
  BY <1>1
<1>4. OneTaker'
  BY <1>3 DEF ExportsInv, OneTaker, Taken
<1>5. PayloadsAreOneMoment'
  BY <1>1 DEF ExportsInv, PayloadsAreOneMoment
<1>6. ExportIsOneMoment'
  BY DEF ExportsInv, ExportsAreSafe, ExportIsOneMoment
<1>7. \A i \in 1..MaxExports : copies'[i] <= 1
  BY CopiesNow
<1> QED BY <1>2, <1>4, <1>5, <1>6, <1>7, InvAfter

LEMMA FallsKeeps ==
  ASSUME ExportsInv, NEW c \in Clients, Falls(c), UNCHANGED <<export, copies, data, hour, erasedOwners>>
  PROVE  ExportsInv'
<1>1. Silent.pc # "audit" /\ Silent.pc \notin {"sections", "create"}
  BY SilentIs
<1> QED BY <1>1, ClientMoves DEF Falls

\* The download gets one statement further.
LEMMA ReachesKeeps ==
  ASSUME ExportsInv, NEW c \in Clients, asking[c].pc \in {"payload", "check"},
         NEW pc \in {"check", "consume"}, Reaches(c, pc), UNCHANGED <<export, copies, data, hour, erasedOwners>>
  PROVE  ExportsInv'
<1>1. PICK y : y = [asking[c] EXCEPT !.pc = pc]
  OBVIOUS
<1>2. y \in Asking /\ y.pc = pc
  BY <1>1, AskingFacts DEF Asking
<1>3. asking' = [asking EXCEPT ![c] = y]
  BY <1>1 DEF Reaches
<1> QED BY <1>2, <1>3, ClientMoves

LEMMA AskKeeps ==
  ASSUME ExportsInv, NEW c \in Clients,
         \/ \E u \in Holders : BeginExport(c, u)
         \/ \E i \in 1..MaxExports : BeginDownload(c, i)
         \/ AssembleSections(c) \/ ReadPayload(c) \/ (\E right \in BOOLEAN : CheckExport(c, right))
         \/ GiveUpAsking(c)
  PROVE  ExportsInv'
<1>1. ASSUME NEW u \in Holders, BeginExport(c, u) PROVE ExportsInv'
  <2>1. PICK v : v = [account |-> data[u], sections |-> data[u]]
    OBVIOUS
  <2>2. PICK y : y = [pc |-> "sections", who |-> u, at |-> hour, payload |-> v]
    OBVIOUS
  <2>3. v \in Payload /\ v.sections = v.account
    BY <2>1, ExportFacts DEF Payload
  <2>4. y \in Asking /\ y.pc = "sections" /\ y.payload = v
    BY <2>2, <2>3, ExportFacts DEF Asking
  <2>5. asking' = [asking EXCEPT ![c] = y] /\ UNCHANGED <<export, copies, data, hour, erasedOwners>>
    BY <1>1, <2>1, <2>2 DEF BeginExport
  <2> QED BY <2>3, <2>4, <2>5, ClientMoves
<1>2. ASSUME NEW i \in 1..MaxExports, BeginDownload(c, i) PROVE ExportsInv'
  <2>1. PICK y : y = [pc |-> "payload", who |-> export[i].owner, at |-> hour, id |-> i]
    OBVIOUS
  <2>2. i \in DOMAIN export /\ export[i] \in ExportRow
    BY <1>2, ExportFacts DEF BeginDownload, Kept
  <2>3. export[i].owner \in Holders
    BY <2>2 DEF ExportRow
  <2>4. y \in Asking /\ y.pc = "payload"
    BY <1>2, <2>1, <2>3, ExportFacts DEF Asking
  <2>5. asking' = [asking EXCEPT ![c] = y] /\ UNCHANGED <<export, copies, data, hour, erasedOwners>>
    BY <1>2, <2>1 DEF BeginDownload
  <2> QED BY <2>4, <2>5, ClientMoves
<1>3. CASE AssembleSections(c)
  <2>1. PICK x : x = asking[c]
    OBVIOUS
  <2>2. PICK y : y = [x EXCEPT !.pc = "create", !.payload.sections = x.payload.account]
    OBVIOUS
  <2>3. x \in [pc : {"sections", "create"}, who : Holders, at : Nat, payload : Payload]
    BY <1>3, <2>1, AskingFacts DEF AssembleSections
  <2>4. y \in Asking /\ y.pc = "create" /\ y.payload.sections = y.payload.account
    BY <2>2, <2>3 DEF Asking, Payload
  <2>5. asking' = [asking EXCEPT ![c] = y] /\ UNCHANGED <<export, copies, data, hour, erasedOwners>>
    BY <1>3, <2>1, <2>2 DEF AssembleSections, Seen
  <2> QED BY <2>4, <2>5, ClientMoves
<1>4. CASE ReadPayload(c)
  BY <1>4, ReachesKeeps, FallsKeeps DEF ReadPayload
<1>5. ASSUME NEW right \in BOOLEAN, CheckExport(c, right) PROVE ExportsInv'
  BY <1>5, ReachesKeeps, FallsKeeps DEF CheckExport
<1>6. CASE GiveUpAsking(c)
  BY <1>6, FallsKeeps DEF GiveUpAsking
<1> QED BY <1>1, <1>2, <1>3, <1>4, <1>5, <1>6

\* A request that is about to store its export.
LEMMA CreateKeeps ==
  ASSUME ExportsInv, NEW c \in Clients, CreateExport(c)
  PROVE  ExportsInv'
<1>1. PICK x : x = asking[c]
  OBVIOUS
<1>2. PICK r : r = [owner |-> x.who, state |-> "READY", expires |-> x.at + ExportHours, payload |-> x.payload]
  OBVIOUS
<1>3. /\ x.pc = "create" /\ Len(export) < MaxExports /\ export' = Append(export, r)
      /\ asking' = [asking EXCEPT ![c] = Silent] /\ UNCHANGED <<copies, data, hour, erasedOwners>>
  BY <1>1, <1>2 DEF CreateExport, Falls
<1>4. x \in [pc : {"sections", "create"}, who : Holders, at : Nat, payload : Payload]
  BY <1>1, <1>3, AskingFacts
<1>5. r \in ExportRow /\ r.payload.sections = r.payload.account
  <2>1. x.payload.sections = x.payload.account
    BY <1>1, <1>3 DEF ExportsInv, PayloadsAreOneMoment
  <2> QED BY <1>2, <1>4, <2>1 DEF ExportRow, ExportHours
<1>6. PICK n \in Nat : n = Len(export)
  BY ExportFacts
<1>7. /\ export' \in Seq(ExportRow) /\ Len(export') = n + 1 /\ DOMAIN export' = 1..(n + 1)
      /\ export'[n + 1] = r /\ \A i \in 1..n : export'[i] = export[i]
  BY <1>3, <1>5, <1>6, ExportFacts
<1>8. /\ asking' \in [Clients -> Asking \cup {Silent}] /\ asking'[c] = Silent
      /\ \A d \in Clients : d # c => asking'[d] = asking[d]
  BY <1>3, ExportFacts
<1>9. ExportsTypeOK'
  <2>1. Len(export') <= MaxExports
    BY <1>3, <1>6, <1>7, ExportFacts
  <2> QED BY <1>3, <1>7, <1>8, <2>1, ExportFacts DEF ExportsTypeOK
<1>10. \A d \in Clients : asking'[d].pc \in {"audit", "sections", "create"} => asking'[d] = asking[d]
  BY <1>8, SilentIs
<1>11. \A i \in 1..MaxExports : i \in DOMAIN export /\ export[i].state # "READY" =>
                                 i \in DOMAIN export' /\ export'[i].state # "READY"
  <2>1. \A i \in DOMAIN export : i \in DOMAIN export' /\ export'[i] = export[i]
    BY <1>6, <1>7, ExportFacts
  <2> QED BY <2>1
<1>12. OneTaker'
  <2>1. \A d \in Clients : asking'[d].pc = "audit" => Taken(asking[d])'
    <3>1. ASSUME NEW d \in Clients, asking'[d].pc = "audit" PROVE Taken(asking[d])'
      <4>1. asking'[d] = asking[d] /\ asking[d].pc = "audit"
        BY <1>10, <3>1
      <4>2. asking[d].id \in 1..MaxExports
        BY <4>1, AskingFacts
      <4>3. Taken(asking[d])
        BY <4>1 DEF ExportsInv, OneTaker
      <4> QED BY <1>3, <1>11, <4>1, <4>2, <4>3 DEF Taken
    <3> QED BY <3>1
  <2> QED BY <1>3, <1>10, <1>11, <2>1 DEF ExportsInv, OneTaker
<1>13. PayloadsAreOneMoment'
  BY <1>10 DEF ExportsInv, PayloadsAreOneMoment
<1>14. ExportIsOneMoment'
  <2>1. \A i \in 1..(n + 1) : i = n + 1 \/ i \in 1..n
    OBVIOUS
  <2>2. \A i \in 1..n : export[i].payload.sections = export[i].payload.account
    BY <1>6, ExportFacts DEF ExportsInv, ExportsAreSafe, ExportIsOneMoment
  <2> QED BY <1>5, <1>7, <2>1, <2>2 DEF ExportIsOneMoment
<1>15. \A i \in 1..MaxExports : copies'[i] <= 1
  BY <1>3, CopiesNow
<1> QED BY <1>9, <1>12, <1>13, <1>14, <1>15, InvAfter

\* Of the requests that reach it, one takes the export.
LEMMA ConsumeKeeps ==
  ASSUME ExportsInv, NEW c \in Clients, ConsumeDownload(c)
  PROVE  ExportsInv'
<1>1. PICK x : x = asking[c]
  OBVIOUS
<1>2. x.pc = "consume" /\ UNCHANGED <<copies, data, hour, erasedOwners>>
  BY <1>1 DEF ConsumeDownload
<1>3. x \in [pc : {"payload", "check", "consume", "audit"}, who : Holders, at : Nat, id : 1..MaxExports]
  BY <1>1, <1>2, AskingFacts
<1>4. CASE Unspent(x)
  <2>1. PICK i \in 1..MaxExports : i = x.id
    BY <1>3
  <2>2. PICK r : r = [export[i] EXCEPT !.state = "DOWNLOADED"]
    OBVIOUS
  <2>3. PICK y : y = [x EXCEPT !.pc = "audit"]
    OBVIOUS
  <2>4. /\ i \in DOMAIN export /\ export[i].state = "READY"
        /\ export' = [export EXCEPT ![i] = r] /\ asking' = [asking EXCEPT ![c] = y]
    BY <1>1, <1>4, <2>1, <2>2, <2>3 DEF ConsumeDownload, Unspent, Kept, Reaches
  <2>5. export[i] \in ExportRow
    BY <2>4, ExportFacts
  <2>6. r \in ExportRow /\ r.state = "DOWNLOADED" /\ r.payload = export[i].payload
    BY <2>2, <2>5 DEF ExportRow
  <2>7. y \in Asking /\ y.pc = "audit" /\ y.id = i
    BY <1>3, <2>1, <2>3 DEF Asking
  <2>8. /\ export' \in Seq(ExportRow) /\ Len(export') = Len(export) /\ DOMAIN export' = DOMAIN export
        /\ export'[i] = r /\ \A j \in DOMAIN export : j # i => export'[j] = export[j]
    BY <2>4, <2>6, ExportFacts
  <2>9. /\ asking' \in [Clients -> Asking \cup {Silent}] /\ asking'[c] = y
        /\ \A d \in Clients : d # c => asking'[d] = asking[d]
    BY <2>4, <2>7, ExportFacts
  <2>10. ExportsTypeOK'
    BY <1>2, <2>8, <2>9, ExportFacts DEF ExportsTypeOK
  <2>11. /\ copies[i] = 0
         /\ \A d \in Clients : asking[d].pc = "audit" => asking[d].id # i
    <3>1. ~(copies[i] > 0)
      BY <2>4 DEF ExportsInv, OneTaker
    <3> QED BY <2>1, <2>4, <3>1, CopiesNow DEF ExportsInv, OneTaker, Taken
  <2>12. \A j \in DOMAIN export : export[j].state # "READY" => export'[j].state # "READY"
    BY <2>6, <2>8
  <2>13. \A d \in Clients : asking'[d].pc = "audit" => Taken(asking[d])'
    <3>1. ASSUME NEW d \in Clients, asking'[d].pc = "audit" PROVE Taken(asking[d])'
      <4>1. CASE d = c
        BY <1>2, <2>1, <2>4, <2>6, <2>7, <2>8, <2>9, <2>11, <4>1 DEF Taken
      <4>2. CASE d # c
        <5>1. asking'[d] = asking[d] /\ Taken(asking[d])
          BY <2>9, <3>1, <4>2 DEF ExportsInv, OneTaker
        <5> QED BY <1>2, <2>8, <2>12, <5>1 DEF Taken
      <4> QED BY <4>1, <4>2
    <3> QED BY <3>1
  <2>14. ASSUME NEW d \in Clients, NEW e \in Clients, asking'[d].pc = "audit", asking'[e].pc = "audit",
                asking'[d].id = asking'[e].id
         PROVE  d = e
    <3>1. CASE d # c /\ e # c
      BY <2>9, <2>14, <3>1 DEF ExportsInv, OneTaker
    <3>2. CASE d = c /\ e # c
      BY <2>7, <2>9, <2>11, <2>14, <3>2
    <3>3. CASE d # c /\ e = c
      BY <2>7, <2>9, <2>11, <2>14, <3>3
    <3> QED BY <3>1, <3>2, <3>3
  <2>15. OneTaker'
    BY <1>2, <2>8, <2>12, <2>13, <2>14 DEF ExportsInv, OneTaker
  <2>16. PayloadsAreOneMoment'
    BY <2>7, <2>9 DEF ExportsInv, PayloadsAreOneMoment
  <2>17. ExportIsOneMoment'
    BY <2>4, <2>6, <2>8 DEF ExportsInv, ExportsAreSafe, ExportIsOneMoment
  <2>18. \A j \in 1..MaxExports : copies'[j] <= 1
    BY <1>2, CopiesNow
  <2> QED BY <2>10, <2>15, <2>16, <2>17, <2>18, InvAfter
<1>5. CASE ~Unspent(x)
  BY <1>1, <1>2, <1>5, FallsKeeps DEF ConsumeDownload
<1> QED BY <1>4, <1>5

\* Whoever took the export hands it over, once.
LEMMA HandOverKeeps ==
  ASSUME ExportsInv, NEW c \in Clients, HandOver(c)
  PROVE  ExportsInv'
<1>1. PICK i : i = asking[c].id
  OBVIOUS
<1>2. /\ asking[c].pc = "audit" /\ copies' = [copies EXCEPT ![i] = copies[i] + 1]
      /\ asking' = [asking EXCEPT ![c] = Silent] /\ UNCHANGED <<export, data, hour, erasedOwners>>
  BY <1>1 DEF HandOver, Falls
<1>3. i \in 1..MaxExports
  BY <1>1, <1>2, AskingFacts
<1>4. i \in DOMAIN export /\ export[i].state # "READY" /\ copies[i] = 0
  BY <1>1, <1>2 DEF ExportsInv, OneTaker, Taken
<1>5. /\ asking' \in [Clients -> Asking \cup {Silent}] /\ asking'[c] = Silent
      /\ \A d \in Clients : d # c => asking'[d] = asking[d]
  BY <1>2, ExportFacts
<1>6. /\ copies' \in [1..MaxExports -> Nat] /\ copies'[i] = 1
      /\ \A j \in 1..MaxExports : j # i => copies'[j] = copies[j]
  BY <1>2, <1>3, <1>4, ExportFacts
<1>7. ExportsTypeOK'
  BY <1>2, <1>5, <1>6, ExportFacts DEF ExportsTypeOK
<1>8. \A d \in Clients : asking'[d].pc \in {"audit", "sections", "create"} => d # c /\ asking'[d] = asking[d]
  BY <1>5, SilentIs
<1>9. \A d \in Clients : asking'[d].pc = "audit" => Taken(asking[d])'
  <2>1. ASSUME NEW d \in Clients, asking'[d].pc = "audit" PROVE Taken(asking[d])'
    <3>1. d # c /\ asking'[d] = asking[d] /\ asking[d].pc = "audit"
      BY <1>8, <2>1
    <3>2. Taken(asking[d]) /\ asking[d].id # i /\ asking[d].id \in 1..MaxExports
      BY <1>1, <1>2, <3>1, AskingFacts DEF ExportsInv, OneTaker
    <3> QED BY <1>2, <1>6, <3>1, <3>2 DEF Taken
  <2> QED BY <2>1
<1>10. OneTaker'
  <2>1. \A j \in 1..MaxExports : copies'[j] > 0 => j \in DOMAIN export /\ export[j].state # "READY"
    BY <1>4, <1>6 DEF ExportsInv, OneTaker
  <2> QED BY <1>2, <1>8, <1>9, <2>1 DEF ExportsInv, OneTaker
<1>11. PayloadsAreOneMoment'
  BY <1>8 DEF ExportsInv, PayloadsAreOneMoment
<1>12. ExportIsOneMoment'
  BY <1>2 DEF ExportsInv, ExportsAreSafe, ExportIsOneMoment
<1>13. \A j \in 1..MaxExports : copies'[j] <= 1
  BY <1>6, CopiesNow
<1> QED BY <1>7, <1>10, <1>11, <1>12, <1>13, InvAfter

\* Rows are deleted, whoever is about to hand one over.
LEMMA DeletesKeep ==
  ASSUME ExportsInv, NEW gone, export' = Without(gone), UNCHANGED <<asking, copies, data, hour>>,
         erasedOwners' \subseteq Holders
  PROVE  ExportsInv'
<1>1. \A j \in DOMAIN export : export[j] \in ExportRow
  BY ExportFacts
<1>2. export' = [j \in DOMAIN export |-> IF j \in gone THEN [export[j] EXCEPT !.state = "GONE"] ELSE export[j]]
  BY DEF Without
<1>3. ASSUME NEW j \in DOMAIN export
      PROVE  /\ export'[j] \in ExportRow /\ export'[j].payload = export[j].payload
             /\ export[j].state # "READY" => export'[j].state # "READY"
  <2>1. CASE j \in gone
    BY <1>1, <1>2, <2>1 DEF ExportRow
  <2>2. CASE j \notin gone
    BY <1>1, <1>2, <2>2
  <2> QED BY <2>1, <2>2
<1>4. PICK n \in Nat : n = Len(export) /\ DOMAIN export = 1..n
  BY ExportFacts
<1>5. export' \in [1..n -> ExportRow]
  BY <1>2, <1>3, <1>4
<1>6. export' \in Seq(ExportRow) /\ Len(export') = n /\ DOMAIN export' = DOMAIN export
  BY <1>4, <1>5, SeqDef, LenProperties
<1>7. ExportsTypeOK'
  BY <1>4, <1>6, ExportFacts DEF ExportsTypeOK
<1>8. \A c \in Clients : asking'[c].pc = "audit" => Taken(asking[c])'
  BY <1>3, <1>6 DEF ExportsInv, OneTaker, Taken
<1>9. OneTaker'
  BY <1>3, <1>6, <1>8 DEF ExportsInv, OneTaker
<1>10. PayloadsAreOneMoment'
  BY DEF ExportsInv, PayloadsAreOneMoment
<1>11. ExportIsOneMoment'
  BY <1>3, <1>6 DEF ExportsInv, ExportsAreSafe, ExportIsOneMoment
<1>12. \A j \in 1..MaxExports : copies'[j] <= 1
  BY CopiesNow
<1> QED BY <1>7, <1>9, <1>10, <1>11, <1>12, InvAfter

LEMMA ExportsRest ==
  ASSUME ExportsInv, UNCHANGED <<export, asking, copies, erasedOwners>>,
         data' \in [Holders -> 0..MaxEdits], hour' \in 0..MaxHours
  PROVE  ExportsInv'
BY DEF ExportsInv, ExportsAreSafe, ExportsTypeOK, OneCopy, ExportIsOneMoment, OneTaker, Taken,
       PayloadsAreOneMoment

LEMMA ExportsInitial == ExportsInit => ExportsInv
<1> SUFFICES ASSUME ExportsInit PROVE ExportsInv
  OBVIOUS
<1>1. /\ export = << >> /\ DOMAIN export = {} /\ (\A c \in Clients : asking[c] = Silent)
      /\ \A i \in 1..MaxExports : copies[i] = 0
  BY DEF ExportsInit
<1>2. ExportsTypeOK
  BY <1>1, ExportConstantsOK DEF ExportsInit, ExportsTypeOK
<1>3. OneCopy /\ ExportIsOneMoment
  BY <1>1 DEF ExportsInit, OneCopy, ExportIsOneMoment
<1>4. OneTaker /\ PayloadsAreOneMoment
  BY <1>1, SilentIs DEF OneTaker, PayloadsAreOneMoment
<1> QED BY <1>2, <1>3, <1>4 DEF ExportsInv, ExportsAreSafe

LEMMA ExportsStep == ExportsInv /\ [ExportsNext]_exportVars => ExportsInv'
<1> SUFFICES ASSUME ExportsInv, [ExportsNext]_exportVars PROVE ExportsInv'
  OBVIOUS
<1>1. CASE UNCHANGED exportVars
  BY <1>1, ExportsRest, ExportFacts DEF exportVars
<1>2. ASSUME NEW c \in Clients,
             \/ \E u \in Holders : BeginExport(c, u)
             \/ \E i \in 1..MaxExports : BeginDownload(c, i)
             \/ AssembleSections(c) \/ CreateExport(c) \/ ReadPayload(c) \/ ConsumeDownload(c) \/ HandOver(c)
             \/ \E right \in BOOLEAN : CheckExport(c, right)
             \/ GiveUpAsking(c)
      PROVE  ExportsInv'
  BY <1>2, AskKeeps, CreateKeeps, ConsumeKeeps, HandOverKeeps
<1>3. CASE PurgeExports
  BY <1>3, DeletesKeep, ExportFacts DEF PurgeExports
<1>4. CASE HourPasses
  <2>1. hour' \in 0..MaxHours
    BY <1>4, ExportFacts DEF HourPasses
  <2> QED BY <1>4, <2>1, ExportsRest, ExportFacts DEF HourPasses
<1>5. ASSUME NEW u \in Holders, EraseOwner(u) PROVE ExportsInv'
  BY <1>5, DeletesKeep, ExportFacts DEF EraseOwner
<1>6. ASSUME NEW u \in Holders, EditData(u) PROVE ExportsInv'
  <2>1. data[u] < MaxEdits /\ data[u] \in 0..MaxEdits /\ data' = [data EXCEPT ![u] = data[u] + 1]
        /\ UNCHANGED <<export, asking, copies, hour, erasedOwners>>
    BY <1>6, ExportFacts DEF EditData
  <2>2. data[u] + 1 \in 0..MaxEdits
    BY <2>1, ExportFacts
  <2>3. data' \in [Holders -> 0..MaxEdits]
    BY <2>1, <2>2, ExportFacts
  <2> QED BY <2>1, <2>3, ExportsRest, ExportFacts
<1> QED BY <1>1, <1>2, <1>3, <1>4, <1>5, <1>6 DEF ExportsNext

\* One copy of one moment leaves the server, for every number of requests that
\* hold the token, of exports and of changes between their statements.
THEOREM ExportsSafe == ExportsSpec => []ExportsAreSafe
<1>1. ExportsInv => ExportsAreSafe
  BY DEF ExportsInv
<1> QED BY <1>1, ExportsInitial, ExportsStep, PTL DEF ExportsSpec
=============================================================================
