------------------------------ MODULE JobQueue ------------------------------
(***************************************************************************)
(* The durable job queue: the table background_job, the worker loops that  *)
(* claim and run its rows, the inline mail dispatcher, and the three       *)
(* writers outside the queue that may end a mail row while it is claimed   *)
(* (account deletion, re-registration, retention).                         *)
(*                                                                         *)
(* TIME.  Every timestamp is kept relative to the database clock: run_at   *)
(* is the number of ticks until the row is due, lease the number of ticks  *)
(* until lease_expires_at.  Tick moves all of them.  Of rows already due   *)
(* only the order of their run_at matters, so Tick renumbers them from 0   *)
(* (the latest) downwards; an expired lease stays at -1.                   *)
(* The instants that run_job reads before it writes an outcome (next run,  *)
(* backoff) are taken at the write.                                        *)
(*                                                                         *)
(* A job is its idempotency key: its row is created, settled, collected    *)
(* and may be created again.  The row's max_attempts is the configured     *)
(* JOBS_MAX_ATTEMPTS, which every enqueue and every registration passes.   *)
(***************************************************************************)
EXTENDS Integers, FiniteSets

CONSTANTS
  Workers,        \* worker processes (Worker::run)
  Inliners,       \* request tasks that dispatch admitted mail inline
  Mail,           \* jobs of kind email.send
  Plain,          \* other one-shot jobs
  Gc, Retention,  \* the two recurring jobs, jobs.gc and retention
  Unregistered,   \* one-shot jobs whose kind has no handler
  MaxAttempts,    \* JOBS_MAX_ATTEMPTS
  BatchSize,      \* JOBS_BATCH_SIZE
  LeaseTtl,       \* JOBS_LEASE_TTL_MS, in ticks
  InlineLease,    \* the 30 seconds of the inline claim
  InlineDelay,    \* the 2 seconds of the inline retry
  Period,         \* every_seconds of the recurring schedules
  BackoffBase,    \* JOBS_BACKOFF_BASE_MS
  MaxDelay,       \* where the saturating backoff arithmetic stops
  Seqs,           \* bound: claim numbers in use at once
  MaxFaults,      \* bound: crashes, restarts and database errors
  LegacyRows,     \* rows older releases may have left for the recurring keys
  NoOwner

Recurring == Gc \cup Retention
OneShot   == Mail \cup Plain
Jobs      == Recurring \cup OneShot
Claimers  == Workers \cup Inliners
Owners    == [worker : Claimers, seq : Seqs]

ASSUME JobsDisjoint ==
  /\ Recurring \cap OneShot = {} /\ Mail \cap Plain = {} /\ Gc \cap Retention = {}
  /\ Workers \cap Inliners = {} /\ Unregistered \subseteq Plain
ASSUME NumbersOK ==
  /\ MaxAttempts \in Nat \ {0} /\ BatchSize \in Nat \ {0}
  /\ LeaseTtl \in Nat \ {0} /\ InlineLease \in Nat \ {0} /\ InlineDelay \in Nat
  /\ Period \in Nat \ {0} /\ BackoffBase \in Nat /\ MaxDelay \in Nat
  /\ MaxFaults \in Nat /\ Seqs \subseteq Nat
ASSUME NoOwnerOK == NoOwner \notin Owners /\ IsFiniteSet(Jobs)

VARIABLES
  rows,          \* background_job, by idempotency key
  active,        \* the attempts under way (one per claimed row in a process)
  loop,          \* where each worker's run_inner loop is
  todo,          \* the recurring keys its bootstrap pass has yet to reconcile
  bootstrapped,  \* the loop's flag: a bootstrap pass was complete
  incomplete,    \* the pass under way already had a failed key
  faults         \* crashes, restarts and database errors so far

vars == <<rows, active, loop, todo, bootstrapped, incomplete, faults>>
workerVars == <<loop, todo, bootstrapped, incomplete>>

Terminal  == {"succeeded", "failed"}
Open      == {"pending", "running"}
States    == {"absent"} \cup Open \cup Terminal
Schedules == {"none", "every", "invalid"}
Outcomes  == {"ok", "failed", "permanent", "nohandler"}

Row == [state : States, attempts : Nat, run_at : Int, schedule : Schedules,
        claimed_by : Owners \cup {NoOwner}, lease : Int,
        redacted : BOOLEAN, aged : BOOLEAN]

Attempt == [owner : Owners, job : Jobs, attempts : Nat, schedule : Schedules,
            pc : {"running"} \cup Outcomes, heartbeat : BOOLEAN]

ASSUME LegacyOK ==
  \A r \in LegacyRows : /\ r \in Row /\ r.attempts <= MaxAttempts
                        /\ r.claimed_by = NoOwner /\ r.state \in {"pending"} \cup Terminal
                        /\ r.state = "pending" => r.attempts < MaxAttempts

-----------------------------------------------------------------------------
(* Rows. *)

NoRow == [state |-> "absent", attempts |-> 0, run_at |-> 0, schedule |-> "none",
          claimed_by |-> NoOwner, lease |-> -1, redacted |-> FALSE, aged |-> FALSE]

NewRow(schedule, run_at) ==
  [state |-> "pending", attempts |-> 0, run_at |-> run_at, schedule |-> schedule,
   claimed_by |-> NoOwner, lease |-> -1, redacted |-> FALSE, aged |-> FALSE]

\* Back to the queue, unclaimed.
Requeued(row, attempts, run_at) ==
  [state |-> "pending", attempts |-> attempts, run_at |-> run_at, schedule |-> row.schedule,
   claimed_by |-> NoOwner, lease |-> -1, redacted |-> row.redacted, aged |-> row.aged]

\* Mutant: only the dead letter redacts, a delivered mail keeps its payload.
MutSettledKeepsPayload(j, state) ==
  [rows[j] EXCEPT !.state = state, !.claimed_by = NoOwner, !.lease = -1,
                  !.redacted = @ \/ (j \in Mail /\ state = "failed"), !.aged = FALSE]

\* A terminal state; a mail row loses its payload on the way.
Settled(j, state) ==
  [state |-> state, attempts |-> rows[j].attempts, run_at |-> rows[j].run_at,
   schedule |-> rows[j].schedule, claimed_by |-> NoOwner, lease |-> -1,
   redacted |-> rows[j].redacted \/ j \in Mail, aged |-> FALSE]

\* What account deletion and retention do to a mail row in any state: an open
\* row fails, a settled one keeps its state; both lose payload and lease.
Cancelled(j) ==
  LET open == rows[j].state \in Open
  IN  [state |-> IF open THEN "failed" ELSE rows[j].state, attempts |-> rows[j].attempts,
       run_at |-> rows[j].run_at, schedule |-> rows[j].schedule, claimed_by |-> NoOwner,
       lease |-> -1, redacted |-> TRUE, aged |-> ~open /\ rows[j].aged]

Present(j) == rows[j].state # "absent"
Exhausted(j) == rows[j].attempts >= MaxAttempts
Due(j) == rows[j].run_at <= 0

\* The fence of every post-claim write: still running, still this claim's,
\* lease not over.
Holds(a) == /\ rows[a.job].state = "running"
            /\ rows[a.job].claimed_by = a.owner
            /\ rows[a.job].lease > 0

ActiveOf(w) == {a \in active : a.owner.worker = w}

\* claim_sequence: a token no row and no attempt carries.
FreshOwner(o) == /\ \A j \in Jobs : rows[j].claimed_by # o
                 /\ \A a \in active : a.owner # o

\* Mutant: claimed_by is the worker's id, without the claim's number.
MutOwnerIsWorker(o) == \A n \in Seqs : o.seq <= n

NextOwner(o) == /\ FreshOwner(o)
                /\ \A n \in Seqs : n < o.seq => ~FreshOwner([o EXCEPT !.seq = n])

Smaller(x, y) == IF x <= y THEN x ELSE y

\* backoff_ms: base * 2^(attempt-1) + jitter in [0, base), saturating.
Backoff(attempt) ==
  {d \in 0..MaxDelay :
     \E jitter \in 0..(IF BackoffBase = 0 THEN 0 ELSE BackoffBase - 1) :
        d = Smaller(MaxDelay, BackoffBase * 2^(Smaller(attempt - 1, 63)) + jitter)}

Fault == faults < MaxFaults /\ faults' = faults + 1

-----------------------------------------------------------------------------
(* Initially no job is queued; a recurring key may hold a row of an older  *)
(* release, and every worker is down.                                      *)

Init ==
  /\ rows \in {f \in [Jobs -> {NoRow} \cup LegacyRows] : \A j \in OneShot : f[j] = NoRow}
  /\ active = {}
  /\ loop = [w \in Workers |-> "down"]
  /\ todo = [w \in Workers |-> {}]
  /\ bootstrapped = [w \in Workers |-> FALSE]
  /\ incomplete = [w \in Workers |-> FALSE]
  /\ faults = 0

-----------------------------------------------------------------------------
(* Time. *)

After(t) == t - 1

\* The rows due after the tick whose run_at is later than t.
DueLater(t) == {k \in Jobs : /\ Present(k)
                             /\ t < After(rows[k].run_at) /\ After(rows[k].run_at) <= 0}

RunAtAfterTick(t) == IF After(t) > 0 THEN After(t) ELSE -Cardinality(DueLater(After(t)))

LeaseAfterTick(t) == IF t < 0 THEN t ELSE After(t)

Tick ==
  /\ rows' = [j \in Jobs |->
                IF Present(j) THEN [rows[j] EXCEPT !.run_at = RunAtAfterTick(@),
                                                   !.lease = LeaseAfterTick(@)]
                ELSE rows[j]]
  /\ UNCHANGED <<active, workerVars, faults>>

\* finished_at falls behind the history retention.
Age(j) ==
  /\ rows[j].state \in Terminal /\ ~rows[j].aged
  /\ rows' = [rows EXCEPT ![j].aged = TRUE]
  /\ UNCHANGED <<active, workerVars, faults>>

-----------------------------------------------------------------------------
(* Admission: an existing key makes it a no-op. *)

Enqueue(j, run_at) ==
  /\ ~Present(j)
  /\ rows' = [rows EXCEPT ![j] = NewRow("none", run_at)]
  /\ UNCHANGED <<active, workerVars, faults>>

-----------------------------------------------------------------------------
(* The worker loop. *)

Start(w) ==
  /\ loop[w] = "down"
  /\ loop' = [loop EXCEPT ![w] = "bootstrap"]
  /\ todo' = [todo EXCEPT ![w] = Recurring]
  /\ bootstrapped' = [bootstrapped EXCEPT ![w] = FALSE]
  /\ incomplete' = [incomplete EXCEPT ![w] = FALSE]
  /\ UNCHANGED <<rows, active, faults>>

\* Mutant: a running row without a schedule counts as reconciled.
MutReconcilableRunning(row) == row.schedule # "invalid"

\* The rows register_recurring can reconcile: no foreign schedule, and not a
\* running row whose claim was taken without a schedule.
Reconcilable(row) == /\ row.schedule # "invalid"
                     /\ ~(row.state = "running" /\ row.schedule = "none")

Reconciled(row) ==
  CASE row.state = "absent" -> NewRow("every", 0)
    [] row.state = "pending" -> [row EXCEPT !.schedule = "every"]
    [] row.state = "running" -> row
    [] row.state = "failed" /\ row.schedule = "every" -> Requeued(row, 0, Period)
    [] OTHER -> [Requeued(row, 0, 0) EXCEPT !.schedule = "every"]

Register(w, j) ==
  /\ loop[w] = "bootstrap" /\ j \in todo[w]
  /\ Reconcilable(rows[j])
  /\ rows' = [rows EXCEPT ![j] = Reconciled(rows[j])]
  /\ todo' = [todo EXCEPT ![w] = @ \ {j}]
  /\ UNCHANGED <<active, loop, bootstrapped, incomplete, faults>>

RegisterDeferred(w, j) ==
  /\ loop[w] = "bootstrap" /\ j \in todo[w]
  /\ ~Reconcilable(rows[j])
  /\ todo' = [todo EXCEPT ![w] = @ \ {j}]
  /\ incomplete' = [incomplete EXCEPT ![w] = TRUE]
  /\ UNCHANGED <<rows, active, loop, bootstrapped, faults>>

RegisterError(w, j) ==
  /\ loop[w] = "bootstrap" /\ j \in todo[w] /\ Fault
  /\ todo' = [todo EXCEPT ![w] = @ \ {j}]
  /\ incomplete' = [incomplete EXCEPT ![w] = TRUE]
  /\ UNCHANGED <<rows, active, loop, bootstrapped>>

BootstrapEnds(w) ==
  /\ loop[w] = "bootstrap" /\ todo[w] = {}
  /\ loop' = [loop EXCEPT ![w] = "poll"]
  /\ bootstrapped' = [bootstrapped EXCEPT ![w] = ~incomplete[w]]
  /\ incomplete' = [incomplete EXCEPT ![w] = FALSE]
  /\ UNCHANGED <<rows, active, todo, faults>>

\* An incomplete pass is tried again between polls.
BootstrapAgain(w) ==
  /\ loop[w] = "poll" /\ ~bootstrapped[w]
  /\ loop' = [loop EXCEPT ![w] = "bootstrap"]
  /\ todo' = [todo EXCEPT ![w] = Recurring]
  /\ UNCHANGED <<rows, active, bootstrapped, incomplete, faults>>

\* The first transaction of claim: expired leases whose budget is spent.
Finalized(j) ==
  IF rows[j].schedule = "every" THEN Requeued(rows[j], 0, Period)
                                ELSE Settled(j, "failed")

\* Mutant: expired leases without attempts left are not swept.
MutNoExhaustedLease(j) == FALSE

ExhaustedLease(j) == rows[j].state = "running" /\ rows[j].lease < 0 /\ Exhausted(j)

FinalizeExhaustedLeases(w) ==
  /\ loop[w] = "poll" /\ Cardinality(ActiveOf(w)) < BatchSize
  /\ rows' = [j \in Jobs |-> IF ExhaustedLease(j) THEN Finalized(j) ELSE rows[j]]
  /\ loop' = [loop EXCEPT ![w] = "claim"]
  /\ UNCHANGED <<active, todo, bootstrapped, incomplete, faults>>

\* Mutant: an expired lease is reclaimed whatever its attempts.
MutClaimableBeyondBudget(j) ==
  /\ Due(j)
  /\ \/ rows[j].state = "pending"
     \/ rows[j].state = "running" /\ rows[j].lease < 0

\* The second one: due pending rows, or expired leases with attempts left.
Claimable(j) ==
  /\ Due(j)
  /\ \/ rows[j].state = "pending"
     \/ rows[j].state = "running" /\ rows[j].lease < 0 /\ ~Exhausted(j)

Oldest(j) == Claimable(j) /\ \A k \in Jobs : Claimable(k) => rows[j].run_at <= rows[k].run_at

ClaimedRow(j, o, ttl) ==
  [state |-> "running", attempts |-> rows[j].attempts + 1, run_at |-> rows[j].run_at,
   schedule |-> rows[j].schedule, claimed_by |-> o, lease |-> ttl,
   redacted |-> rows[j].redacted, aged |-> rows[j].aged]

\* run_job's start: a kind without a handler has neither task nor heartbeat.
NewAttempt(j, o) ==
  [owner |-> o, job |-> j, attempts |-> rows[j].attempts + 1,
   schedule |-> rows[j].schedule,
   pc |-> IF j \in Unregistered THEN "nohandler" ELSE "running",
   heartbeat |-> j \notin Unregistered /\ o.worker \in Workers]

Claim(w, j) ==
  /\ loop[w] = "claim" /\ Oldest(j)
  /\ \E o \in Owners :
       /\ o.worker = w /\ NextOwner(o)
       /\ rows' = [rows EXCEPT ![j] = ClaimedRow(j, o, LeaseTtl)]
       /\ active' = active \cup {NewAttempt(j, o)}
  /\ loop' = [loop EXCEPT ![w] = "poll"]
  /\ UNCHANGED <<todo, bootstrapped, incomplete, faults>>

\* The claim commits, but its answer never reaches the loop.
ClaimLost(w, j) ==
  /\ loop[w] = "claim" /\ Oldest(j) /\ Fault
  /\ \E o \in Owners :
       /\ o.worker = w /\ NextOwner(o)
       /\ rows' = [rows EXCEPT ![j] = ClaimedRow(j, o, LeaseTtl)]
  /\ loop' = [loop EXCEPT ![w] = "poll"]
  /\ UNCHANGED <<active, todo, bootstrapped, incomplete>>

NothingDue(w) ==
  /\ loop[w] = "claim" /\ \A j \in Jobs : ~Claimable(j)
  /\ loop' = [loop EXCEPT ![w] = "poll"]
  /\ UNCHANGED <<rows, active, todo, bootstrapped, incomplete, faults>>

\* The shutdown token: no more claims, the active attempts may finish ...
Shutdown(w) ==
  /\ loop[w] \notin {"down", "draining"} /\ Fault
  /\ loop' = [loop EXCEPT ![w] = "draining"]
  /\ todo' = [todo EXCEPT ![w] = {}]
  /\ UNCHANGED <<rows, active, bootstrapped, incomplete>>

\* ... until the grace is over; then they are cancelled and joined.
Stop(w) ==
  /\ loop[w] = "draining"
  /\ active' = active \ ActiveOf(w)
  /\ loop' = [loop EXCEPT ![w] = "down"]
  /\ bootstrapped' = [bootstrapped EXCEPT ![w] = FALSE]
  /\ incomplete' = [incomplete EXCEPT ![w] = FALSE]
  /\ UNCHANGED <<rows, todo, faults>>

Crash(w) ==
  /\ loop[w] # "down" /\ Fault
  /\ active' = active \ ActiveOf(w)
  /\ loop' = [loop EXCEPT ![w] = "down"]
  /\ todo' = [todo EXCEPT ![w] = {}]
  /\ bootstrapped' = [bootstrapped EXCEPT ![w] = FALSE]
  /\ incomplete' = [incomplete EXCEPT ![w] = FALSE]
  /\ UNCHANGED rows

-----------------------------------------------------------------------------
(* Inline dispatch of an admitted mail: claim_id, no heartbeat. *)

InlineClaimable(j) ==
  /\ Due(j) /\ ~Exhausted(j)
  /\ \/ rows[j].state = "pending"
     \/ rows[j].state = "running" /\ rows[j].lease <= 0

InlineClaim(i, j) ==
  /\ ActiveOf(i) = {} /\ InlineClaimable(j)
  /\ \E o \in Owners :
       /\ o.worker = i /\ NextOwner(o)
       /\ rows' = [rows EXCEPT ![j] = ClaimedRow(j, o, InlineLease)]
       /\ active' = active \cup {NewAttempt(j, o)}
  /\ UNCHANGED <<workerVars, faults>>

\* The request task is dropped with its attempt.
InlineDropped(i) ==
  /\ ActiveOf(i) # {} /\ Fault
  /\ active' = active \ ActiveOf(i)
  /\ UNCHANGED <<rows, workerVars>>

-----------------------------------------------------------------------------
(* An attempt: run_job. *)

Advance(a, b) == active' = (active \ {a}) \cup {b}
Ends(a) == active' = active \ {a}

\* jobs.gc: settled rows past the history retention, schedules excepted.
Collected ==
  [j \in Jobs |->
     IF rows[j].state \in Terminal /\ rows[j].schedule = "none" /\ rows[j].aged
     THEN NoRow ELSE rows[j]]

\* Account deletion and the token purges of retention: all mail of the account,
\* the mail whose credential has expired.
CancelMail(mails) ==
  [j \in Jobs |-> IF j \in mails /\ Present(j) THEN Cancelled(j) ELSE rows[j]]

\* What a handler did to the table by the time it returns.  retention is a
\* series of purges, a failed one neither stops nor undoes the others.
TablesAfter(j, outcome) ==
  CASE j \in Gc -> {IF outcome = "ok" THEN Collected ELSE rows}
    [] j \in Retention -> {CancelMail(expired) : expired \in SUBSET Mail}
    [] OTHER -> {rows}

\* The handler returns, panics or times out (both of which count as failed).
HandlerEnds(a, outcome) ==
  /\ a.pc = "running"
  /\ rows' \in TablesAfter(a.job, outcome)
  /\ Advance(a, [a EXCEPT !.pc = outcome])
  /\ UNCHANGED <<workerVars, faults>>

Heartbeat(a) ==
  /\ a.heartbeat /\ Holds(a)
  /\ rows' = [rows EXCEPT ![a.job].lease = LeaseTtl]
  /\ UNCHANGED <<active, workerVars, faults>>

\* Lost ownership: a running handler is aborted and nothing is written; once
\* the outcome is being written only the heartbeat ends.
HeartbeatStops(a) ==
  IF a.pc = "running" THEN Ends(a) ELSE Advance(a, [a EXCEPT !.heartbeat = FALSE])

HeartbeatLost(a) ==
  /\ a.heartbeat /\ ~Holds(a)
  /\ HeartbeatStops(a)
  /\ UNCHANGED <<rows, workerVars, faults>>

HeartbeatError(a) ==
  /\ a.heartbeat /\ Fault
  /\ HeartbeatStops(a)
  /\ UNCHANGED <<rows, workerVars>>

FinishSuccess(a) ==
  CASE a.schedule = "none"    -> {Settled(a.job, "succeeded")}
    [] a.schedule = "every"   -> {Requeued(rows[a.job], 0, Period)}
    [] a.schedule = "invalid" -> {Settled(a.job, "failed")}

Retry(a) ==
  LET delays == IF a.owner.worker \in Inliners THEN {InlineDelay} ELSE Backoff(a.attempts)
  IN  {Requeued(rows[a.job], rows[a.job].attempts, d) : d \in delays}

\* Mutant: a recurring job is dead-lettered like any other.
MutGiveUpForGood(a) == {Settled(a.job, "failed")}

\* reschedule_recurring_failure, or the dead letter.  The reschedule has one
\* more predicate than the fence: the row has a schedule.
GiveUp(a) ==
  IF a.schedule = "every"
  THEN IF rows[a.job].schedule = "none" THEN {}
       ELSE {Requeued(rows[a.job], 0, Period)}
  ELSE {Settled(a.job, "failed")}

\* The rows an outcome may write.
OutcomeRows(a) ==
  CASE a.pc = "ok" -> FinishSuccess(a)
    [] a.pc = "failed" -> IF a.attempts < MaxAttempts THEN Retry(a) ELSE GiveUp(a)
    [] a.pc = "permanent" -> GiveUp(a)
    [] a.pc = "nohandler" -> {Settled(a.job, "failed")}

WriteOutcome(a) ==
  /\ a.pc \in Outcomes
  /\ \/ /\ Holds(a)
        /\ \E row \in OutcomeRows(a) : rows' = [rows EXCEPT ![a.job] = row]
     \/ /\ ~Holds(a) \/ OutcomeRows(a) = {}
        /\ UNCHANGED rows
  /\ Ends(a)
  /\ UNCHANGED <<workerVars, faults>>

OutcomeLost(a) ==
  /\ a.pc \in Outcomes /\ Fault
  /\ Ends(a)
  /\ UNCHANGED <<rows, workerVars>>

-----------------------------------------------------------------------------
(* What requests do to mail rows. *)

\* Account deletion cancels and redacts all mail of the account.
Anonymize(mails) ==
  /\ rows' = CancelMail(mails)
  /\ UNCHANGED <<active, workerVars, faults>>

\* Re-registration retires verification mail whose budget is spent.
RetireExhausted(mails) ==
  /\ rows' = [j \in Jobs |->
                IF /\ j \in mails /\ Exhausted(j)
                   /\ \/ rows[j].state = "pending"
                      \/ rows[j].state = "running" /\ rows[j].lease <= 0
                THEN Settled(j, "failed") ELSE rows[j]]
  /\ UNCHANGED <<active, workerVars, faults>>

-----------------------------------------------------------------------------
WorkerStep(w) ==
  \/ Start(w)
  \/ \E j \in Recurring : Register(w, j) \/ RegisterDeferred(w, j) \/ RegisterError(w, j)
  \/ BootstrapEnds(w) \/ BootstrapAgain(w)
  \/ FinalizeExhaustedLeases(w)
  \/ \E j \in Jobs : Claim(w, j) \/ ClaimLost(w, j)
  \/ NothingDue(w)
  \/ Shutdown(w) \/ Stop(w) \/ Crash(w)

AttemptStep(a) ==
  \/ \E outcome \in {"ok", "failed", "permanent"} : HandlerEnds(a, outcome)
  \/ Heartbeat(a) \/ HeartbeatLost(a) \/ HeartbeatError(a)
  \/ WriteOutcome(a) \/ OutcomeLost(a)

Next ==
  \/ Tick
  \/ \E j \in Jobs : Age(j)
  \/ \E j \in OneShot : Enqueue(j, 0)
  \/ \E j \in Plain : Enqueue(j, Period)
  \/ \E w \in Workers : WorkerStep(w)
  \/ \E i \in Inliners : InlineDropped(i) \/ \E j \in Mail : InlineClaim(i, j)
  \/ \E a \in active : AttemptStep(a)
  \/ \E mails \in SUBSET Mail : Anonymize(mails) \/ RetireExhausted(mails)

Spec == Init /\ [][Next]_vars

(***************************************************************************)
(* Fairness: the clock advances; a worker that is down is restarted by its *)
(* supervisor; its loop keeps polling; handlers end (handler_timeout) and  *)
(* their outcome is attempted; a drain ends (shutdown_grace).  Faults are  *)
(* finitely many, and nothing else is assumed to happen.                   *)
(***************************************************************************)
AttemptOf(o, Step(_)) == \E a \in active : a.owner = o /\ Step(a)

Fairness ==
  /\ WF_vars(Tick)
  /\ \A w \in Workers :
       /\ WF_vars(Start(w)) /\ WF_vars(Stop(w))
       /\ WF_vars(\E j \in Recurring : Register(w, j) \/ RegisterDeferred(w, j))
       /\ WF_vars(BootstrapEnds(w)) /\ SF_vars(BootstrapAgain(w))
       /\ SF_vars(FinalizeExhaustedLeases(w))
       /\ WF_vars(NothingDue(w) \/ \E j \in Jobs : Claim(w, j))
  /\ \A o \in Owners :
       /\ WF_vars(AttemptOf(o, LAMBDA a : \E r \in {"ok", "failed", "permanent"} : HandlerEnds(a, r)))
       /\ WF_vars(AttemptOf(o, WriteOutcome))

FairSpec == Spec /\ Fairness

-----------------------------------------------------------------------------
(* Properties. *)

\* Every variable holds what the columns and the worker's fields can hold.
TypeOK ==
  /\ rows \in [Jobs -> Row]
  /\ active \in SUBSET Attempt
  /\ loop \in [Workers -> {"down", "bootstrap", "poll", "claim", "draining"}]
  /\ todo \in [Workers -> SUBSET Recurring]
  /\ bootstrapped \in [Workers -> BOOLEAN]
  /\ incomplete \in [Workers -> BOOLEAN]
  /\ faults \in 0..MaxFaults

\* "a job that crashes or hangs the process cannot loop forever": however
\* claims, crashes, lost answers and outcome writes interleave, no row is
\* claimed more than MaxAttempts times for one occurrence, although the claim
\* itself does not look at the attempts of a pending row.
BudgetRespected ==
  \A j \in Jobs : /\ rows[j].state = "pending" => rows[j].attempts < MaxAttempts
                  /\ rows[j].state = "running" => rows[j].attempts \in 1..MaxAttempts

\* The decisions of run_job (retry or give up, one-shot or recurring) rest on
\* the row as it was when it was claimed.  Whoever passes the fence decides on
\* what the row still says, and nobody else passes it.
HolderSnapshotCurrent ==
  \A a \in active : Holds(a) =>
     /\ a.attempts = rows[a.job].attempts
     /\ a.schedule = rows[a.job].schedule
     /\ \A b \in active : b.job = a.job /\ Holds(b) => b = a

\* The payload of a mail (its link carries a raw token) does not outlive the
\* delivery: on every path to a terminal state it is redacted.
TerminalMailIsRedacted ==
  \A j \in Mail : rows[j].state \in Terminal => rows[j].redacted

\* Once some worker has reported a complete bootstrap, every recurring job is
\* scheduled and alive, and no failure, crash, collection or late write of a
\* claim taken earlier ends it.
BootstrappedMeansScheduled ==
  (\E w \in Workers : bootstrapped[w]) =>
     \A j \in Recurring : rows[j].schedule = "every" /\ rows[j].state \in Open

-----------------------------------------------------------------------------
(* The inductive invariant behind the four invariants above.               *)

\* No two attempts carry the same claim token.
ClaimsUnique == \A a, b \in active : a.owner = b.owner => a = b

\* Leaving the running state gives up the claim.
OwnedRowsRun == \A j \in Jobs : rows[j].claimed_by # NoOwner => rows[j].state = "running"

\* As long as the row carries an attempt's token nothing has touched what the
\* attempt read when it was claimed, lease or no lease.
ClaimSnapshot ==
  \A a \in active : rows[a.job].claimed_by = a.owner =>
     a.attempts = rows[a.job].attempts /\ a.schedule = rows[a.job].schedule

\* Only kinds without a handler skip the handler.
HandlerlessIsPlain == \A a \in active : a.pc = "nohandler" => a.job \in Plain

Scheduled(j) == rows[j].schedule = "every" /\ rows[j].state \in Open

\* A bootstrap pass without a failed key has scheduled what it has reconciled.
PassHasScheduled ==
  \A w \in Workers : loop[w] = "bootstrap" /\ ~incomplete[w] =>
     \A j \in Recurring \ todo[w] : Scheduled(j)

IInv == /\ TypeOK /\ BudgetRespected /\ TerminalMailIsRedacted /\ OwnedRowsRun
        /\ ClaimsUnique /\ ClaimSnapshot /\ HandlerlessIsPlain
        /\ PassHasScheduled /\ BootstrappedMeansScheduled

\* Nothing gives a one-shot job a schedule, so it never starts over.
OneShotUnscheduled == \A j \in OneShot : rows[j].schedule = "none"

-----------------------------------------------------------------------------
\* A settled one-shot job (delivered, dead-lettered or cancelled) is not
\* revived by a late heartbeat, retry or claim: its row only disappears.
SettledIsFinal ==
  [][\A j \in OneShot : rows[j].state \in Terminal
        => rows'[j].state \in {rows[j].state, "absent"}]_vars

\* What is left of a row for those who handed the job over.
PhaseOf(state) ==
  CASE state = "absent"  -> "absent"
    [] state = "pending" -> "waiting"
    [] state = "running" -> "underway"
    [] state \in Terminal -> "over"

Contract == INSTANCE JobContract WITH
  Once <- OneShot, Repeated <- Recurring, Budget <- MaxAttempts,
  phase <- [j \in Jobs |-> PhaseOf(rows[j].state)],
  tries <- [j \in Jobs |-> rows[j].attempts]

\* Claims, leases, fences, sweeps, crashes and late writes together keep the
\* promise of JobContract: every try is counted and within the budget, a job
\* that ended stays ended, and only a recurring job starts over.
ImplementsContract == Contract!ContractSpec

\* Every admitted one-shot job comes to an end, delivered or dead-lettered,
\* although claims, answers and processes are lost on the way.
OneShotSettles ==
  \A j \in OneShot : rows[j].state \in Open ~> rows[j].state \notin Open

\* A recurring job runs again and again, whatever its handler reports.
RecurringKeepsRunning ==
  \A j \in Recurring : []<>(rows[j].state = "running")
=============================================================================
