----------------------------- MODULE Retention ------------------------------
(***************************************************************************)
(* One run of the retention job: nine steps in a fixed order, of which two *)
(* are switched on by configuration.  A step that fails is noted and the   *)
(* next one runs; the job is retried when any failed.  What a step deletes *)
(* is modelled with the rows it deletes (Accounts, Exports, Photos,        *)
(* Signals); here a step is a name that works or fails.                    *)
(***************************************************************************)
EXTENDS Naturals, Sequences, SequencesExt

CONSTANTS
  Optional,      \* steps the configuration switches on
  Outage         \* steps that may fail for ever (their store is down)

\* purge steps in the order RetentionJob::run calls them
Always == << "password_reset_tokens", "email_verification_tokens", "sessions",
             "parked_here", "exports", "orphan_uploads", "pending_photos" >>
Switched == << "inactive_accounts", "deleted_accounts" >>

ASSUME RetentionConstantsOK == Optional \subseteq Range(Switched)

VARIABLES
  stepNo,        \* the step that runs next
  purged,        \* steps that worked in this run
  broke,         \* steps that failed in this run
  summary,       \* what the run before ended with
  healthy        \* the outage is over for good

retentionVars == <<stepNo, purged, broke, summary, healthy>>

StepsOf == Always \o SelectSeq(Switched, LAMBDA s : s \in Optional)
AllSteps == Range(StepsOf)
StepOutcomes == {"none", "success", "RetentionIncomplete", "Internal"}

\* The position and the two lists have their types.
RetentionTypeOK ==
  /\ stepNo \in 1..Len(StepsOf) + 1
  /\ purged \subseteq AllSteps /\ broke \subseteq AllSteps
  /\ summary \in StepOutcomes /\ healthy \in BOOLEAN
----------------------------------------------------------------------------
\* record(name, Ok(count))
StepWorks ==
  /\ stepNo <= Len(StepsOf)
  /\ StepsOf[stepNo] \in Outage => healthy
  /\ purged' = purged \cup {StepsOf[stepNo]}
  /\ stepNo' = stepNo + 1
  /\ UNCHANGED <<broke, summary, healthy>>

\* Mutant: a failed step ends the run.
MutAfterFailure == Len(StepsOf) + 1

\* A failing step does not stop the later ones.
AfterFailure == stepNo + 1

\* record(name, Err(error))
StepFails ==
  /\ stepNo <= Len(StepsOf)
  /\ StepsOf[stepNo] \in Outage /\ ~healthy
  /\ broke' = broke \cup {StepsOf[stepNo]}
  /\ stepNo' = AfterFailure
  /\ UNCHANGED <<purged, summary, healthy>>

\* The audit row, and the answer that makes the worker retry or be content;
\* where the audit fails the answer is that.
FinishRun ==
  /\ stepNo = Len(StepsOf) + 1
  /\ summary' \in {"Internal", IF broke = {} THEN "success" ELSE "RetentionIncomplete"}
  /\ stepNo' = 1 /\ purged' = {} /\ broke' = {}
  /\ UNCHANGED healthy

\* The store comes back.
Recover == ~healthy /\ healthy' = TRUE /\ UNCHANGED <<stepNo, purged, broke, summary>>
----------------------------------------------------------------------------
RetentionInit ==
  /\ stepNo = 1 /\ purged = {} /\ broke = {} /\ summary = "none" /\ healthy \in BOOLEAN

RetentionNext == StepWorks \/ StepFails \/ FinishRun \/ Recover

\* The recurring job runs again and again (RecurringKeepsRunning of JobQueue);
\* nothing says that the outage ends.
RetentionFairness == WF_retentionVars(StepWorks \/ StepFails \/ FinishRun)
----------------------------------------------------------------------------
\* Properties.

\* An object store that is down keeps no account, token, session or export from
\* being purged: no run comes to its end without every other step having
\* worked, and run follows run, outage or not.
EveryStepGetsItsTurn ==
  /\ [](stepNo = Len(StepsOf) + 1 => AllSteps \ Outage \subseteq purged)
  /\ \A s \in AllSteps \ Outage : []<>(s \in purged)
=============================================================================
