----------------------------- MODULE Admission ------------------------------
(***************************************************************************)
(* Admission of CPU work to the blocking pool: argon2 for passwords behind *)
(* CpuAdmission, and the decoding of photos behind a semaphore of its own. *)
(*                                                                         *)
(* A started blocking task cannot be stopped, so its permit travels with   *)
(* it: a caller that is dropped (the client hung up) leaves the task and   *)
(* the permit behind.  Tokio's semaphore is first come, first served, and  *)
(* a permit that is released while somebody waits goes to the first of the *)
(* queue, who owns it before it runs again.                                *)
(*                                                                         *)
(* The processor of photos has no timeout and no limit to its queue: it is *)
(* the instance with as many places as callers, and nothing here relies on *)
(* the timeout.                                                            *)
(***************************************************************************)
EXTENDS Naturals, Sequences, FiniteSets

CONSTANTS
  Callers,       \* requests that need work done
  Concurrency,   \* permits of `running`
  QueueCapacity  \* permits of `waiting`

ASSUME AdmissionConstantsOK ==
  Concurrency \in Nat \ {0} /\ QueueCapacity \in Nat /\ IsFiniteSet(Callers)

VARIABLES
  permits,       \* available permits of `running`
  places,        \* available permits of `waiting`
  line,          \* callers that wait for a permit, in order
  caller,        \* what each caller is doing
  orphans        \* tasks that run although their caller is gone

admissionVars == <<permits, places, line, caller, orphans>>

CallerStates == {"idle", "queued", "granted", "working"}
In(state) == {c \in Callers : caller[c] = state}

\* Counters and callers have their types.
AdmissionTypeOK ==
  /\ permits \in 0..Concurrency /\ places \in 0..QueueCapacity
  /\ line \in Seq(Callers) /\ caller \in [Callers -> CallerStates]
  /\ orphans \in 0..Concurrency

Goes(c, state) == caller' = [caller EXCEPT ![c] = state]
----------------------------------------------------------------------------
\* run: a free permit at once, else a place in the queue, else QueueFull,
\* which changes nothing.
AdmitAtOnce(c) ==
  /\ caller[c] = "idle" /\ permits > 0
  /\ permits' = permits - 1 /\ Goes(c, "working")
  /\ UNCHANGED <<places, line, orphans>>

StandInLine(c) ==
  /\ caller[c] = "idle" /\ permits = 0 /\ places > 0
  /\ places' = places - 1 /\ line' = Append(line, c) /\ Goes(c, "queued")
  /\ UNCHANGED <<permits, orphans>>

\* The caller that was given the permit goes on: it leaves its place and the
\* permit moves into the task.
StartWork(c) ==
  /\ caller[c] = "granted"
  /\ places' = places + 1 /\ Goes(c, "working")
  /\ UNCHANGED <<permits, line, orphans>>

\* Mutant: a released permit is put back although somebody waits.
MutRelease(states) == permits' = permits + 1 /\ line' = line /\ caller' = states

\* Dropping an OwnedSemaphorePermit.
Release(states) ==
  IF line = << >>
  THEN permits' = permits + 1 /\ line' = line /\ caller' = states
  ELSE /\ permits' = permits /\ line' = Tail(line)
       /\ caller' = [states EXCEPT ![Head(line)] = "granted"]

\* The line when the k-th has left it.
LineWithout(k) == [i \in 1..(Len(line) - 1) |-> IF i < k THEN line[i] ELSE line[i + 1]]

\* TimedOut, or the future of the caller is dropped.  timeout(acquire_owned)
\* polls the permit first, so whoever was given one is not timed out.
LeaveLine(c) ==
  /\ caller[c] = "queued"
  /\ \E k \in DOMAIN line : line[k] = c /\ line' = LineWithout(k)
  /\ places' = places + 1 /\ Goes(c, "idle")
  /\ UNCHANGED <<permits, orphans>>

FinishWork(c) ==
  /\ caller[c] = "working"
  /\ Release([caller EXCEPT ![c] = "idle"])
  /\ UNCHANGED <<places, orphans>>

FinishOrphan ==
  /\ orphans > 0 /\ orphans' = orphans - 1
  /\ Release(caller)
  /\ UNCHANGED places
----------------------------------------------------------------------------
\* The future of a caller is dropped after it was given a permit.
DropGranted(c) ==
  /\ caller[c] = "granted"
  /\ places' = places + 1
  /\ Release([caller EXCEPT ![c] = "idle"])
  /\ UNCHANGED orphans

\* Mutant: the permit stays with the caller and is released when it is dropped.
MutDropWorking(c) ==
  /\ caller[c] = "working"
  /\ orphans' = orphans + 1
  /\ Release([caller EXCEPT ![c] = "idle"])
  /\ UNCHANGED places

\* The task runs on, with its permit.
DropWorking(c) ==
  /\ caller[c] = "working"
  /\ orphans' = orphans + 1 /\ Goes(c, "idle")
  /\ UNCHANGED <<permits, places, line>>
----------------------------------------------------------------------------
AdmissionInit ==
  /\ permits = Concurrency /\ places = QueueCapacity /\ line = << >>
  /\ caller = [c \in Callers |-> "idle"] /\ orphans = 0

AdmissionNext ==
  \/ \E c \in Callers :
       \/ AdmitAtOnce(c) \/ StandInLine(c) \/ StartWork(c) \/ LeaveLine(c) \/ FinishWork(c)
       \/ DropGranted(c) \/ DropWorking(c)
  \/ FinishOrphan

\* Work ends, and a caller that was woken is polled (or dropped).
AdmissionFairness ==
  /\ WF_admissionVars(FinishOrphan)
  /\ \A c \in Callers : /\ WF_admissionVars(FinishWork(c) \/ DropWorking(c))
                        /\ WF_admissionVars(StartWork(c) \/ DropGranted(c))

AdmissionSpec == AdmissionInit /\ [][AdmissionNext]_admissionVars
----------------------------------------------------------------------------
\* Properties.

\* Every permit is in exactly one place: free, with a caller that was woken,
\* or with a task, whoever has been dropped or timed out since; likewise every
\* place in the queue.  So never more than Concurrency tasks run, and none is
\* lost to callers that went away.
PermitsAreConserved ==
  /\ permits + Cardinality(In("granted")) + Cardinality(In("working")) + orphans = Concurrency
  /\ places + Cardinality(In("queued")) + Cardinality(In("granted")) = QueueCapacity

\* Whoever waits stands in line exactly once, and nobody else does: a permit is
\* never handed to a caller that has gone, or to one that has a permit.
LineIsExact ==
  /\ \A c \in Callers : caller[c] = "queued" <=> \E i \in DOMAIN line : line[i] = c
  /\ \A i, j \in DOMAIN line : line[i] = line[j] => i = j

\* No permit is lost, invented or given to a caller that does not wait for it,
\* whoever is dropped, times out or finishes in which order (CpuAdmission).
AdmissionIsSound == AdmissionTypeOK /\ PermitsAreConserved /\ LineIsExact

\* Whoever stands in line is served or gives up, without the timeout: work
\* ends, and permits go to the line before they go to newcomers.
LineMoves == \A c \in Callers : (caller[c] = "queued") ~> (caller[c] # "queued")
=============================================================================
