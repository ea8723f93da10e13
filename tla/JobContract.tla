---------------------------- MODULE JobContract -----------------------------
(***************************************************************************)
(* What the job queue promises to those who hand it work, without leases,  *)
(* claims, workers or clocks.  A job that was accepted waits, is tried and *)
(* ends.  It is never tried more often than the budget allows and a try is *)
(* always counted.  A job that is done once stays as it ended until its    *)
(* record is dropped; a job that recurs starts over with a fresh budget.   *)
(***************************************************************************)
EXTENDS Naturals

CONSTANTS
  Once,          \* jobs that are done once
  Repeated,      \* jobs that recur
  Budget         \* tries per occurrence

VARIABLES
  phase,         \* job |-> where it is
  tries          \* job |-> tries of the present occurrence

contractVars == <<phase, tries>>

Work == Once \cup Repeated

Same(j) == phase'[j] = phase[j] /\ tries'[j] = tries[j]

\* Handed over for the first time, or again after its record was dropped.
Accept(j) == phase[j] = "absent" /\ phase'[j] = "waiting" /\ tries'[j] = 0

\* A try begins, also when the one before was lost.
Try(j) ==
  /\ phase[j] \in {"waiting", "underway"} /\ tries[j] < Budget
  /\ phase'[j] = "underway" /\ tries'[j] = tries[j] + 1

\* A try failed and there is budget for another.
TryAgainLater(j) ==
  /\ phase[j] = "underway" /\ tries[j] < Budget
  /\ phase'[j] = "waiting" /\ tries'[j] = tries[j]

\* Done, given up or cancelled.
Finish(j) ==
  /\ phase[j] \in {"waiting", "underway"}
  /\ phase'[j] = "over" /\ tries'[j] = tries[j]

Forget(j) == phase[j] = "over" /\ phase'[j] = "absent" /\ tries'[j] = 0

\* Only what recurs comes back, with a new budget.
StartOver(j) ==
  /\ j \in Repeated /\ phase[j] \in {"underway", "over"}
  /\ phase'[j] = "waiting" /\ tries'[j] = 0

\* A sweep may end or drop several jobs at once.
ContractStep ==
  \A j \in Work : \/ Same(j) \/ Accept(j) \/ Try(j) \/ TryAgainLater(j)
                  \/ Finish(j) \/ Forget(j) \/ StartOver(j)

\* A recurring job may have a record of an earlier time.
ContractInit ==
  \A j \in Work : \/ phase[j] = "absent" /\ tries[j] = 0
                  \/ j \in Repeated /\ phase[j] = "over"
                  \/ j \in Repeated /\ phase[j] = "waiting" /\ tries[j] < Budget

ContractSpec == ContractInit /\ [][ContractStep]_contractVars
=============================================================================
