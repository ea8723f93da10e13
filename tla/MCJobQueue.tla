----------------------------- MODULE MCJobQueue -----------------------------
(***************************************************************************)
(* Small instances of JobQueue.  One tick is enough to make a row due or a *)
(* live lease stale, two separate "expires now" from "has expired".        *)
(***************************************************************************)
EXTENDS JobQueue

LegacyRow(state, schedule) ==
  [NoRow EXCEPT !.state = state, !.schedule = schedule]

\* Rows older releases left under the recurring keys.
LegacyAll == {LegacyRow(s, c) : s \in {"pending"} \cup Terminal, c \in Schedules}
LegacyUnscheduled == {LegacyRow("pending", "none"), LegacyRow("succeeded", "none")}
LegacyNone == {}
=============================================================================
