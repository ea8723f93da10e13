-------------------------- MODULE AdminRolesProofs --------------------------
(***************************************************************************)
(* Proofs about AdminRoles, for every number of accounts, administrators   *)
(* and concurrent transactions.                                            *)
(***************************************************************************)
EXTENDS AdminRoles, TLAPS

\* A guard past its locking SELECT.
Past(t) == Running(t) /\ tx[t].pc \in {"locked", "counted"}

\* Until the first grant no transaction inserts an ADMIN row, ...
NoGrantUnderWay == grants = 0 => \A t \in Txs : Running(t) => tx[t].op # "grant"

\* ... so that a guard misses no seat, neither in its snapshot nor in its locks.
GuardsMissNoSeat ==
  grants = 0 => \A t \in Txs : Running(t) =>
    /\ tx[t].pc = "wait" => admins \subseteq tx[t].snap
    /\ tx[t].pc \in {"locked", "counted"} => admins \subseteq tx[t].seen

\* A suspension that has counted holds its target's users row.
CountedHoldsRow ==
  \A t \in Txs : Running(t) /\ tx[t].pc = "counted" => tx[t].row

\* A suspension that has counted the others, and the others.
Counted(t) ==
  /\ Running(t)
  /\ tx[t].pc = "counted"
  /\ acct[tx[t].target] = "active"
  /\ tx[t].target \in tx[t].seen
AnotherActive(u) == \E a \in admins : a # u /\ acct[a] = "active"

\* What it has counted stays true until it commits.
CountStands ==
  grants = 0 => \A t \in Txs : Counted(t) => AnotherActive(tx[t].target)

\* A transaction under way is a transaction record; an idle slot is none.
LEMMA RunningType ==
  ASSUME TypeOK, NEW t \in Txs, Running(t)
  PROVE  tx[t] \in Tx
BY DEF TypeOK, Running

\* The locks of a transaction depend on its own record only.
LEMMA HeldFrame ==
  ASSUME NEW t, tx'[t] = tx[t]
  PROVE  Held(t)' = Held(t)
BY DEF Held, Running

\* A record with an operation is not the idle slot.
LEMMA IdleIsApart ==
  ASSUME NEW r, r.op \in Kinds
  PROVE  r # Idle
<1>1. Idle.op = "idle" /\ "idle" \notin Kinds
  BY DEF Idle, Kinds, Guarded
<1> QED BY <1>1

\* Without grants two guards cannot both hold the seats.
LEMMA OneGuardAtATime ==
  ASSUME LockedSeatsStay, GuardsMissNoSeat, FloorHoldsWithoutGrants, grants = 0,
         NEW t \in Txs, NEW o \in Txs, Past(t), Past(o)
  PROVE  t = o
<1>1. admins # {} /\ admins \subseteq Held(t) /\ admins \subseteq Held(o)
  BY DEF FloorHoldsWithoutGrants, AdminRemains, GuardsMissNoSeat, Past, Held
<1> QED BY <1>1 DEF LockedSeatsStay
-----------------------------------------------------------------------------
\* Every step keeps the types.
LEMMA TypeStep == TypeOK /\ [Next]_vars => TypeOK'
<1> SUFFICES ASSUME TypeOK, [Next]_vars PROVE TypeOK'
  OBVIOUS
<1>0. Idle \in Tx \cup {Idle}
  OBVIOUS
<1>1. ASSUME NEW t \in Txs, NEW op \in Kinds, NEW u \in Users, NEW pc \in Places
      PROVE  [op |-> op, target |-> u, pc |-> pc, snap |-> {}, seen |-> {}, row |-> FALSE] \in Tx
  BY DEF Tx
<1>2. ASSUME NEW t \in Txs, NEW u \in Users, NEW op \in Kinds, NEW pc \in Places,
             Begin(t, op, u, pc)
      PROVE  TypeOK'
  BY <1>1, <1>2 DEF TypeOK, Begin
<1>3. ASSUME NEW t \in Txs, Ends(t), admins' \in SUBSET Users,
             acct' \in [Users -> {"pending", "active", "suspended", "deleted"}],
             grants' = grants
      PROVE  TypeOK'
  BY <1>0, <1>3 DEF TypeOK, Ends
<1>4. ASSUME NEW t \in Txs, NEW u \in Users, NEW a \in Users,
             BeginSuspend(t, a, u) \/ BeginRevoke(t, a, u) \/ BeginRestore(t, a, u)
               \/ BeginErase(t, u) \/ BeginRetire(t, u)
      PROVE  TypeOK'
  <2>1. {"suspend", "revoke", "restore", "erase", "retire"} \subseteq Kinds
        /\ {"begin", "recheck"} \subseteq Places
    BY DEF Kinds, Guarded, Places
  <2> QED BY <1>2, <1>4, <2>1
          DEF BeginSuspend, BeginRevoke, BeginRestore, BeginErase, BeginRetire
<1>5. ASSUME NEW t \in Txs, NEW u \in Users, NEW a \in Users, BeginGrant(t, a, u)
      PROVE  TypeOK'
  <2>1. "grant" \in Kinds /\ "begin" \in Places
    BY DEF Kinds, Places
  <2>2. grants' \in 0..MaxGrants
    BY <1>5, BoundOK DEF TypeOK, BeginGrant
  <2> QED BY <1>1, <1>5, <2>1, <2>2 DEF TypeOK, BeginGrant
<1>6. ASSUME NEW t \in Txs, Recheck(t) PROVE TypeOK'
  <2>1. tx[t] \in Tx
    BY <1>6, RunningType DEF Recheck
  <2>2. CASE Ends(t)
    BY <1>3, <1>6, <2>2 DEF Recheck, TypeOK
  <2>3. CASE tx' = [tx EXCEPT ![t].pc = "begin", ![t].row = TRUE]
    <3>1. [tx[t] EXCEPT !.pc = "begin", !.row = TRUE] \in Tx
      BY <2>1 DEF Tx, Places
    <3> QED BY <1>6, <2>3, <3>1 DEF Recheck, TypeOK
  <2> QED BY <1>6, <2>2, <2>3 DEF Recheck
<1>7. ASSUME NEW t \in Txs, Snapshot(t) PROVE TypeOK'
  <2>1. [tx[t] EXCEPT !.pc = "wait", !.snap = admins] \in Tx
    BY <1>7, RunningType DEF Snapshot, Tx, Places, TypeOK
  <2> QED BY <1>7, <2>1 DEF Snapshot, TypeOK
<1>8. ASSUME NEW t \in Txs, LockAdmins(t) PROVE TypeOK'
  <2>1. [tx[t] EXCEPT !.pc = "locked", !.seen = tx[t].snap \cap admins] \in Tx
    BY <1>8, RunningType DEF LockAdmins, Tx, Places, TypeOK
  <2> QED BY <1>8, <2>1 DEF LockAdmins, TypeOK
<1>9. ASSUME NEW t \in Txs, CountOthers(t) PROVE TypeOK'
  <2>1. CASE Ends(t)
    BY <1>3, <1>9, <2>1 DEF CountOthers, TypeOK
  <2>2. CASE tx' = [tx EXCEPT ![t].pc = "counted", ![t].row = TRUE]
    <3>1. [tx[t] EXCEPT !.pc = "counted", !.row = TRUE] \in Tx
      BY <1>9, RunningType DEF CountOthers, Tx, Places
    <3> QED BY <1>9, <2>2, <3>1 DEF CountOthers, TypeOK
  <2> QED BY <1>9, <2>1, <2>2 DEF CountOthers
<1>10. ASSUME NEW t \in Txs,
              SuspendCommits(t) \/ RevokeCommits(t) \/ EraseCommits(t)
                \/ GrantCommits(t) \/ RestoreCommits(t) \/ Abort(t)
       PROVE  TypeOK'
  <2>1. tx[t].target \in Users
    BY <1>10, RunningType
       DEF SuspendCommits, RevokeCommits, EraseCommits, GrantCommits, RestoreCommits, Abort, Tx
  <2>2. Ends(t) /\ grants' = grants
    BY <1>10
       DEF SuspendCommits, RevokeCommits, EraseCommits, GrantCommits, RestoreCommits, Abort
  <2>3. admins' \in SUBSET Users
    BY <1>10, <2>1
       DEF SuspendCommits, RevokeCommits, EraseCommits, GrantCommits, RestoreCommits, Abort, TypeOK
  <2>4. acct' \in [Users -> {"pending", "active", "suspended", "deleted"}]
    BY <1>10, <2>1
       DEF SuspendCommits, RevokeCommits, EraseCommits, GrantCommits, RestoreCommits, Abort, TypeOK
  <2> QED BY <1>3, <2>2, <2>3, <2>4
<1>11. CASE UNCHANGED vars
  BY <1>11 DEF vars, TypeOK
<1> QED BY <1>4, <1>5, <1>6, <1>7, <1>8, <1>9, <1>10, <1>11 DEF Next
-----------------------------------------------------------------------------
(* The rest of the invariant, one step per action. *)

\* With TypeOK, the inductive invariant.
Safe ==
  /\ LockedSeatsStay
  /\ NoGrantUnderWay
  /\ GuardsMissNoSeat
  /\ FloorHoldsWithoutGrants
  /\ CountedHoldsRow
  /\ CountStands

\* Nothing but t changes, and t holds no seat afterwards.
LEMMA QuietStep ==
  ASSUME TypeOK, Safe, NEW t \in Txs,
         UNCHANGED <<admins, acct>>, grants' \in Nat, grants' = 0 => grants = 0,
         \A o \in Txs : o # t => tx'[o] = tx[o],
         tx'[t] # Idle => /\ tx'[t].pc \notin {"wait", "locked", "counted"}
                          /\ grants' = 0 => tx'[t].op # "grant"
  PROVE  Safe'
<1>1. Held(t)' = {}
  BY DEF Held, Running
<1>2. \A o \in Txs : o # t => Held(o)' = Held(o)
  BY DEF Held, Running
<1>3. LockedSeatsStay'
  BY <1>1, <1>2 DEF Safe, LockedSeatsStay
<1>4. NoGrantUnderWay'
  BY DEF Safe, NoGrantUnderWay, Running
<1>5. GuardsMissNoSeat'
  BY DEF Safe, GuardsMissNoSeat, Running
<1>6. FloorHoldsWithoutGrants'
  BY DEF Safe, FloorHoldsWithoutGrants, AdminRemains
<1>7. CountedHoldsRow'
  BY DEF Safe, CountedHoldsRow, Running
<1>8. CountStands'
  <2> SUFFICES ASSUME grants' = 0, NEW o \in Txs, Counted(o)'
               PROVE  AnotherActive(tx[o].target)'
    BY DEF CountStands
  <2>1. o # t /\ tx'[o] = tx[o] /\ Counted(o)
    BY DEF Counted, Running
  <2>2. AnotherActive(tx[o].target)
    BY <2>1 DEF Safe, CountStands
  <2> QED BY <2>1, <2>2 DEF AnotherActive
<1> QED BY <1>3, <1>4, <1>5, <1>6, <1>7, <1>8 DEF Safe

\* A transaction ends having taken at most a seat nobody else holds, and
\* having suspended, erased or restored at most an account of its own.
LEMMA CommitStep ==
  ASSUME TypeOK, Safe, NEW t \in Txs, NEW u \in Users,
         \A o \in Txs : o # t => tx'[o] = tx[o], tx'[t] = Idle, grants' = grants,
         admins' = admins \/ (RoleFree(u, t) /\ admins' = admins \ {u}),
         grants = 0 => admins' # {},
         \A v \in Users : v # u => acct'[v] = acct[v],
         grants = 0 => \/ Past(t)
                       \/ /\ admins' = admins
                          /\ RowFree(u, t)
                          /\ acct[u] # "active" \/ acct'[u] = acct[u]
  PROVE  Safe'
<1>1. Held(t)' = {} /\ ~Running(t)'
  BY DEF Held, Running
<1>2. \A o \in Txs : o # t => Held(o)' = Held(o) /\ (Running(o)' <=> Running(o))
  BY DEF Held, Running
<1>3. LockedSeatsStay'
  BY <1>1, <1>2 DEF Safe, LockedSeatsStay, RoleFree
<1>4. NoGrantUnderWay'
  BY <1>1, <1>2 DEF Safe, NoGrantUnderWay
<1>5. GuardsMissNoSeat'
  <2>1. admins' \subseteq admins
    OBVIOUS
  <2> QED BY <1>1, <1>2, <2>1 DEF Safe, GuardsMissNoSeat
<1>6. FloorHoldsWithoutGrants'
  BY DEF FloorHoldsWithoutGrants, AdminRemains
<1>7. CountedHoldsRow'
  BY <1>1, <1>2 DEF Safe, CountedHoldsRow
<1>8. CountStands'
  <2> SUFFICES ASSUME grants' = 0, NEW o \in Txs, Counted(o)'
               PROVE  AnotherActive(tx[o].target)'
    BY DEF CountStands
  <2>1. o # t /\ tx'[o] = tx[o] /\ Running(o) /\ tx[o].pc = "counted"
        /\ acct'[tx[o].target] = "active" /\ tx[o].target \in tx[o].seen
    BY <1>1, <1>2 DEF Counted
  <2>2. Past(o) /\ ~Past(t)
    BY <2>1, OneGuardAtATime DEF Past, Safe
  <2>3. tx[o].target # u /\ tx[o].target \in Users
    BY <2>1, <2>2, RunningType DEF RowFree, Safe, CountedHoldsRow, Tx
  <2>4. Counted(o)
    BY <2>1, <2>3 DEF Counted
  <2>5. AnotherActive(tx[o].target)
    BY <2>4 DEF Safe, CountStands
  <2>6. PICK a \in admins : a # tx[o].target /\ acct[a] = "active"
    BY <2>5 DEF AnotherActive
  <2>7. a \in Users
    BY DEF TypeOK
  <2>8. a \in admins' /\ acct'[a] = "active" /\ a # tx[o].target
    BY <2>2, <2>6, <2>7
  <2> QED BY <2>1, <2>8 DEF AnotherActive
<1> QED BY <1>3, <1>4, <1>5, <1>6, <1>7, <1>8 DEF Safe

\* A guard's locking SELECT fixes its rows: none is missing without grants.
LEMMA SnapshotStep ==
  ASSUME TypeOK, Safe, NEW t \in Txs, Snapshot(t)
  PROVE  Safe'
<1>1. tx[t] \in Tx /\ tx' = [tx EXCEPT ![t] = [tx[t] EXCEPT !.pc = "wait", !.snap = admins]]
  BY RunningType DEF Snapshot
<1>2. /\ tx'[t] = [tx[t] EXCEPT !.pc = "wait", !.snap = admins]
      /\ \A o \in Txs : o # t => tx'[o] = tx[o]
  BY <1>1 DEF TypeOK
<1>3. tx'[t].pc = "wait" /\ tx'[t].snap = admins /\ tx'[t].op = tx[t].op
  BY <1>1, <1>2 DEF Tx
<1>4. Held(t)' = {} /\ \A o \in Txs : o # t => Held(o)' = Held(o)
  BY <1>2, <1>3 DEF Held, Running
<1>5. UNCHANGED <<admins, acct, grants>> /\ Running(t)
  BY DEF Snapshot
<1>6. LockedSeatsStay'
  BY <1>4, <1>5 DEF Safe, LockedSeatsStay
<1>7. NoGrantUnderWay' /\ GuardsMissNoSeat' /\ CountedHoldsRow'
  BY <1>2, <1>3, <1>5 DEF Safe, NoGrantUnderWay, GuardsMissNoSeat, CountedHoldsRow, Running
<1>8. FloorHoldsWithoutGrants'
  BY <1>5 DEF Safe, FloorHoldsWithoutGrants, AdminRemains
<1>9. CountStands'
  <2> SUFFICES ASSUME grants' = 0, NEW o \in Txs, Counted(o)'
               PROVE  AnotherActive(tx[o].target)'
    BY DEF CountStands
  <2>1. o # t /\ tx'[o] = tx[o]
    BY <1>2, <1>3 DEF Counted
  <2>2. Counted(o)
    BY <1>5, <2>1 DEF Counted, Running
  <2>3. AnotherActive(tx[o].target)
    BY <1>5, <2>2 DEF Safe, CountStands
  <2> QED BY <1>5, <2>1, <2>3 DEF AnotherActive
<1> QED BY <1>6, <1>7, <1>8, <1>9 DEF Safe

\* FOR UPDATE returns: the seats that still exist are locked, by it alone.
LEMMA LockStep ==
  ASSUME TypeOK, Safe, NEW t \in Txs, LockAdmins(t)
  PROVE  Safe'
<1> DEFINE seats == tx[t].snap \cap admins
<1>1. tx[t] \in Tx /\ tx' = [tx EXCEPT ![t] = [tx[t] EXCEPT !.pc = "locked", !.seen = seats]]
  BY RunningType DEF LockAdmins
<1>2. /\ tx'[t] = [tx[t] EXCEPT !.pc = "locked", !.seen = seats]
      /\ \A o \in Txs : o # t => tx'[o] = tx[o]
  BY <1>1 DEF TypeOK
<1>3. tx'[t].pc = "locked" /\ tx'[t].seen = seats /\ tx'[t].op = tx[t].op
  BY <1>1, <1>2 DEF Tx
<1>4. tx'[t] # Idle
  BY <1>1, <1>3, IdleIsApart DEF Tx
<1>5. Held(t)' = seats /\ \A o \in Txs : o # t => Held(o)' = Held(o)
  BY <1>2, <1>3, <1>4 DEF Held, Running
<1>6. UNCHANGED <<admins, acct, grants>> /\ Running(t) /\ tx[t].pc = "wait"
      /\ \A u \in tx[t].snap : RoleFree(u, t)
  BY DEF LockAdmins
<1>7. LockedSeatsStay'
  BY <1>5, <1>6 DEF Safe, LockedSeatsStay, RoleFree
<1>8. NoGrantUnderWay' /\ CountedHoldsRow'
  BY <1>2, <1>3, <1>6 DEF Safe, NoGrantUnderWay, CountedHoldsRow, Running
<1>9. GuardsMissNoSeat'
  BY <1>2, <1>3, <1>6 DEF Safe, GuardsMissNoSeat, Running
<1>10. FloorHoldsWithoutGrants'
  BY <1>6 DEF Safe, FloorHoldsWithoutGrants, AdminRemains
<1>11. CountStands'
  <2> SUFFICES ASSUME grants' = 0, NEW o \in Txs, Counted(o)'
               PROVE  AnotherActive(tx[o].target)'
    BY DEF CountStands
  <2>1. o # t /\ tx'[o] = tx[o]
    BY <1>2, <1>3 DEF Counted
  <2>2. Counted(o)
    BY <1>6, <2>1 DEF Counted, Running
  <2>3. AnotherActive(tx[o].target)
    BY <1>6, <2>2 DEF Safe, CountStands
  <2> QED BY <1>6, <2>1, <2>3 DEF AnotherActive
<1> QED BY <1>7, <1>8, <1>9, <1>10, <1>11 DEF Safe

\* suspend_by_admin goes on after its count.
LEMMA CountStep ==
  ASSUME TypeOK, Safe, NEW t \in Txs, CountOthers(t),
         tx' = [tx EXCEPT ![t].pc = "counted", ![t].row = TRUE],
         acct[tx[t].target] = "active" /\ tx[t].target \in tx[t].seen
           => AnotherActive(tx[t].target)
  PROVE  Safe'
<1>1. tx[t] \in Tx /\ tx' = [tx EXCEPT ![t] = [tx[t] EXCEPT !.pc = "counted", !.row = TRUE]]
  BY RunningType DEF CountOthers
<1>2. /\ tx'[t] = [tx[t] EXCEPT !.pc = "counted", !.row = TRUE]
      /\ \A o \in Txs : o # t => tx'[o] = tx[o]
  BY <1>1 DEF TypeOK
<1>3. /\ tx'[t].pc = "counted" /\ tx'[t].row /\ tx'[t].op = tx[t].op
      /\ tx'[t].seen = tx[t].seen /\ tx'[t].target = tx[t].target
  BY <1>1, <1>2 DEF Tx
<1>4. tx'[t] # Idle
  BY <1>1, <1>3, IdleIsApart DEF Tx
<1>5. UNCHANGED <<admins, acct, grants>> /\ Running(t) /\ tx[t].pc = "locked"
  BY DEF CountOthers
<1>6. \A o \in Txs : Held(o)' = Held(o)
  <2>1. Held(t) = tx[t].seen
    BY <1>5 DEF Held
  <2>2. Held(t)' = tx'[t].seen
    BY <1>3, <1>4 DEF Held, Running
  <2>3. \A o \in Txs : o # t => Held(o)' = Held(o)
    BY <1>2, HeldFrame
  <2> QED BY <1>3, <2>1, <2>2, <2>3
<1>7. LockedSeatsStay'
  BY <1>5, <1>6 DEF Safe, LockedSeatsStay
<1>8. NoGrantUnderWay' /\ CountedHoldsRow'
  BY <1>2, <1>3, <1>5 DEF Safe, NoGrantUnderWay, CountedHoldsRow, Running
<1>9. GuardsMissNoSeat'
  BY <1>2, <1>3, <1>5 DEF Safe, GuardsMissNoSeat, Running
<1>10. FloorHoldsWithoutGrants'
  BY <1>5 DEF Safe, FloorHoldsWithoutGrants, AdminRemains
<1>11. CountStands'
  <2> SUFFICES ASSUME grants' = 0, NEW o \in Txs, Counted(o)'
               PROVE  AnotherActive(tx[o].target)'
    BY DEF CountStands
  <2>1. CASE o = t
    BY <1>3, <1>5, <2>1 DEF Counted, AnotherActive
  <2>2. CASE o # t
    <3>1. tx'[o] = tx[o]
      BY <1>2, <2>2
    <3>2. Counted(o)
      BY <1>5, <3>1 DEF Counted, Running
    <3>3. AnotherActive(tx[o].target)
      BY <1>5, <3>2 DEF Safe, CountStands
    <3> QED BY <1>5, <3>1, <3>3 DEF AnotherActive
  <2> QED BY <2>1, <2>2
<1> QED BY <1>7, <1>8, <1>9, <1>10, <1>11 DEF Safe

\* Every step of Next preserves Safe, by the lemma for its shape.
LEMMA SafeStep == TypeOK /\ TypeOK' /\ Safe /\ [Next]_vars => Safe'
<1> SUFFICES ASSUME TypeOK, TypeOK', Safe, [Next]_vars PROVE Safe'
  OBVIOUS
<1>0. grants' \in Nat /\ grants \in Nat
  BY BoundOK DEF TypeOK
<1>1. ASSUME NEW t \in Txs, NEW op \in Kinds \ {"grant"}, NEW u \in Users,
             NEW pc \in {"begin", "recheck"}, Begin(t, op, u, pc)
      PROVE  Safe'
  <2>1. tx'[t] = [op |-> op, target |-> u, pc |-> pc, snap |-> {}, seen |-> {}, row |-> FALSE]
        /\ \A o \in Txs : o # t => tx'[o] = tx[o]
    BY <1>1 DEF Begin, TypeOK
  <2>2. tx'[t].pc \notin {"wait", "locked", "counted"} /\ tx'[t].op # "grant"
    BY <2>1
  <2> QED BY <1>0, <1>1, <2>1, <2>2, QuietStep DEF Begin
<1>2. ASSUME NEW t \in Txs, NEW u \in Users, NEW a \in Users,
             BeginSuspend(t, a, u) \/ BeginRevoke(t, a, u) \/ BeginRestore(t, a, u)
               \/ BeginErase(t, u) \/ BeginRetire(t, u)
      PROVE  Safe'
  <2>1. {"suspend", "revoke", "restore", "erase", "retire"} \subseteq Kinds \ {"grant"}
    BY DEF Kinds, Guarded
  <2> QED BY <1>1, <1>2, <2>1
          DEF BeginSuspend, BeginRevoke, BeginRestore, BeginErase, BeginRetire
<1>3. ASSUME NEW t \in Txs, NEW u \in Users, NEW a \in Users, BeginGrant(t, a, u)
      PROVE  Safe'
  <2>1. tx'[t] = [op |-> "grant", target |-> u, pc |-> "begin", snap |-> {}, seen |-> {}, row |-> FALSE]
        /\ \A o \in Txs : o # t => tx'[o] = tx[o]
    BY <1>3 DEF BeginGrant, TypeOK
  <2>2. tx'[t].pc \notin {"wait", "locked", "counted"}
    BY <2>1
  <2>3. grants' # 0 /\ UNCHANGED <<admins, acct>>
    BY <1>0, <1>3 DEF BeginGrant
  <2> QED BY <1>0, <2>1, <2>2, <2>3, QuietStep
<1>4. ASSUME NEW t \in Txs, Ends(t), UNCHANGED <<admins, acct, grants>>
      PROVE  Safe'
  <2>1. tx'[t] = Idle /\ \A o \in Txs : o # t => tx'[o] = tx[o]
    BY <1>4 DEF Ends, TypeOK
  <2> QED BY <1>0, <1>4, <2>1, QuietStep
<1>5. ASSUME NEW t \in Txs, Recheck(t) PROVE Safe'
  <2>1. CASE Ends(t)
    BY <1>4, <1>5, <2>1 DEF Recheck
  <2>2. CASE tx' = [tx EXCEPT ![t].pc = "begin", ![t].row = TRUE]
    <3>1. tx[t] \in Tx
      BY <1>5, RunningType DEF Recheck
    <3>2. tx'[t] = [tx[t] EXCEPT !.pc = "begin", !.row = TRUE]
          /\ \A o \in Txs : o # t => tx'[o] = tx[o]
      BY <2>2 DEF TypeOK
    <3>3. tx'[t].pc = "begin" /\ tx'[t].op = tx[t].op
      BY <3>1, <3>2 DEF Tx
    <3>4. grants = 0 => tx[t].op # "grant"
      BY <1>5 DEF Recheck, Safe, NoGrantUnderWay
    <3>5. UNCHANGED <<admins, acct, grants>>
      BY <1>5 DEF Recheck
    <3> QED BY <1>0, <3>2, <3>3, <3>4, <3>5, QuietStep
  <2> QED BY <1>5, <2>1, <2>2 DEF Recheck
<1>6. ASSUME NEW t \in Txs, CountOthers(t) PROVE Safe'
  <2>1. CASE Ends(t)
    BY <1>4, <1>6, <2>1 DEF CountOthers
  <2>2. CASE ~Ends(t)
    <3>1. tx' = [tx EXCEPT ![t].pc = "counted", ![t].row = TRUE]
      BY <1>6, <2>2 DEF CountOthers
    <3>2. acct[tx[t].target] = "active" /\ tx[t].target \in tx[t].seen
            => OtherActiveAdmins(tx[t].target) # {}
      BY <1>6, <2>2 DEF CountOthers
    <3>3. OtherActiveAdmins(tx[t].target) # {} => AnotherActive(tx[t].target)
      BY DEF OtherActiveAdmins, AnotherActive
    <3> QED BY <1>6, <3>1, <3>2, <3>3, CountStep
  <2> QED BY <2>1, <2>2
<1>7. ASSUME NEW t \in Txs, Running(t), Ends(t) PROVE
        /\ tx[t].target \in Users
        /\ tx'[t] = Idle
        /\ \A o \in Txs : o # t => tx'[o] = tx[o]
  <2>1. tx[t] \in Tx
    BY <1>7, RunningType
  <2> QED BY <1>7, <2>1 DEF Ends, TypeOK, Tx
<1>8. ASSUME NEW t \in Txs, SuspendCommits(t) PROVE Safe'
  <2>1. Running(t) /\ Ends(t) /\ UNCHANGED <<admins, grants>> /\ Past(t)
    BY <1>8 DEF SuspendCommits, Past
  <2>2. \A v \in Users : v # tx[t].target => acct'[v] = acct[v]
    BY <1>8 DEF SuspendCommits, TypeOK
  <2>3. grants = 0 => admins' # {}
    BY <2>1 DEF Safe, FloorHoldsWithoutGrants, AdminRemains
  <2> QED BY <1>7, <2>1, <2>2, <2>3, CommitStep
<1>9. ASSUME NEW t \in Txs, LastSeat(t) = FALSE, Past(t)
      PROVE  grants = 0 => admins \ {tx[t].target} # {}
  <2>1. grants = 0 => admins \subseteq tx[t].seen /\ admins # {}
    BY <1>9 DEF Past, Safe, GuardsMissNoSeat, FloorHoldsWithoutGrants, AdminRemains
  <2>2. tx[t].seen \subseteq admins
    BY <1>9 DEF Past, Safe, LockedSeatsStay, Held
  <2>3. tx[t].seen # {tx[t].target}
    BY <1>9 DEF LastSeat
  <2> QED BY <2>1, <2>2, <2>3
<1>10. ASSUME NEW t \in Txs, RevokeCommits(t) PROVE Safe'
  <2>1. Running(t) /\ Ends(t) /\ UNCHANGED <<acct, grants>> /\ Past(t) /\ RoleFree(tx[t].target, t)
    BY <1>10 DEF RevokeCommits, Past
  <2>2. CASE LastSeat(t)
    BY <1>4, <1>10, <2>1, <2>2 DEF RevokeCommits
  <2>3. CASE LastSeat(t) = FALSE
    <3>1. admins' = admins \ {tx[t].target}
      BY <1>10, <2>3 DEF RevokeCommits
    <3>2. grants = 0 => admins' # {}
      BY <1>9, <2>1, <2>3, <3>1
    <3> QED BY <1>7, <2>1, <3>1, <3>2, CommitStep
  <2> QED BY <2>2, <2>3 DEF LastSeat
<1>11. ASSUME NEW t \in Txs, EraseCommits(t) PROVE Safe'
  <2>1. Running(t) /\ Ends(t) /\ grants' = grants /\ Past(t) /\ RoleFree(tx[t].target, t)
    BY <1>11 DEF EraseCommits, Past
  <2>2. CASE LastSeat(t)
    BY <1>4, <1>11, <2>1, <2>2 DEF EraseCommits
  <2>3. CASE LastSeat(t) = FALSE
    <3>1. admins' = admins \ {tx[t].target}
      BY <1>11, <2>3 DEF EraseCommits
    <3>2. grants = 0 => admins' # {}
      BY <1>9, <2>1, <2>3, <3>1
    <3>3. \A v \in Users : v # tx[t].target => acct'[v] = acct[v]
      BY <1>11, <2>3 DEF EraseCommits, TypeOK
    <3> QED BY <1>7, <2>1, <3>1, <3>2, <3>3, CommitStep
  <2> QED BY <2>2, <2>3 DEF LastSeat
<1>12. ASSUME NEW t \in Txs, RestoreCommits(t) PROVE Safe'
  <2>1. Running(t) /\ Ends(t) /\ UNCHANGED <<admins, grants>> /\ RowFree(tx[t].target, t)
    BY <1>12 DEF RestoreCommits
  <2>2. \A v \in Users : v # tx[t].target => acct'[v] = acct[v]
    BY <1>12 DEF RestoreCommits, TypeOK
  <2>3. grants = 0 => admins' # {}
    BY <2>1 DEF Safe, FloorHoldsWithoutGrants, AdminRemains
  <2>4. acct[tx[t].target] # "active" \/ acct'[tx[t].target] = acct[tx[t].target]
    BY <1>12 DEF RestoreCommits
  <2> QED BY <1>7, <2>1, <2>2, <2>3, <2>4, CommitStep
<1>13. ASSUME NEW t \in Txs, GrantCommits(t) PROVE Safe'
  <2>1. Running(t) /\ Ends(t) /\ grants' = grants /\ admins \subseteq admins'
    BY <1>13 DEF GrantCommits
  <2>2. grants # 0
    BY <1>13 DEF GrantCommits, Safe, NoGrantUnderWay
  <2>3. tx'[t] = Idle /\ \A o \in Txs : o # t => tx'[o] = tx[o]
    BY <1>7, <2>1
  <2>4. Held(t)' = {} /\ \A o \in Txs : o # t => Held(o)' = Held(o)
    BY <2>3 DEF Held, Running
  <2>5. LockedSeatsStay'
    BY <2>1, <2>4 DEF Safe, LockedSeatsStay
  <2>6. CountedHoldsRow'
    BY <2>3 DEF Safe, CountedHoldsRow, Running
  <2> QED BY <2>1, <2>2, <2>5, <2>6
          DEF Safe, NoGrantUnderWay, GuardsMissNoSeat, FloorHoldsWithoutGrants, CountStands
<1>14. ASSUME NEW t \in Txs, Abort(t) PROVE Safe'
  BY <1>4, <1>14 DEF Abort
<1>15. CASE UNCHANGED vars
  <2>1. \A o \in Txs : Held(o)' = Held(o) /\ (Running(o)' <=> Running(o))
                        /\ (Counted(o)' <=> Counted(o)) /\ tx'[o] = tx[o]
    BY <1>15 DEF vars, Held, Running, Counted
  <2>2. \A u : AnotherActive(u)' <=> AnotherActive(u)
    BY <1>15 DEF vars, AnotherActive
  <2>3. admins' = admins /\ grants' = grants
    BY <1>15 DEF vars
  <2>4. LockedSeatsStay' /\ NoGrantUnderWay' /\ GuardsMissNoSeat' /\ CountedHoldsRow'
    BY <2>1, <2>3 DEF Safe, LockedSeatsStay, NoGrantUnderWay, GuardsMissNoSeat, CountedHoldsRow
  <2>5. FloorHoldsWithoutGrants'
    BY <2>3 DEF Safe, FloorHoldsWithoutGrants, AdminRemains
  <2>6. CountStands'
    <3> SUFFICES ASSUME grants' = 0, NEW o \in Txs, Counted(o)'
                 PROVE  AnotherActive(tx[o].target)'
      BY DEF CountStands
    <3>1. AnotherActive(tx[o].target)
      BY <2>1, <2>3 DEF Safe, CountStands
    <3> QED BY <1>15, <3>1 DEF vars, AnotherActive
  <2> QED BY <2>4, <2>5, <2>6 DEF Safe
<1> QED BY <1>2, <1>3, <1>5, <1>6, <1>8, <1>10, <1>11, <1>12, <1>13, <1>14, <1>15,
           SnapshotStep, LockStep DEF Next
-----------------------------------------------------------------------------
\* Nothing is under way at the start, and there is an administrator.
LEMMA Start == Init => TypeOK /\ Safe
<1> SUFFICES ASSUME Init PROVE TypeOK /\ Safe
  OBVIOUS
<1>1. TypeOK
  BY AdminsOK, BoundOK DEF Init, TypeOK
<1>2. \A t \in Txs : ~Running(t) /\ Held(t) = {}
  BY DEF Init, Running, Held
<1>3. LockedSeatsStay
  BY <1>2 DEF LockedSeatsStay
<1>4. NoGrantUnderWay /\ GuardsMissNoSeat /\ CountedHoldsRow /\ CountStands
  BY <1>2 DEF NoGrantUnderWay, GuardsMissNoSeat, CountedHoldsRow, CountStands, Counted
<1>5. FloorHoldsWithoutGrants
  BY AdminsOK DEF Init, FloorHoldsWithoutGrants, AdminRemains
<1> QED BY <1>1, <1>3, <1>4, <1>5 DEF Safe

\* Every reachable state satisfies the inductive invariant, whatever the
\* transactions under way do between each other's statements.
THEOREM SeatInvariant == Spec => [](TypeOK /\ Safe)
<1>1. Init => TypeOK /\ Safe
  BY Start
<1>2. TypeOK /\ Safe /\ [Next]_vars => (TypeOK /\ Safe)'
  BY TypeStep, SafeStep
<1> QED BY <1>1, <1>2, PTL DEF Spec

\* The roles, account states and transactions stay well typed.
THEOREM AdminTypeCorrect == Spec => []TypeOK
BY SeatInvariant, PTL

\* FOR UPDATE protects what a guard has counted: for any number of
\* transactions, no other one revokes, erases or counts a seat it holds.
THEOREM SeatsStayLocked == Spec => []LockedSeatsStay
<1>1. TypeOK /\ Safe => LockedSeatsStay
  BY DEF Safe
<1> QED BY <1>1, SeatInvariant, PTL

\* revoke_role_guarded, suspend_by_admin and the two erasures together never
\* empty the set of administrators while nobody is granted the role.
THEOREM FloorHolds == Spec => []FloorHoldsWithoutGrants
<1>1. TypeOK /\ Safe => FloorHoldsWithoutGrants
  BY DEF Safe
<1> QED BY <1>1, SeatInvariant, PTL

\* A suspension that commits without a grant before it leaves another active
\* administrator, although it counted them in an earlier statement.
THEOREM SuspensionIsSafe == Spec => SuspensionKeepsActiveAdmin
<1> DEFINE P == \A u \in Users :
                  /\ grants = 0 /\ acct[u] = "active" /\ acct'[u] = "suspended"
                  /\ \E t \in Txs : tx'[t] # tx[t] /\ tx[t].target = u /\ u \in tx[t].seen
                => \E a \in admins' : acct'[a] = "active"
<1>1. TypeOK /\ Safe /\ [Next]_vars => [P]_vars
  <2> SUFFICES ASSUME TypeOK, Safe, Next, NEW u \in Users, grants = 0,
                      acct[u] = "active", acct'[u] = "suspended",
                      NEW t \in Txs, tx'[t] # tx[t], tx[t].target = u, u \in tx[t].seen
               PROVE  \E a \in admins' : acct'[a] = "active"
    OBVIOUS
  <2>1. acct' # acct
    OBVIOUS
  <2>2. PICK o \in Txs : SuspendCommits(o) \/ EraseCommits(o) \/ RestoreCommits(o)
    BY <2>1 DEF Next, BeginSuspend, BeginRevoke, BeginRestore, BeginErase, BeginRetire, Begin,
                BeginGrant, Recheck, Snapshot, LockAdmins, CountOthers, RevokeCommits,
                GrantCommits, Abort
  <2>3. o = t
    BY <2>2 DEF SuspendCommits, EraseCommits, RestoreCommits, Ends, TypeOK
  <2>4. SuspendCommits(t)
    BY <2>2, <2>3 DEF EraseCommits, RestoreCommits, TypeOK
  <2>5. Counted(t)
    BY <2>4 DEF SuspendCommits, Counted
  <2>6. AnotherActive(u)
    BY <2>5 DEF Safe, CountStands
  <2>7. PICK a \in admins : a # u /\ acct[a] = "active"
    BY <2>6 DEF AnotherActive
  <2>8. a \in admins' /\ acct'[a] = "active"
    BY <2>4, <2>7 DEF SuspendCommits, TypeOK
  <2> QED BY <2>8
<1> HIDE DEF P
<1>2. Spec => [][P]_vars
  BY <1>1, SeatInvariant, PTL DEF Spec
<1> QED BY <1>2 DEF P, SuspensionKeepsActiveAdmin
=============================================================================
