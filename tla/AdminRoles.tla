----------------------------- MODULE AdminRoles -----------------------------
(***************************************************************************)
(* The administrators: the ADMIN rows of user_roles and the account states *)
(* of their holders, changed by suspend_by_admin, restore_by_admin,        *)
(* grant_role, revoke_role_guarded and the two ways an account is erased.  *)
(*                                                                         *)
(* The guards rest on row locks, so the transactions are modelled          *)
(* statement by statement at READ COMMITTED.  "SELECT user_id FROM         *)
(* user_roles WHERE role = 'ADMIN' FOR UPDATE" fixes its rows when it      *)
(* starts (Snapshot); it then waits for the locks on them and returns      *)
(* those that still exist (LockAdmins; that it locks them one by one can   *)
(* only add deadlocks, which end in Abort).  A row granted meanwhile is    *)
(* not among them.  What follows the last statement that can wait, with    *)
(* the commit, is one step.  PostgreSQL may end a waiting transaction      *)
(* (deadlock, timeout), a process may die: Abort.  The actor's role is     *)
(* read when the session is resolved, before the transaction, and not      *)
(* looked at again.                                                        *)
(***************************************************************************)
EXTENDS Naturals, FiniteSets

CONSTANTS
  Users,
  Admins0,    \* the holders of ADMIN at the start
  Verified,   \* accounts whose address is verified
  Txs,        \* bound: transactions under way at once
  MaxGrants   \* bound: grants of ADMIN

ASSUME AdminsOK == Admins0 # {} /\ Admins0 \subseteq Users /\ Verified \subseteq Users
ASSUME BoundOK  == MaxGrants \in Nat /\ IsFiniteSet(Users)

VARIABLES
  admins,   \* the users with an ADMIN row
  acct,     \* account_state
  tx,       \* the transactions
  grants    \* grants so far

vars == <<admins, acct, tx, grants>>

\* suspend_by_admin, revoke_role_guarded, the user's own deletion, retention.
Guarded == {"suspend", "revoke", "erase", "retire"}
Kinds   == Guarded \cup {"grant", "restore"}
\* recheck: retention's own lock on the users row comes first; begin: before
\* the locking SELECT; wait: in it; locked, counted: after it.
Places == {"recheck", "begin", "wait", "locked", "counted"}

Tx == [op : Kinds, target : Users, pc : Places, snap : SUBSET Users,
       seen : SUBSET Users, row : BOOLEAN]
Idle == [op |-> "idle"]

\* Every variable holds what the tables and the sessions can hold.
TypeOK ==
  /\ admins \in SUBSET Users
  /\ acct \in [Users -> {"pending", "active", "suspended", "deleted"}]
  /\ tx \in [Txs -> Tx \cup {Idle}]
  /\ grants \in 0..MaxGrants

Running(t) == tx[t] # Idle

\* The ADMIN rows a transaction has locked, and the users row.
Held(t) == IF Running(t) /\ tx[t].pc \in {"locked", "counted"} THEN tx[t].seen ELSE {}
RowFree(u, t) == \A o \in Txs \ {t} : ~(Running(o) /\ tx[o].row /\ tx[o].target = u)
RoleFree(u, t) == \A o \in Txs \ {t} : u \notin Held(o)

CanLogIn(u) == acct[u] \in {"pending", "active"}
Ends(t) == tx' = [tx EXCEPT ![t] = Idle]

\* auth.require_role(Role::Admin) on the resolved session.
Authorized(a) == a \in admins /\ CanLogIn(a)

Init ==
  /\ admins = Admins0
  /\ acct = [u \in Users |-> IF u \in Verified THEN "active" ELSE "pending"]
  /\ tx = [t \in Txs |-> Idle]
  /\ grants = 0

Begin(t, op, u, pc) ==
  /\ tx[t] = Idle
  /\ tx' = [tx EXCEPT ![t] = [op |-> op, target |-> u, pc |-> pc, snap |-> {},
                              seen |-> {}, row |-> FALSE]]
  /\ UNCHANGED <<admins, acct, grants>>

BeginSuspend(t, a, u) == Authorized(a) /\ a # u /\ Begin(t, "suspend", u, "begin")
BeginRevoke(t, a, u)  == Authorized(a) /\ Begin(t, "revoke", u, "begin")
BeginRestore(t, a, u) == Authorized(a) /\ Begin(t, "restore", u, "begin")

BeginGrant(t, a, u) ==
  /\ tx[t] = Idle /\ Authorized(a) /\ grants < MaxGrants
  /\ grants' = grants + 1
  /\ tx' = [tx EXCEPT ![t] = [op |-> "grant", target |-> u, pc |-> "begin", snap |-> {},
                              seen |-> {}, row |-> FALSE]]
  /\ UNCHANGED <<admins, acct>>

\* The precheck of a deletion takes no lock.
BeginErase(t, u) == CanLogIn(u) /\ admins # {u} /\ Begin(t, "erase", u, "begin")

\* Retention has read its candidates before.
BeginRetire(t, u) == acct[u] # "deleted" /\ Begin(t, "retire", u, "recheck")

Recheck(t) ==
  /\ Running(t) /\ tx[t].pc = "recheck" /\ RowFree(tx[t].target, t)
  /\ IF acct[tx[t].target] = "deleted" THEN Ends(t)
     ELSE tx' = [tx EXCEPT ![t].pc = "begin", ![t].row = TRUE]
  /\ UNCHANGED <<admins, acct, grants>>

Snapshot(t) ==
  /\ Running(t) /\ tx[t].op \in Guarded /\ tx[t].pc = "begin"
  /\ tx' = [tx EXCEPT ![t].pc = "wait", ![t].snap = admins]
  /\ UNCHANGED <<admins, acct, grants>>

LockAdmins(t) ==
  /\ Running(t) /\ tx[t].pc = "wait"
  /\ \A u \in tx[t].snap : RoleFree(u, t)
  /\ tx' = [tx EXCEPT ![t].pc = "locked", ![t].seen = tx[t].snap \cap admins]
  /\ UNCHANGED <<admins, acct, grants>>

\* Mutant: any other ADMIN row counts, whatever the state of its account.
MutOtherActiveAdmins(u) == admins \ {u}

OtherActiveAdmins(u) == {a \in admins \ {u} : acct[a] = "active"}

\* suspend: the users row, its state, and for an active admin the others.
CountOthers(t) ==
  LET u == tx[t].target IN
  /\ Running(t) /\ tx[t].op = "suspend" /\ tx[t].pc = "locked" /\ RowFree(u, t)
  /\ IF ~CanLogIn(u) \/ (acct[u] = "active" /\ u \in tx[t].seen /\ OtherActiveAdmins(u) = {})
     THEN Ends(t)
     ELSE tx' = [tx EXCEPT ![t].pc = "counted", ![t].row = TRUE]
  /\ UNCHANGED <<admins, acct, grants>>

SuspendCommits(t) ==
  /\ Running(t) /\ tx[t].op = "suspend" /\ tx[t].pc = "counted"
  /\ acct' = [acct EXCEPT ![tx[t].target] = "suspended"]
  /\ Ends(t)
  /\ UNCHANGED <<admins, grants>>

\* Mutant: the last seat is not looked at.
MutLastSeat(t) == FALSE

\* revoke_role_guarded and last_admin_locked refuse the last seat.
LastSeat(t) == tx[t].seen = {tx[t].target}

RevokeCommits(t) ==
  LET u == tx[t].target IN
  /\ Running(t) /\ tx[t].op = "revoke" /\ tx[t].pc = "locked" /\ RoleFree(u, t)
  /\ admins' = IF LastSeat(t) THEN admins ELSE admins \ {u}
  /\ Ends(t)
  /\ UNCHANGED <<acct, grants>>

EraseCommits(t) ==
  LET u == tx[t].target IN
  /\ Running(t) /\ tx[t].op \in {"erase", "retire"} /\ tx[t].pc = "locked"
  /\ RoleFree(u, t) /\ RowFree(u, t)
  /\ IF LastSeat(t) THEN UNCHANGED <<admins, acct>>
     ELSE /\ admins' = admins \ {u}
          /\ acct' = [acct EXCEPT ![u] = "deleted"]
  /\ Ends(t)
  /\ UNCHANGED grants

Abort(t) ==
  /\ Running(t)
  /\ Ends(t)
  /\ UNCHANGED <<admins, acct, grants>>

\* One INSERT; its foreign key waits for the users row.
GrantCommits(t) ==
  /\ Running(t) /\ tx[t].op = "grant" /\ RowFree(tx[t].target, t)
  /\ admins' = admins \cup {tx[t].target}
  /\ Ends(t)
  /\ UNCHANGED <<acct, grants>>

RestoreCommits(t) ==
  LET u == tx[t].target IN
  /\ Running(t) /\ tx[t].op = "restore" /\ RowFree(u, t)
  /\ acct' = IF acct[u] # "suspended" THEN acct
             ELSE [acct EXCEPT ![u] = IF u \in Verified THEN "active" ELSE "pending"]
  /\ Ends(t)
  /\ UNCHANGED <<admins, grants>>

Next ==
  \/ \E t \in Txs, u \in Users :
       \/ \E a \in Users : \/ BeginSuspend(t, a, u) \/ BeginRevoke(t, a, u)
                          \/ BeginGrant(t, a, u) \/ BeginRestore(t, a, u)
       \/ BeginErase(t, u) \/ BeginRetire(t, u)
  \/ \E t \in Txs :
       \/ Recheck(t) \/ Snapshot(t) \/ LockAdmins(t) \/ CountOthers(t)
       \/ SuspendCommits(t) \/ RevokeCommits(t) \/ EraseCommits(t)
       \/ GrantCommits(t) \/ RestoreCommits(t) \/ Abort(t)

Spec == Init /\ [][Next]_vars

-----------------------------------------------------------------------------
(* Properties. *)

\* The FOR UPDATE of the three guards does what their comments rely on: until
\* its transaction ends, the ADMIN rows a guard has counted are neither
\* revoked nor erased by another one, and no two guards count the same seat.
LockedSeatsStay ==
  \A t \in Txs : /\ Held(t) \subseteq admins
                 /\ \A o \in Txs \ {t} : Held(o) \cap Held(t) = {}

\* "The system must keep at least one admin": no interleaving of commits leaves
\* user_roles without an ADMIN row.
AdminRemains == admins # {}

\* What the guards do achieve: the floor holds, whoever revokes, suspends,
\* restores and erases whom at the same time, as long as nobody has been made
\* an administrator meanwhile.
FloorHoldsWithoutGrants == grants = 0 => AdminRemains

\* A suspension never takes the last active administrator: suspend_by_admin
\* counts the others in one statement and updates in a later one, and when it
\* commits another administrator still is active (again without grants).
SuspensionKeepsActiveAdmin ==
  [][\A u \in Users : /\ grants = 0 /\ acct[u] = "active" /\ acct'[u] = "suspended"
                      /\ \E t \in Txs : tx'[t] # tx[t] /\ tx[t].target = u /\ u \in tx[t].seen
        => \E a \in admins' : acct'[a] = "active"]_vars

\* LastActiveAdmin, "the system must keep at least one active admin": once
\* there is an active administrator, no commit leaves the system without one.
ActiveAdminRemains ==
  [][(\E a \in admins : acct[a] = "active") => \E a \in admins' : acct'[a] = "active"]_vars

=============================================================================
