------------------------------ MODULE Limiter -------------------------------
(***************************************************************************)
(* The two rate limiters behind one port.  In memory: a sliding window per *)
(* key under a mutex, in a map that is swept and, at its limit, evicts.    *)
(* ValKey: the same window in a script that runs in the store, behind a    *)
(* deadline, after which the policy of the bucket decides: general buckets *)
(* open or closed as configured, credential-sensitive ones always closed.  *)
(*                                                                         *)
(* A tick is longer than the deadline (half a second; windows are minutes  *)
(* to days): a call is answered or given up within the tick that it began  *)
(* in, but a script whose caller has given up may still run much later,    *)
(* with the time that its caller read.                                     *)
(***************************************************************************)
EXTENDS Integers, FiniteSets, FiniteSetsExt

CONSTANTS
  Keys,          \* buckets
  LongKeys,      \* those with the long window
  SensitiveKeys, \* those of sign-in and re-authentication
  StoreKeys,     \* those used with the store, where keys do not meet
  Checks,        \* calls to the store under way at a time
  Limit,         \* requests allowed in a window
  MaxBuckets,    \* MAX_BUCKETS
  Headroom,      \* what an eviction makes room for, MAX_BUCKETS / 10
  SweepEvery,    \* SWEEP_EVERY_NEW_KEYS
  MaxTick        \* bound: the clock stops here

ASSUME LimiterConstantsOK ==
  /\ Limit \in Nat /\ MaxBuckets \in Nat \ {0} /\ Headroom \in 1..MaxBuckets
  /\ SweepEvery \in Nat /\ MaxTick \in Nat
  /\ StoreKeys \subseteq Keys /\ IsFiniteSet(Checks)

Never == -1
NoCheck == [pc |-> "none"]

VARIABLES
  backend,       \* "memory", or "valkey" with what general buckets do on failure
  failOpen,
  events,        \* key |-> the requests recorded for it, members of their own with a time
  seen,          \* memory: key |-> last_seen, or Never for a key not in the map
  sinceSweep,    \* memory: new keys since the last sweep
  checking,      \* valkey: the calls under way
  passed,        \* key |-> tick |-> requests let through, up to one too many
  forgotten,     \* keys evicted while their window was open
  tick

limiterVars == <<backend, failOpen, events, seen, sinceSweep, checking, passed, forgotten, tick>>

Window(k) == IF k \in LongKeys THEN 2 ELSE 1
Entry == [at : 0..MaxTick, n : 1..Limit]
Held == {k \in Keys : seen[k] # Never}

\* Windows, the map, calls and counts have their types.
LimiterTypeOK ==
  /\ backend \in {"memory", "valkey"} /\ failOpen \in BOOLEAN
  /\ events \in [Keys -> SUBSET Entry]
  /\ seen \in [Keys -> Never..MaxTick] /\ sinceSweep \in 0..SweepEvery
  /\ checking \in [Checks -> {NoCheck} \cup
       [pc : {"sent", "late"}, key : Keys, at : 0..MaxTick] \cup
       [pc : {"ran"}, key : Keys, at : 0..MaxTick, allow : BOOLEAN]]
  /\ passed \in [Keys -> [0..MaxTick -> 0..Limit + 1]]
  /\ forgotten \subseteq Keys /\ tick \in 0..MaxTick

Counted(k, t) == passed' = [passed EXCEPT ![k][t] = IF @ > Limit THEN @ ELSE @ + 1]

\* The window at t: what is older than it is dropped, and t is recorded, as one
\* more member, if there is room (both backends).
Trimmed(k, t, es) == {e \in es : e.at > t - Window(k)}
HasRoom(k, t, es) == Cardinality(Trimmed(k, t, es)) < Limit
NewEntry(t, es) == [at |-> t, n |-> CHOOSE i \in 1..Limit : [at |-> t, n |-> i] \notin es]
Recorded(k, t, es) ==
  IF HasRoom(k, t, es) THEN Trimmed(k, t, es) \cup {NewEntry(t, Trimmed(k, t, es))}
  ELSE Trimmed(k, t, es)
----------------------------------------------------------------------------
\* InMemoryRateLimiter::check, under the mutex.

\* now.duration_since(b.last_seen) >= b.window
Lapsed(k, new) == tick - seen[k] >= Window(k)

\* Only a new key can make the map grow; every so often, or at the limit, it
\* is swept first.
Sweeps(k) == k \notin Held /\ (sinceSweep + 1 >= SweepEvery \/ Cardinality(Held) >= MaxBuckets)

\* What the sweep leaves: the buckets that are still open, and where that is
\* no less than MAX_BUCKETS, without those touched longest ago.
Survivors(k) ==
  LET open == {b \in Held : ~Lapsed(b, k)}
      excess == Cardinality(open) - (MaxBuckets - Headroom)
  IN IF Cardinality(open) < MaxBuckets THEN {open}
     ELSE {open \ gone : gone \in
             {g \in kSubset(excess, open) : \A x \in g, y \in open \ g : seen[x] <= seen[y]}}

CheckInMemory(k) ==
  /\ backend = "memory"
  /\ \E kept \in (IF Sweeps(k) THEN Survivors(k) ELSE {Held}) :
       LET es == IF k \in kept THEN events[k] ELSE {} IN
       /\ events' = [b \in Keys |-> IF b = k THEN Recorded(k, tick, es)
                                    ELSE IF b \in kept THEN events[b] ELSE {}]
       /\ seen' = [b \in Keys |-> IF b = k THEN tick
                                  ELSE IF b \in kept THEN seen[b] ELSE Never]
       /\ forgotten' = forgotten \cup
            (IF Sweeps(k) /\ Cardinality({b \in Held : ~Lapsed(b, k)}) >= MaxBuckets
             THEN Held \ kept ELSE {})
       /\ IF HasRoom(k, tick, es) THEN Counted(k, tick) ELSE UNCHANGED passed
  /\ sinceSweep' = IF k \in Held THEN sinceSweep ELSE IF Sweeps(k) THEN 0 ELSE sinceSweep + 1
  /\ UNCHANGED <<backend, failOpen, checking, tick>>
----------------------------------------------------------------------------
\* ValKeyRateLimiter::check_with_policy

StartCheck(c, k) ==
  /\ backend = "valkey" /\ checking[c] = NoCheck
  /\ checking' = [checking EXCEPT ![c] =
       [pc |-> "sent", key |-> k, at |-> tick]]
  /\ UNCHANGED <<backend, failOpen, events, seen, sinceSweep, passed, forgotten, tick>>

\* RATE_LIMIT_LUA runs, for a caller that waits or for one that gave up.
RunScript(c) ==
  LET x == checking[c] IN
  /\ x.pc \in {"sent", "late"}
  /\ events' = [events EXCEPT ![x.key] = Recorded(x.key, x.at, @)]
  /\ checking' = [checking EXCEPT ![c] =
       IF x.pc = "late" THEN NoCheck
       ELSE [pc |-> "ran", key |-> x.key, at |-> x.at,
             allow |-> HasRoom(x.key, x.at, events[x.key])]]
  /\ UNCHANGED <<backend, failOpen, seen, sinceSweep, passed, forgotten, tick>>

\* The answer arrives in time.
Answered(c) ==
  LET x == checking[c] IN
  /\ x.pc = "ran"
  /\ checking' = [checking EXCEPT ![c] = NoCheck]
  /\ IF x.allow THEN Counted(x.key, x.at) ELSE UNCHANGED passed
  /\ UNCHANGED <<backend, failOpen, events, seen, sinceSweep, forgotten, tick>>

\* Mutant: sensitive buckets follow the configuration too.
MutLetsThrough(x) == failOpen

\* The policy of the bucket when there is no answer.
LetsThrough(x) == failOpen /\ x.key \notin SensitiveKeys

\* No connection, an error, or the deadline, before the script ran or after.
Degraded(c) ==
  LET x == checking[c] IN
  /\ x.pc \in {"sent", "ran"}
  /\ checking' = [checking EXCEPT ![c] =
       IF x.pc = "sent" THEN [x EXCEPT !.pc = "late"] ELSE NoCheck]
  /\ IF LetsThrough(x) THEN Counted(x.key, x.at) ELSE UNCHANGED passed
  /\ UNCHANGED <<backend, failOpen, events, seen, sinceSweep, forgotten, tick>>

\* The script of a caller that gave up never ran.
ScriptLost(c) ==
  /\ checking[c].pc = "late"
  /\ checking' = [checking EXCEPT ![c] = NoCheck]
  /\ UNCHANGED <<backend, failOpen, events, seen, sinceSweep, passed, forgotten, tick>>

Tick ==
  /\ tick < MaxTick
  /\ \A c \in Checks : checking[c].pc \notin {"sent", "ran"}
  /\ tick' = tick + 1
  /\ UNCHANGED <<backend, failOpen, events, seen, sinceSweep, checking, passed, forgotten>>
----------------------------------------------------------------------------
\* rate_limiter_from_config
LimiterInit ==
  /\ backend \in {"memory", "valkey"} /\ failOpen \in BOOLEAN
  /\ backend = "memory" => ~failOpen
  /\ events = [k \in Keys |-> {}] /\ seen = [k \in Keys |-> Never] /\ sinceSweep = 0
  /\ checking = [c \in Checks |-> NoCheck]
  /\ passed = [k \in Keys |-> [t \in 0..MaxTick |-> 0]]
  /\ forgotten = {} /\ tick = 0

LimiterNext ==
  \/ \E k \in Keys : CheckInMemory(k)
  \/ \E c \in Checks :
       \/ \E k \in StoreKeys : StartCheck(c, k)
       \/ RunScript(c) \/ Answered(c) \/ Degraded(c) \/ ScriptLost(c)
  \/ Tick

LimiterSpec == LimiterInit /\ [][LimiterNext]_limiterVars
----------------------------------------------------------------------------
\* Properties.

\* requests let through in the window of k that ends with t
InWindow(k, t) == passed[k][t] + IF Window(k) = 2 /\ t > 0 THEN passed[k][t - 1] ELSE 0

\* No window lets more than Limit requests through, whichever other keys were
\* swept, whatever scripts ran late, and for sensitive buckets also while the
\* store does not answer and the others are let through.  Only an eviction at
\* MAX_BUCKETS forgets ("a few extra allowed requests").
LimitHolds ==
  \A k \in Keys \ forgotten, t \in 0..MaxTick :
    (failOpen => k \in SensitiveKeys) => InWindow(k, t) <= Limit

\* The map stays bounded, whatever keys callers make up.
BucketsAreBounded == Cardinality(Held) <= MaxBuckets

\* The limit holds in a map that stays bounded.
LimiterIsSound == LimiterTypeOK /\ LimitHolds /\ BucketsAreBounded
----------------------------------------------------------------------------
\* The inductive invariant.

During(es, lo, hi) == {e \in es : lo < e.at /\ e.at <= hi}
Allows(x, k, u) == x.pc = "ran" /\ x.key = k /\ x.at = u /\ x.allow
Pending(calls, k, u) == {c \in Checks : Allows(calls[c], k, u)}

\* No window has more than Limit records.
RecordsAreFew ==
  \A k \in Keys :
    /\ IsFiniteSet(events[k])
    /\ \A t \in 0..MaxTick : Cardinality(During(events[k], t - Window(k), t)) <= Limit

\* Keys that the limit is promised for.
Kept(k) == k \notin forgotten /\ (failOpen => k \in SensitiveKeys)

\* What was let through in an open window, or is about to be, has its record.
PassedIsRecorded ==
  \A k \in Keys, u \in 0..MaxTick :
    Kept(k) /\ u > tick - Window(k) =>
      passed[k][u] + Cardinality(Pending(checking, k, u)) <= Cardinality(During(events[k], u - 1, u))

\* A call that is answered or given up is of this tick, and none is of the future.
CallsAreRecent ==
  /\ \A c \in Checks : checking[c] # NoCheck =>
       checking[c].at <= tick /\ (checking[c].pc # "late" => checking[c].at = tick)
  /\ \A k \in Keys, u \in 0..MaxTick : u > tick => passed[k][u] = 0

\* In memory, a bucket's records are no younger than its last use, and a key
\* that is not in the map has none.
MapIsCurrent ==
  /\ IsFiniteSet(Held)
  /\ backend = "memory" =>
       /\ \A c \in Checks : checking[c] = NoCheck
       /\ \A k \in Keys : IF k \in Held THEN seen[k] <= tick /\ \A e \in events[k] : e.at <= seen[k]
                          ELSE events[k] = {}

LimiterInv ==
  /\ LimiterIsSound /\ RecordsAreFew /\ PassedIsRecorded /\ CallsAreRecent /\ MapIsCurrent
=============================================================================
