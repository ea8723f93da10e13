--------------------------- MODULE ReviewsProofs ----------------------------
(***************************************************************************)
(* Proofs about Reviews, for every number of accounts, listings and        *)
(* transactions under way.                                                 *)
(***************************************************************************)
EXTENDS Reviews, FiniteSetTheorems, SequenceTheorems, TLAPS

-----------------------------------------------------------------------------
(* The statements of a transaction. *)

\* Which statements a kind of transaction has, and which follows which.
StageOf(kind) ==
  CASE kind = "review"   -> {"place", "user", "own", "commit"}
    [] kind = "propose"  -> {"place", "user", "commit"}
    [] kind = "flip"     -> {"place", "row", "commit"}
    [] kind = "takedown" -> {"place", "commit"}
    [] kind = "consent"  -> {"user", "rows", "commit"}
    [] kind = "erase"    -> {"user", "rows", "places", "commit"}

NextOf(kind, stage) ==
  CASE stage = "place" -> IF kind \in {"review", "propose"} THEN "user"
                          ELSE IF kind = "flip" THEN "row" ELSE "commit"
    [] stage = "user"  -> IF kind = "review" THEN "own"
                          ELSE IF kind = "propose" THEN "commit" ELSE "rows"
    [] stage = "rows"  -> IF kind = "erase" THEN "places" ELSE "commit"
    [] OTHER -> "commit"

LEMMA StagesOfKind ==
  ASSUME NEW kind \in Kinds, NEW stage
  PROVE  (\E k \in DOMAIN Statements(kind) : Statements(kind)[k] = stage) <=> stage \in StageOf(kind)
BY DEF Kinds, Statements, StageOf

LEMMA FirstStatement ==
  ASSUME NEW kind \in Kinds
  PROVE  Head(Statements(kind)) = IF kind \in {"consent", "erase"} THEN "user" ELSE "place"
<1>1. CASE kind = "review"
  <2>1. Statements(kind) = <<"place", "user", "own", "commit">>
    BY <1>1 DEF Statements
  <2> QED BY <1>1, <2>1
<1>2. CASE kind = "propose"
  <2>1. Statements(kind) = <<"place", "user", "commit">>
    BY <1>2 DEF Statements
  <2> QED BY <1>2, <2>1
<1>3. CASE kind = "flip"
  <2>1. Statements(kind) = <<"place", "row", "commit">>
    BY <1>3 DEF Statements
  <2> QED BY <1>3, <2>1
<1>4. CASE kind = "takedown"
  <2>1. Statements(kind) = <<"place", "commit">>
    BY <1>4 DEF Statements
  <2> QED BY <1>4, <2>1
<1>5. CASE kind = "consent"
  <2>1. Statements(kind) = <<"user", "rows", "commit">>
    BY <1>5 DEF Statements
  <2> QED BY <1>5, <2>1
<1>6. CASE kind = "erase"
  <2>1. Statements(kind) = <<"user", "rows", "places", "commit">>
    BY <1>6 DEF Statements
  <2> QED BY <1>6, <2>1
<1> QED BY <1>1, <1>2, <1>3, <1>4, <1>5, <1>6 DEF Kinds

LEMMA FollowingIs ==
  ASSUME NEW x, x.kind \in Kinds, x.stage \in StageOf(x.kind), x.stage # "commit"
  PROVE  Following(x) = NextOf(x.kind, x.stage)
<1> DEFINE s == Statements(x.kind)
           k == CHOOSE i \in DOMAIN s : s[i] = x.stage
<1>1. k \in DOMAIN s /\ s[k] = x.stage
  BY StagesOfKind
<1>2. Following(x) = s[k + 1]
  BY DEF Following
<1> HIDE DEF k
<1>3. CASE x.kind = "review"
  BY <1>1, <1>2, <1>3 DEF Statements, NextOf
<1>4. CASE x.kind = "propose"
  BY <1>1, <1>2, <1>4 DEF Statements, NextOf
<1>5. CASE x.kind = "flip"
  BY <1>1, <1>2, <1>5 DEF Statements, NextOf
<1>6. CASE x.kind = "takedown"
  BY <1>1, <1>2, <1>6 DEF Statements, NextOf
<1>7. CASE x.kind = "consent"
  BY <1>1, <1>2, <1>7 DEF Statements, NextOf
<1>8. CASE x.kind = "erase"
  BY <1>1, <1>2, <1>8 DEF Statements, NextOf
<1> QED BY <1>3, <1>4, <1>5, <1>6, <1>7, <1>8 DEF Kinds

-----------------------------------------------------------------------------
(* Rows and sequences. *)

LEMMA RowsDiffer ==
  /\ \A p, a : PlaceRow(p) # UserRow(a)
  /\ \A p, i : PlaceRow(p) # ReviewRow(i)
  /\ \A a, i : UserRow(a) # ReviewRow(i)
  /\ \A p, q : PlaceRow(p) = PlaceRow(q) <=> p = q
  /\ \A a, b : UserRow(a) = UserRow(b) <=> a = b
  /\ \A i, j : ReviewRow(i) = ReviewRow(j) <=> i = j
BY DEF PlaceRow, UserRow, ReviewRow

LEMMA RowsAre ==
  /\ \A p \in Places : PlaceRow(p) \in Rows
  /\ \A a \in Authors : UserRow(a) \in Rows
  /\ \A i \in 1..MaxRows : ReviewRow(i) \in Rows
BY DEF Rows

\* A table as a function on 1..n.
LEMMA SeqIsFunction ==
  ASSUME NEW S, NEW s, NEW n \in Nat
  PROVE  s \in [1..n -> S] => s \in Seq(S) /\ Len(s) = n
<1> SUFFICES ASSUME s \in [1..n -> S] PROVE s \in Seq(S) /\ Len(s) = n
  OBVIOUS
<1>1. s \in Seq(S)
  BY SeqDef
<1>2. Len(s) \in Nat /\ DOMAIN s = 1..Len(s)
  BY <1>1, LenProperties
<1>3. 1..Len(s) = 1..n
  BY <1>2
<1> QED BY <1>1, <1>2, <1>3

LEMMA Appended ==
  ASSUME NEW S, NEW s \in Seq(S), NEW e \in S
  PROVE  /\ Append(s, e) \in Seq(S) /\ Len(Append(s, e)) = Len(s) + 1
         /\ \A i \in 1..Len(s) : Append(s, e)[i] = s[i]
         /\ Append(s, e)[Len(s) + 1] = e
BY AppendProperties

-----------------------------------------------------------------------------
(* The rating of a listing. *)

\* The rating is a function of how many reviews gave how many stars.
LEMMA AggregateSame ==
  ASSUME NEW rs, NEW ss, NEW p,
         Cardinality(Seen(rs, p)) = Cardinality(Seen(ss, p)),
         \A r \in 1..5 : Cardinality(Given(rs, p, r)) = Cardinality(Given(ss, p, r))
  PROVE  Aggregate(rs, p) = Aggregate(ss, p)
<1>1. /\ Cardinality(Given(rs, p, 1)) = Cardinality(Given(ss, p, 1))
      /\ Cardinality(Given(rs, p, 2)) = Cardinality(Given(ss, p, 2))
      /\ Cardinality(Given(rs, p, 3)) = Cardinality(Given(ss, p, 3))
      /\ Cardinality(Given(rs, p, 4)) = Cardinality(Given(ss, p, 4))
      /\ Cardinality(Given(rs, p, 5)) = Cardinality(Given(ss, p, 5))
  OBVIOUS
<1> QED BY <1>1, Zenon DEF Aggregate

\* Two tables show the same reviews of a listing.
Alike(rs, ss, p) ==
  /\ Seen(rs, p) = Seen(ss, p)
  /\ \A i \in Seen(rs, p) : rs[i].rating = ss[i].rating

LEMMA AggregateAlike ==
  ASSUME NEW rs, NEW ss, NEW p, Alike(rs, ss, p)
  PROVE  Aggregate(rs, p) = Aggregate(ss, p)
<1>1. \A r \in 1..5 : Given(rs, p, r) = Given(ss, p, r)
  BY DEF Alike, Given
<1> QED BY <1>1, AggregateSame DEF Alike

\* A new review counts the same wherever its row is put.
LEMMA AggregateAppended ==
  ASSUME NEW rs \in Seq(ReviewType), NEW ss \in Seq(ReviewType), NEW p, Alike(rs, ss, p),
         NEW a \in ReviewType, NEW b \in ReviewType,
         a.place = b.place, a.state = b.state, a.rating = b.rating
  PROVE  Aggregate(Append(rs, a), p) = Aggregate(Append(ss, b), p)
<1>1. ASSUME NEW ts \in Seq(ReviewType), NEW c \in ReviewType
      PROVE  /\ Cardinality(Seen(Append(ts, c), p)) =
                  IF c.place = p /\ c.state = "ACTIVE" THEN Cardinality(Seen(ts, p)) + 1
                  ELSE Cardinality(Seen(ts, p))
             /\ \A r \in 1..5 : Cardinality(Given(Append(ts, c), p, r)) =
                  IF c.place = p /\ c.state = "ACTIVE" /\ c.rating = r
                  THEN Cardinality(Given(ts, p, r)) + 1 ELSE Cardinality(Given(ts, p, r))
  <2> DEFINE n == Len(ts)
             u == Append(ts, c)
  <2>1. n \in Nat /\ DOMAIN ts = 1..n
    BY <1>1, LenProperties
  <2>2. /\ DOMAIN u = 1..(n + 1) /\ u[n + 1] = c /\ \A i \in 1..n : u[i] = ts[i]
    BY <1>1, Appended, LenProperties
  <2>3. IsFiniteSet(1..n)
    BY <2>1, FS_Interval
  <2>4. /\ IsFiniteSet(Seen(ts, p)) /\ n + 1 \notin Seen(ts, p)
        /\ \A r \in 1..5 : IsFiniteSet(Given(ts, p, r)) /\ n + 1 \notin Given(ts, p, r)
    <3>1. Seen(ts, p) \subseteq 1..n /\ \A r \in 1..5 : Given(ts, p, r) \subseteq 1..n
      BY <2>1 DEF Seen, Given
    <3> QED BY <2>1, <2>3, <3>1, FS_Subset
  <2> HIDE DEF u, n
  <2>5. Seen(u, p) = IF c.place = p /\ c.state = "ACTIVE" THEN Seen(ts, p) \cup {n + 1}
                     ELSE Seen(ts, p)
    BY <2>1, <2>2 DEF Seen
  <2>6. \A r \in 1..5 : Given(u, p, r) =
          IF c.place = p /\ c.state = "ACTIVE" /\ c.rating = r THEN Given(ts, p, r) \cup {n + 1}
          ELSE Given(ts, p, r)
    <3> SUFFICES ASSUME NEW r \in 1..5
                 PROVE  Given(u, p, r) =
          IF c.place = p /\ c.state = "ACTIVE" /\ c.rating = r THEN Given(ts, p, r) \cup {n + 1}
          ELSE Given(ts, p, r)
      OBVIOUS
    <3>1. \A i : i \in Given(u, p, r) <=>
             (i \in Given(ts, p, r) \/ (i = n + 1 /\ c.place = p /\ c.state = "ACTIVE" /\ c.rating = r))
      BY <2>1, <2>2 DEF Seen, Given
    <3> QED BY <3>1
  <2>7. Cardinality(Seen(u, p)) = IF c.place = p /\ c.state = "ACTIVE" THEN Cardinality(Seen(ts, p)) + 1
                                  ELSE Cardinality(Seen(ts, p))
    BY <2>4, <2>5, FS_AddElement
  <2>8. \A r \in 1..5 : Cardinality(Given(u, p, r)) =
                  IF c.place = p /\ c.state = "ACTIVE" /\ c.rating = r
                  THEN Cardinality(Given(ts, p, r)) + 1 ELSE Cardinality(Given(ts, p, r))
    <3> SUFFICES ASSUME NEW r \in 1..5
                 PROVE  Cardinality(Given(u, p, r)) =
                  IF c.place = p /\ c.state = "ACTIVE" /\ c.rating = r
                  THEN Cardinality(Given(ts, p, r)) + 1 ELSE Cardinality(Given(ts, p, r))
      OBVIOUS
    <3>1. /\ IsFiniteSet(Given(ts, p, r)) /\ n + 1 \notin Given(ts, p, r)
      BY <2>4
    <3>2. Cardinality(Given(ts, p, r) \cup {n + 1}) = Cardinality(Given(ts, p, r)) + 1
      BY <3>1, FS_AddElement
    <3> QED BY <2>6, <3>2
  <2> QED BY <2>7, <2>8 DEF u
<1>2. \A r \in 1..5 : Given(rs, p, r) = Given(ss, p, r)
  BY DEF Alike, Given
<1> QED BY <1>1, <1>2, AggregateSame DEF Alike

\* An average of stars stays within them: numeric(3,2) holds it.
LEMMA AverageFits ==
  ASSUME NEW n \in Nat, n # 0, NEW s \in Nat, s <= 5 * n
  PROVE  (200 * s + n) \div (2 * n) \in 0..500
<1> DEFINE d == 2 * n
           t == 200 * s + n
           q == t \div d
<1>1. d \in Nat /\ d > 0 /\ t \in Nat /\ t <= 1001 * n
  OBVIOUS
<1>2. q \in Int /\ d * q <= t /\ t < d * (q + 1)
  BY <1>1
<1>3. q >= 0
  <2> SUFFICES ASSUME q < 0 PROVE FALSE
    BY <1>2
  <2>1. q + 1 <= 0
    BY <1>2
  <2>2. d * (q + 1) <= 0
    BY <1>1, <1>2, <2>1
  <2> QED BY <1>1, <1>2, <2>2
<1>4. q <= 500
  <2> SUFFICES ASSUME q >= 501 PROVE FALSE
    BY <1>2
  <2>1. d * q >= d * 501
    BY <1>1, <1>2
  <2> QED BY <1>1, <1>2, <2>1
<1> QED BY <1>2, <1>3, <1>4

LEMMA DisjointUnion ==
  ASSUME NEW S, NEW T, IsFiniteSet(S), IsFiniteSet(T), S \cap T = {}
  PROVE  /\ IsFiniteSet(S \cup T) /\ Cardinality(S \cup T) = Cardinality(S) + Cardinality(T)
<1>1. Cardinality({}) = 0 /\ Cardinality(S) \in Nat /\ Cardinality(T) \in Nat
  BY FS_EmptySet, FS_CardinalityType
<1>2. /\ IsFiniteSet(S \cup T)
      /\ Cardinality(S \cup T) = Cardinality(S) + Cardinality(T) - Cardinality(S \cap T)
  BY FS_Union
<1>3. Cardinality(S \cap T) = 0
  BY <1>1
<1> QED BY <1>1, <1>2, <1>3

LEMMA AggregateType ==
  ASSUME NEW rs \in Seq(ReviewType), NEW p
  PROVE  /\ Aggregate(rs, p) \in [avg : 0..500, count : 0..Len(rs)]
         /\ Aggregate(rs, p) \in [avg : Nat, count : Nat]
<1> DEFINE G1 == Given(rs, p, 1)
           G2 == Given(rs, p, 2)
           G3 == Given(rs, p, 3)
           G4 == Given(rs, p, 4)
           G5 == Given(rs, p, 5)
           n == Cardinality(Seen(rs, p))
           sum == Cardinality(G1) + 2 * Cardinality(G2) + 3 * Cardinality(G3)
                    + 4 * Cardinality(G4) + 5 * Cardinality(G5)
<1>0. Len(rs) \in Nat /\ DOMAIN rs = 1..Len(rs) /\ \A i \in DOMAIN rs : rs[i] \in ReviewType
  BY LenProperties
<1>1. \A i \in DOMAIN rs : rs[i].rating \in 1..5
  BY <1>0, ReviewConstantsOK DEF ReviewType
<1>2. IsFiniteSet(1..Len(rs)) /\ Cardinality(1..Len(rs)) = Len(rs)
  BY <1>0, FS_Interval
<1>3. Seen(rs, p) \subseteq 1..Len(rs)
  BY <1>0 DEF Seen
<1>4. IsFiniteSet(Seen(rs, p)) /\ n \in Nat /\ n <= Len(rs)
  BY <1>2, <1>3, FS_Subset, FS_CardinalityType
<1>5. /\ IsFiniteSet(G1) /\ IsFiniteSet(G2) /\ IsFiniteSet(G3) /\ IsFiniteSet(G4) /\ IsFiniteSet(G5)
  BY <1>4, FS_Subset DEF Given
<1>6. /\ Cardinality(G1) \in Nat /\ Cardinality(G2) \in Nat /\ Cardinality(G3) \in Nat
      /\ Cardinality(G4) \in Nat /\ Cardinality(G5) \in Nat
  BY <1>5, FS_CardinalityType
<1>7. n = Cardinality(G1) + Cardinality(G2) + Cardinality(G3) + Cardinality(G4) + Cardinality(G5)
  <2> DEFINE U2 == G1 \cup G2
             U3 == U2 \cup G3
             U4 == U3 \cup G4
  <2>1. Seen(rs, p) = U4 \cup G5
    BY <1>1 DEF Seen, Given
  <2>2. G1 \cap G2 = {} /\ U2 \cap G3 = {} /\ U3 \cap G4 = {} /\ U4 \cap G5 = {}
    BY DEF Given
  <2> HIDE DEF G1, G2, G3, G4, G5
  <2>3. IsFiniteSet(U2) /\ Cardinality(U2) = Cardinality(G1) + Cardinality(G2)
    BY <1>5, <2>2, DisjointUnion
  <2> HIDE DEF U2
  <2>4. IsFiniteSet(U3) /\ Cardinality(U3) = Cardinality(U2) + Cardinality(G3)
    BY <1>5, <2>2, <2>3, DisjointUnion
  <2> HIDE DEF U3
  <2>5. IsFiniteSet(U4) /\ Cardinality(U4) = Cardinality(U3) + Cardinality(G4)
    BY <1>5, <2>2, <2>4, DisjointUnion
  <2> HIDE DEF U4
  <2>6. n = Cardinality(U4) + Cardinality(G5)
    BY <1>5, <2>1, <2>2, <2>5, DisjointUnion
  <2> HIDE DEF n
  <2> QED BY <1>6, <2>3, <2>4, <2>5, <2>6
<1>8. Aggregate(rs, p) = [avg |-> IF n = 0 THEN 0 ELSE (200 * sum + n) \div (2 * n), count |-> n]
  BY DEF Aggregate
<1> HIDE DEF G1, G2, G3, G4, G5, n
<1>9. sum \in Nat /\ sum <= 5 * n
  <2>1. ASSUME NEW a \in Nat, NEW b \in Nat, NEW c \in Nat, NEW d \in Nat, NEW e \in Nat
        PROVE  LET s == a + 2 * b + 3 * c + 4 * d + 5 * e IN s \in Nat /\ s <= 5 * (a + b + c + d + e)
    OBVIOUS
  <2> QED BY <1>6, <1>7, <2>1, Zenon
<1> HIDE DEF sum
<1>10. n # 0 => (200 * sum + n) \div (2 * n) \in 0..500
  BY <1>4, <1>9, AverageFits
<1> DEFINE q == (200 * sum + n) \div (2 * n)
<1>11. (IF n = 0 THEN 0 ELSE q) \in 0..500 /\ n \in 0..Len(rs) /\ n \in Nat
  BY <1>0, <1>4, <1>10
<1> HIDE DEF q
<1> DEFINE avg == IF n = 0 THEN 0 ELSE q
<1>12. Aggregate(rs, p) = [avg |-> avg, count |-> n] /\ avg \in 0..500
  BY <1>8, <1>11 DEF q
<1> HIDE DEF avg, n
<1>13. avg \in Nat
  BY <1>12
<1> QED BY <1>11, <1>12, <1>13

-----------------------------------------------------------------------------
(* What the invariant says of a transaction under way. *)

LEMMA ActiveFacts ==
  ASSUME ReviewsInv, NEW w \in Writes, Active(w)
  PROVE  LET x == write[w] IN
         /\ x \in Transaction /\ x.kind \in Kinds /\ x.stage \in StageOf(x.kind) /\ x.at = w
         /\ LocksPlace(x) => x.place \in Places
         /\ LocksUser(x) => x.who \in Authors
         /\ x.kind = "review" => x.rating \in Ratings
         /\ x.kind = "flip" => /\ x.row \in DOMAIN review /\ review[x.row].place = x.place
                               /\ x.to \in {"HIDDEN", "ACTIVE"}
<1>1. TransactionWhole(write[w], w)
  BY DEF ReviewsInv, WritesInOrder
<1>2. write[w] \in Transaction /\ write[w].kind \in Kinds
  BY <1>1 DEF TransactionWhole, Transaction
<1> QED BY <1>1, <1>2, StagesOfKind DEF TransactionWhole

\* A lock that is held, a row still waited for, and the locks of the
\* statements that are over.
LEMMA LockFacts ==
  ASSUME ReviewsInv, NEW w \in Writes
  PROVE  LET x == write[w] IN
         /\ \A k \in Rows : rowlock[k] = w => Active(w) /\ k \in Reached(x) /\ k \notin x.todo
         /\ Active(w) =>
              /\ x.todo \subseteq Current(x)
              /\ LocksPlace(x) /\ (x.stage = "place" => x.todo = {}) => rowlock[PlaceRow(x.place)] = w
              /\ LocksUser(x) /\ x.stage # "place" /\ (x.stage = "user" => x.todo = {})
                   => rowlock[UserRow(x.who)] = w
BY DEF ReviewsInv, LocksAreHeld, StatementsHold

-----------------------------------------------------------------------------
(* Wait cycles. *)

\* Other than an erasure, a transaction that holds a listing and waits, waits
\* for an account or for reviews.
LEMMA BeyondPlace ==
  ASSUME ReviewsInv, NEW w \in Writes, Active(w), write[w].kind # "erase",
         NEW p, rowlock[PlaceRow(p)] = w, PlaceRow(p) \in Rows, NEW m \in write[w].todo
  PROVE  (\E a : m = UserRow(a)) \/ (\E j : m = ReviewRow(j))
<1> DEFINE x == write[w]
<1>1. x.kind \in Kinds /\ x.stage \in StageOf(x.kind)
  BY ActiveFacts
<1>2. PlaceRow(p) \in Reached(x) /\ PlaceRow(p) \notin x.todo /\ m \in Current(x)
  BY LockFacts
<1>3. PlaceRow(p) = PlaceRow(x.place)
  BY <1>2, RowsDiffer DEF Reached
<1> HIDE DEF x
<1>4. x.stage # "place" /\ x.stage # "places"
  BY <1>1, <1>2, <1>3 DEF Current, StageOf, Kinds, x
<1> QED BY <1>1, <1>2, <1>4 DEF Current, StageOf, Kinds

\* One that holds an account and waits, waits for reviews.
LEMMA BeyondUser ==
  ASSUME ReviewsInv, NEW w \in Writes, Active(w), write[w].kind # "erase",
         NEW a, rowlock[UserRow(a)] = w, UserRow(a) \in Rows, NEW m \in write[w].todo
  PROVE  \E j : m = ReviewRow(j)
<1> DEFINE x == write[w]
<1>1. x.kind \in Kinds /\ x.stage \in StageOf(x.kind)
  BY ActiveFacts
<1>2. UserRow(a) \in Reached(x) /\ UserRow(a) \notin x.todo /\ m \in Current(x)
  BY LockFacts
<1>3. x.stage # "place" /\ UserRow(a) = UserRow(x.who) /\ LocksUser(x)
  BY <1>2, RowsDiffer DEF Reached
<1> HIDE DEF x
<1>4. x.stage # "user" /\ x.stage # "places"
  BY <1>1, <1>2, <1>3 DEF Current, StageOf, Kinds, x
<1> QED BY <1>1, <1>2, <1>3, <1>4 DEF Current, StageOf, Kinds

\* One that holds a review and waits, withdraws the name of an account that
\* it holds, and waits for a review of that account.
LEMMA BeyondReview ==
  ASSUME ReviewsInv, NEW w \in Writes, Active(w), write[w].kind # "erase",
         NEW i, rowlock[ReviewRow(i)] = w, ReviewRow(i) \in Rows, NEW m \in write[w].todo
  PROVE  LET x == write[w] IN
         /\ x.kind = "consent" /\ rowlock[UserRow(x.who)] = w
         /\ review[i].author = x.who
         /\ \E j : m = ReviewRow(j) /\ review[j].author = x.who
<1> DEFINE x == write[w]
<1>1. x.kind \in Kinds /\ x.stage \in StageOf(x.kind) /\ (LocksUser(x) => x.who \in Authors)
  BY ActiveFacts
<1>2. ReviewRow(i) \in Reached(x) /\ ReviewRow(i) \notin x.todo /\ m \in Current(x) /\ m \in x.todo
  BY LockFacts
<1> HIDE DEF x
<1>3. \/ x.stage \in {"own", "commit"} /\ x.kind = "review" /\ i \in Own(x.place, x.who)
      \/ x.stage \in {"row", "commit"} /\ x.kind = "flip" /\ i = x.row
      \/ x.stage \in {"rows", "commit"} /\ x.kind = "consent" /\ i \in ByAuthor(x.who)
  BY <1>1, <1>2, RowsDiffer DEF Reached, StageOf, Kinds, x
<1>4. x.stage # "commit"
  BY <1>2 DEF Current
<1>5. ~(x.kind = "review")
  <2> SUFFICES ASSUME x.kind = "review" PROVE FALSE
    OBVIOUS
  <2>1. x.stage = "own" /\ i \in Own(x.place, x.who)
    BY <1>3, <1>4
  <2>2. PICK j \in Own(x.place, x.who) : m = ReviewRow(j)
    BY <1>2, <2>1 DEF Current
  <2>3. x.who # Nobody
    BY <1>1, ReviewConstantsOK DEF LocksUser
  <2>4. i = j
    BY <2>1, <2>2, <2>3 DEF ReviewsInv, OneReviewEach, Own
  <2> QED BY <1>2, <2>2, <2>4
<1>6. ~(x.kind = "flip")
  BY <1>2, <1>3, <1>4 DEF Current
<1>7. x.stage = "rows" /\ x.kind = "consent" /\ i \in ByAuthor(x.who)
  BY <1>3, <1>4, <1>5, <1>6
<1>8. rowlock[UserRow(x.who)] = w
  BY <1>7, LockFacts DEF LocksUser, x
<1>9. \E j : m = ReviewRow(j) /\ review[j].author = x.who
  BY <1>2, <1>7 DEF Current, ByAuthor
<1> QED BY <1>7, <1>8, <1>9 DEF ByAuthor, x

\* Without an erasure no wait cycle closes: along one, each waits for a later
\* kind of row than the one it holds, and two withdrawals wait for each other
\* only over reviews of one account, which one of them holds.
LEMMA NoCycle ==
  ASSUME ReviewsInv, NEW S \in SUBSET {w \in Writes : Active(w)}, Cycle(S),
         \A w \in S : write[w].kind # "erase"
  PROVE  FALSE
<1>0. \A w \in S : \E v \in S : \E k \in Rows :
        w # v /\ k \in write[w].todo /\ rowlock[k] = v
  <2>1. \A w \in S : write[w].todo \subseteq Rows
    BY ActiveFacts DEF Transaction
  <2> QED BY <2>1 DEF Cycle, WaitsFor
<1>1. \A k \in Rows : \/ \E p : k = PlaceRow(p)
                      \/ \E a : k = UserRow(a)
                      \/ \E i : k = ReviewRow(i)
  BY DEF Rows
<1>2. PICK w0 \in S : TRUE
  BY DEF Cycle
<1>3. PICK w1 \in S, k1 \in Rows : k1 \in write[w0].todo /\ rowlock[k1] = w1
  BY <1>0
<1>4. PICK w2 \in S, k2 \in Rows : k2 \in write[w1].todo /\ rowlock[k2] = w2
  BY <1>0
<1>5. PICK w3 \in S, k3 \in Rows : k3 \in write[w2].todo /\ rowlock[k3] = w3
  BY <1>0
<1>6. PICK w4 \in S, k4 \in Rows : w3 # w4 /\ k4 \in write[w3].todo /\ rowlock[k4] = w4
  BY <1>0
<1>7. PICK w5 \in S, k5 \in Rows : k5 \in write[w4].todo /\ rowlock[k5] = w5
  BY <1>0
<1>8. \E j : k3 = ReviewRow(j)
  <2>1. (\E a : k2 = UserRow(a)) \/ (\E j : k2 = ReviewRow(j))
    BY <1>1, <1>3, <1>4, BeyondPlace, BeyondUser, BeyondReview
  <2> QED BY <2>1, <1>4, <1>5, BeyondUser, BeyondReview
<1>9. PICK i : k3 = ReviewRow(i)
  BY <1>8
<1>10. /\ rowlock[UserRow(write[w3].who)] = w3
       /\ \E j : k4 = ReviewRow(j) /\ review[j].author = write[w3].who
  BY <1>5, <1>6, <1>9, BeyondReview
<1>11. PICK j : k4 = ReviewRow(j) /\ review[j].author = write[w3].who
  BY <1>10
<1>12. rowlock[UserRow(write[w4].who)] = w4 /\ review[j].author = write[w4].who
  BY <1>6, <1>7, <1>11, BeyondReview
<1> QED BY <1>6, <1>10, <1>11, <1>12

-----------------------------------------------------------------------------
(* Steps that leave the tables alone: one transaction moves. *)

LEMMA TableFacts ==
  ASSUME ReviewsInv
  PROVE  /\ MaxWrites \in Nat /\ Writes = 1..MaxWrites /\ MaxRows = MaxWrites
         /\ review \in Seq(ReviewType) /\ Len(review) \in Nat /\ Len(review) <= MaxRows
         /\ DOMAIN review = 1..Len(review) /\ DOMAIN review \subseteq 1..MaxRows
         /\ \A i \in DOMAIN review : review[i] \in ReviewType
         /\ rowlock \in [Rows -> Writes \cup {Nobody}] /\ Nobody \notin Writes
         /\ write \in [Writes -> Transaction \cup {Unused, Ended}]
         /\ started \in 0..MaxRows
<1>1. /\ review \in Seq(ReviewType) /\ Len(review) <= MaxRows
      /\ rowlock \in [Rows -> Writes \cup {Nobody}]
      /\ write \in [Writes -> Transaction \cup {Unused, Ended}]
      /\ started \in 0..MaxRows
  BY DEF ReviewsInv, ReviewsTypeOK
<1>2. Len(review) \in Nat /\ DOMAIN review = 1..Len(review) /\ \A i \in DOMAIN review : review[i] \in ReviewType
  BY <1>1, LenProperties
<1>3. MaxWrites \in Nat /\ Writes = 1..MaxWrites /\ MaxRows = MaxWrites /\ Nobody \notin Writes
  BY ReviewConstantsOK DEF Writes, MaxRows
<1> QED BY <1>1, <1>2, <1>3

\* A transaction is neither a fresh number nor an ended one.
LEMMA TransactionIsActive ==
  /\ Unused \notin Transaction /\ Ended \notin Transaction /\ Unused # Ended
<1>1. \A x \in Transaction : x.kind \in Kinds
  BY DEF Transaction
<1> QED BY <1>1 DEF Unused, Ended, Kinds

LEMMA OneMoves ==
  ASSUME ReviewsInv, NEW w \in Writes, NEW y, write[w] # Ended,
         write' = [write EXCEPT ![w] = y], y \in Transaction \cup {Ended},
         UNCHANGED <<review, versions, place, account>>,
         started' \in started..MaxRows, w <= started',
         rowlock' \in [Rows -> Writes \cup {Nobody}],
         \A k \in Rows, v \in Writes \ {w} : rowlock'[k] = v <=> rowlock[k] = v,
         \A k \in Rows : rowlock'[k] = w => y # Ended /\ k \in Reached(y) /\ k \notin y.todo,
         y # Ended => /\ TransactionWhole(y, w) /\ ReadStands(y) /\ y.todo \subseteq Current(y)
                      /\ LocksPlace(y) /\ (y.stage = "place" => y.todo = {})
                           => rowlock'[PlaceRow(y.place)] = w
                      /\ LocksUser(y) /\ y.stage # "place" /\ (y.stage = "user" => y.todo = {})
                           => rowlock'[UserRow(y.who)] = w
  PROVE  ReviewsInv'
<1>0. /\ MaxWrites \in Nat /\ Writes = 1..MaxWrites /\ MaxRows = MaxWrites
      /\ write \in [Writes -> Transaction \cup {Unused, Ended}] /\ started \in 0..MaxRows
      /\ Nobody \notin Writes
  BY TableFacts
<1>1. write'[w] = y /\ \A v \in Writes \ {w} : write'[v] = write[v]
  BY <1>0
<1>2. /\ \A v \in Writes \ {w} : Active(v)' <=> Active(v)
      /\ Active(w)' <=> y # Ended
  BY <1>1, TransactionIsActive DEF Active
<1>3. ReviewsTypeOK'
  <2>1. write' \in [Writes -> Transaction \cup {Unused, Ended}]
    BY <1>0
  <2>2. started' \in 0..MaxRows
    BY <1>0
  <2> QED BY <2>1, <2>2 DEF ReviewsInv, ReviewsTypeOK
<1>4. WritesInOrder'
  <2>1. \A v \in Writes : v > started' => write'[v] = Unused
    BY <1>0, <1>1 DEF ReviewsInv, WritesInOrder
  <2>2. \A v \in Writes : Active(v)' => TransactionWhole(write[v], v)'
    <3>1. \A v \in Writes \ {w} : Active(v) => TransactionWhole(write[v], v)
      BY DEF ReviewsInv, WritesInOrder
    <3> QED BY <1>1, <1>2, <3>1 DEF TransactionWhole
  <2>3. \A i \in DOMAIN review : write[review[i].at] = Ended /\ review[i].at \in Writes
    BY <1>0, TableFacts DEF ReviewsInv, WritesInOrder, ReviewType
  <2>4. \A i \in DOMAIN review' : write'[review'[i].at] = Ended
    BY <1>1, <2>3
  <2> QED BY <2>1, <2>2, <2>4 DEF ReviewsInv, WritesInOrder
<1>5. LocksAreHeld'
  <2>1. ASSUME NEW v \in Writes, NEW k \in Rows, rowlock'[k] = v
        PROVE  Active(v)' /\ k \in Reached(write[v])' /\ k \notin write'[v].todo
    <3>1. CASE v = w
      BY <1>1, <1>2, <2>1, <3>1 DEF Reached, Own, ByAuthor
    <3>2. CASE v # w
      <4>1. rowlock[k] = v
        BY <2>1, <3>2
      <4>2. Active(v) /\ k \in Reached(write[v]) /\ k \notin write[v].todo
        BY <4>1 DEF ReviewsInv, LocksAreHeld
      <4> QED BY <1>1, <1>2, <3>2, <4>2 DEF Reached, Own, ByAuthor
    <3> QED BY <3>1, <3>2
  <2>2. ASSUME NEW v \in Writes, Active(v)'
        PROVE  StatementsHold(write[v], v)'
    <3>1. CASE v = w
      <4>1. write'[v] = y /\ y # Ended
        BY <1>1, <1>2, <2>2, <3>1
      <4>2. (write[v].todo \subseteq Current(write[v]))'
        BY <4>1 DEF Current, Own, ByAuthor
      <4> QED BY <3>1, <4>1, <4>2 DEF StatementsHold, LocksPlace, LocksUser
    <3>2. CASE v # w
      <4>1. Active(v) /\ StatementsHold(write[v], v) /\ write'[v] = write[v]
        BY <1>1, <1>2, <2>2, <3>2 DEF ReviewsInv, LocksAreHeld
      <4>2. /\ LocksPlace(write[v]) => PlaceRow(write[v].place) \in Rows
            /\ LocksUser(write[v]) => UserRow(write[v].who) \in Rows
        BY <4>1, ActiveFacts, RowsAre
      <4>3. (write[v].todo \subseteq Current(write[v]))'
        <5>1. write[v].todo \subseteq Current(write[v])
          BY <4>1 DEF StatementsHold
        <5> QED BY <4>1, <5>1 DEF Current, Own, ByAuthor
      <4> QED BY <3>2, <4>1, <4>2, <4>3 DEF StatementsHold, LocksPlace, LocksUser
    <3> QED BY <3>1, <3>2
  <2> QED BY <2>1, <2>2 DEF LocksAreHeld
<1>6. ReadsStand'
  <2>1. \A v \in Writes \ {w} : Active(v) => ReadStands(write[v])
    BY DEF ReviewsInv, ReadsStand
  <2>2. ASSUME NEW v \in Writes, Active(v)' PROVE ReadStands(write[v])'
    <3>1. PICK x : x = write'[v]
      OBVIOUS
    <3>2. ReadStands(x)
      BY <1>1, <1>2, <2>1, <2>2, <3>1
    <3>3. Upserted(x)' = Upserted(x) /\ Flipped(x)' = Flipped(x)
      BY DEF Upserted, Flipped, Own
    <3>4. ReadStands(x)'
      BY <3>2, <3>3 DEF ReadStands
    <3> QED BY <3>1, <3>4 DEF ReadStands, Upserted, Flipped, Own
  <2> QED BY <2>2 DEF ReadsStand
<1>7. OneReviewEach' /\ RatingIsExact' /\ NewestVersionIsCurrent' /\ NamedNeedsConsent'
  BY DEF ReviewsInv, OneReviewEach, RatingIsExact, NewestVersionIsCurrent, NamedNeedsConsent, ShowsName
<1> QED BY <1>3, <1>4, <1>5, <1>6, <1>7 DEF ReviewsInv

\* The locks of a transaction that ends go; nobody else's do.
LEMMA Released ==
  ASSUME ReviewsInv, NEW w \in Writes
  PROVE  /\ Release(w) \in [Rows -> Writes \cup {Nobody}]
         /\ \A k \in Rows, v \in Writes \ {w} : Release(w)[k] = v <=> rowlock[k] = v
         /\ \A k \in Rows : Release(w)[k] # w
BY TableFacts DEF Release

LEMMA EndKeeps ==
  ASSUME ReviewsInv, NEW w \in Writes, Active(w), write' = [write EXCEPT ![w] = Ended],
         rowlock' = Release(w), UNCHANGED <<review, versions, place, account, started>>
  PROVE  ReviewsInv'
<1>1. write[w] # Ended /\ write[w] # Unused
  BY DEF Active
<1>2. started' \in started..MaxRows /\ w <= started'
  BY <1>1, TableFacts DEF ReviewsInv, WritesInOrder
<1>3. /\ rowlock' \in [Rows -> Writes \cup {Nobody}]
      /\ \A k \in Rows, v \in Writes \ {w} : rowlock'[k] = v <=> rowlock[k] = v
      /\ \A k \in Rows : rowlock'[k] # w
  BY Released
<1> QED BY <1>1, <1>2, <1>3, OneMoves

LEMMA TakeKeeps ==
  ASSUME ReviewsInv, NEW w \in Writes, NEW k \in Rows, TakeLock(w, k)
  PROVE  ReviewsInv'
<1>0. PICK x : x = write[w]
  OBVIOUS
<1>1. Active(w) /\ write[w] # Ended /\ write[w] # Unused /\ k \in x.todo
  BY <1>0 DEF TakeLock, Active
<1>2. /\ x \in Transaction /\ TransactionWhole(x, w) /\ StatementsHold(x, w) /\ ReadStands(x)
      /\ \A j \in Rows : rowlock[j] = w => j \in Reached(x) /\ j \notin x.todo
  BY <1>0, <1>1 DEF ReviewsInv, WritesInOrder, LocksAreHeld, ReadsStand, TransactionWhole
<1>3. PICK y : y = [x EXCEPT !.todo = x.todo \ {k}]
  OBVIOUS
<1>4. write' = [write EXCEPT ![w] = y]
  BY <1>0, <1>3, TableFacts DEF TakeLock
<1>5. /\ y \in Transaction /\ y.todo = x.todo \ {k} /\ y.kind = x.kind /\ y.stage = x.stage
      /\ y.place = x.place /\ y.who = x.who /\ y.row = x.row /\ y.rating = x.rating /\ y.to = x.to
      /\ y.named = x.named /\ y.rated = x.rated /\ y.at = x.at
  BY <1>2, <1>3 DEF Transaction
<1>6. started' \in started..MaxRows /\ w <= started'
  BY <1>1, TableFacts DEF ReviewsInv, WritesInOrder, TakeLock
<1>7. /\ rowlock' \in [Rows -> Writes \cup {Nobody}] /\ rowlock'[k] = w
      /\ \A j \in Rows \ {k} : rowlock'[j] = rowlock[j]
      /\ \A j \in Rows, v \in Writes \ {w} : rowlock'[j] = v <=> rowlock[j] = v
  BY TableFacts DEF TakeLock
<1>8. TransactionWhole(y, w)
  BY <1>2, <1>5 DEF TransactionWhole, LocksPlace, LocksUser
<1>9. ReadStands(y)
  <2>1. Upserted(y) = Upserted(x) /\ Flipped(y) = Flipped(x)
    BY <1>5 DEF Upserted, Flipped, NewReview, Edited
  <2> QED BY <1>2, <1>5, <2>1 DEF ReadStands
<1>10. Reached(y) = Reached(x) /\ Current(y) = Current(x)
  BY <1>5 DEF Reached, Current, LocksPlace, LocksUser
<1>11. k \in Current(x) /\ x.todo \subseteq Current(x)
  BY <1>1, <1>2 DEF StatementsHold
<1>12. k \in Reached(x)
  <2>1. x.kind \in Kinds /\ x.stage \in StageOf(x.kind)
    BY <1>0, <1>1, ActiveFacts
  <2>2. CASE x.stage \in {"place", "user"}
    BY <1>11, <2>1, <2>2 DEF Current, Reached, StageOf, Kinds, LocksPlace, LocksUser
  <2>3. CASE x.stage \in {"own", "row"}
    BY <1>11, <2>1, <2>3 DEF Current, Reached, StageOf, Kinds, LocksPlace, LocksUser
  <2>4. CASE x.stage \in {"rows", "places", "commit"}
    BY <1>11, <2>1, <2>4 DEF Current, Reached, StageOf, Kinds, LocksPlace, LocksUser
  <2> QED BY <2>1, <2>2, <2>3, <2>4 DEF StageOf, Kinds
<1>13. \A j \in Rows : rowlock'[j] = w => j \in Reached(y) /\ j \notin y.todo
  BY <1>2, <1>5, <1>7, <1>10, <1>12
<1>14. /\ LocksPlace(y) /\ (y.stage = "place" => y.todo = {}) => rowlock'[PlaceRow(y.place)] = w
       /\ LocksUser(y) /\ y.stage # "place" /\ (y.stage = "user" => y.todo = {})
            => rowlock'[UserRow(y.who)] = w
  <2>1. /\ LocksPlace(x) => PlaceRow(x.place) \in Rows
        /\ LocksUser(x) => UserRow(x.who) \in Rows
    BY <1>0, <1>1, ActiveFacts, RowsAre
  <2>2. x.stage = "place" /\ y.todo = {} => k = PlaceRow(x.place)
    BY <1>11 DEF Current
  <2>3. x.stage = "user" /\ y.todo = {} => k = UserRow(x.who)
    BY <1>11 DEF Current
  <2>4. LocksPlace(y) = LocksPlace(x) /\ LocksUser(y) = LocksUser(x)
    BY <1>5 DEF LocksPlace, LocksUser
  <2> QED BY <1>2, <1>5, <1>7, <2>1, <2>2, <2>3, <2>4 DEF StatementsHold
<1>15. UNCHANGED <<review, versions, place, account>> /\ y # Ended
  BY <1>5, TransactionIsActive DEF TakeLock
<1> QED BY <1>1, <1>4, <1>5, <1>6, <1>7, <1>8, <1>9, <1>10, <1>11, <1>13, <1>14, <1>15, OneMoves

\* A request begins: its first statement locks its first row.
LEMMA BeginKeeps ==
  ASSUME ReviewsInv, NEW w \in Writes, NEW kind \in Kinds,
         NEW p \in Places \cup {Nobody}, NEW a \in Authors \cup {Nobody}, NEW i \in 0..MaxRows,
         NEW r \in Ratings \cup {0}, NEW to \in {"none", "HIDDEN", "ACTIVE", "on", "off"},
         Begin(w, kind, p, a, i, r, to),
         kind \in {"review", "propose", "flip", "takedown"} => p \in Places,
         kind \in {"review", "propose", "consent", "erase"} => a \in Authors,
         kind = "review" => r \in Ratings,
         kind = "flip" => i \in DOMAIN review /\ review[i].place = p /\ to \in {"HIDDEN", "ACTIVE"}
  PROVE  ReviewsInv'
<1> DEFINE first == Head(Statements(kind))
           none == [avg |-> 0, count |-> 0]
<1>1. PICK x : x = [kind |-> kind, stage |-> first, todo |-> {}, place |-> p, who |-> a,
                    row |-> i, rating |-> r, to |-> to, named |-> FALSE,
                    rated |-> none, at |-> started + 1]
  OBVIOUS
<1>2. first = IF kind \in {"consent", "erase"} THEN "user" ELSE "place"
  BY FirstStatement
<1>3. PICK y : y = [x EXCEPT !.todo = Locked(x, x.stage)]
  OBVIOUS
<1>4. /\ w = started + 1 /\ write' = [write EXCEPT ![w] = y] /\ started' = started + 1
      /\ UNCHANGED <<review, versions, place, account, rowlock>>
  BY <1>1, <1>3 DEF Begin
<1> HIDE DEF first
<1>a. started \in Nat /\ w > started /\ w <= MaxRows
  <2>1. w = started + 1
    BY <1>4
  <2>2. started \in 0..MaxRows /\ w \in 1..MaxRows /\ MaxRows \in Nat
    BY TableFacts
  <2> QED BY <2>1, <2>2
<1>5. write[w] = Unused /\ write[w] # Ended /\ ~Active(w)
  BY <1>a, TransactionIsActive DEF ReviewsInv, WritesInOrder, Active
<1>6. started' \in started..MaxRows /\ w <= started'
  <2>1. started' = w
    BY <1>4
  <2>2. MaxRows \in Nat /\ w \in Nat
    BY TableFacts
  <2> QED BY <1>a, <2>1, <2>2
<1>7. Locked(x, x.stage) = IF first = "user" THEN {UserRow(a)} ELSE {PlaceRow(p)}
  BY <1>1, <1>2 DEF Locked, PlaceLock, UserLock
<1>8. Locked(x, x.stage) \subseteq Rows
  <2>1. (first = "user" => a \in Authors) /\ (first # "user" => p \in Places)
    BY <1>2 DEF Kinds
  <2>2. CASE first = "user"
    BY <1>7, <2>1, <2>2, RowsAre
  <2>3. CASE first # "user"
    BY <1>7, <2>1, <2>3, RowsAre
  <2> QED BY <2>2, <2>3
<1>9. /\ y.kind = kind /\ y.stage = first /\ y.todo = Locked(x, x.stage) /\ y.place = p /\ y.who = a
      /\ y.row = i /\ y.rating = r /\ y.to = to /\ y.named = FALSE /\ y.rated = none /\ y.at = w
  BY <1>1, <1>3, <1>4
<1>10. y \in Transaction
  <2>1. first \in Stages /\ none \in [avg : Nat, count : Nat]
    BY <1>2 DEF Stages
  <2> HIDE DEF none
  <2> QED BY <1>1, <1>3, <1>4, <1>8, <2>1 DEF Transaction
<1>11. TransactionWhole(y, w)
  <2>1. \E n \in DOMAIN Statements(kind) : Statements(kind)[n] = first
    <3>1. first \in StageOf(kind)
      BY <1>2 DEF StageOf, Kinds
    <3> QED BY <3>1, StagesOfKind
  <2> QED BY <1>9, <1>10, <2>1 DEF TransactionWhole, LocksPlace, LocksUser
<1>12. ReadStands(y)
  BY <1>2, <1>9 DEF ReadStands
<1>13. y.todo \subseteq Current(y) /\ y.todo # {} /\ y.stage \in {"place", "user"}
  <2>1. CASE first = "user"
    <3>1. y.todo = {UserRow(a)} /\ y.stage = "user" /\ y.who = a
      BY <1>7, <1>9, <2>1
    <3> QED BY <3>1 DEF Current
  <2>2. CASE first = "place"
    <3>1. y.todo = {PlaceRow(p)} /\ y.stage = "place" /\ y.place = p
      BY <1>7, <1>9, <2>2
    <3> QED BY <3>1 DEF Current
  <2> QED BY <1>2, <2>1, <2>2
<1>14. /\ ~(LocksPlace(y) /\ (y.stage = "place" => y.todo = {}))
       /\ ~(LocksUser(y) /\ y.stage # "place" /\ (y.stage = "user" => y.todo = {}))
  BY <1>2, <1>9, <1>13 DEF LocksPlace, LocksUser
<1>15. \A k \in Rows : rowlock'[k] # w
  BY <1>4, <1>5, TableFacts DEF ReviewsInv, LocksAreHeld
<1>16. rowlock' \in [Rows -> Writes \cup {Nobody}]
  BY <1>4, TableFacts
<1> QED BY <1>4, <1>5, <1>6, <1>10, <1>11, <1>12, <1>13, <1>14, <1>15, <1>16, OneMoves

-----------------------------------------------------------------------------
(* What the writers make of the reviews. *)

\* An upsert appends the author's first review of the listing, or edits it.
LEMMA UpsertedRows ==
  ASSUME ReviewsInv, NEW x \in Transaction, x.kind = "review",
         x.place \in Places, x.who \in Authors, x.rating \in Ratings
  PROVE  /\ Upserted(x) \in Seq(ReviewType) /\ NewReview(x) \in ReviewType
         /\ Own(x.place, x.who) = {} =>
              /\ Upserted(x) = Append(review, NewReview(x))
              /\ Len(Upserted(x)) = Len(review) + 1
              /\ \A i \in 1..Len(review) : Upserted(x)[i] = review[i]
              /\ Upserted(x)[Len(review) + 1] = NewReview(x)
         /\ Own(x.place, x.who) # {} =>
              /\ Len(Upserted(x)) = Len(review)
              /\ \A i \in 1..Len(review) : Upserted(x)[i] =
                   IF i \in Own(x.place, x.who) THEN [review[i] EXCEPT !.rating = x.rating]
                   ELSE review[i]
<1>0. /\ review \in Seq(ReviewType) /\ Len(review) \in Nat /\ DOMAIN review = 1..Len(review)
      /\ \A i \in DOMAIN review : review[i] \in ReviewType
      /\ Writes = 1..MaxRows
  BY TableFacts
<1>1. NewReview(x) \in ReviewType
  BY <1>0 DEF NewReview, ReviewType, Transaction
<1>2. CASE Own(x.place, x.who) = {}
  <2>1. Upserted(x) = Append(review, NewReview(x))
    BY <1>2 DEF Upserted
  <2> QED BY <1>0, <1>1, <1>2, <2>1, Appended
<1>3. CASE Own(x.place, x.who) # {}
  <2> DEFINE e == [i \in DOMAIN review |->
                     IF i \in Own(x.place, x.who) THEN [review[i] EXCEPT !.rating = x.rating]
                     ELSE review[i]]
  <2>1. Upserted(x) = e
    BY <1>3 DEF Upserted, Edited
  <2>2. \A i \in DOMAIN review : [review[i] EXCEPT !.rating = x.rating] \in ReviewType
    BY <1>0 DEF ReviewType
  <2>3. e \in [1..Len(review) -> ReviewType]
    BY <1>0, <2>2
  <2>4. e \in Seq(ReviewType) /\ Len(e) = Len(review)
    BY <1>0, <2>3, SeqIsFunction
  <2>5. \A i \in 1..Len(review) : e[i] =
          IF i \in Own(x.place, x.who) THEN [review[i] EXCEPT !.rating = x.rating] ELSE review[i]
    BY <1>0
  <2> HIDE DEF e
  <2> QED BY <1>1, <1>3, <2>1, <2>4, <2>5
<1> QED BY <1>2, <1>3

LEMMA FlippedRows ==
  ASSUME ReviewsInv, NEW x, x.row \in DOMAIN review, x.to \in {"HIDDEN", "ACTIVE"}
  PROVE  /\ Flipped(x) \in Seq(ReviewType) /\ Len(Flipped(x)) = Len(review)
         /\ \A i \in 1..Len(review) : Flipped(x)[i] =
              IF i = x.row THEN [review[i] EXCEPT !.state = x.to] ELSE review[i]
<1>0. /\ review \in Seq(ReviewType) /\ Len(review) \in Nat /\ DOMAIN review = 1..Len(review)
      /\ \A i \in DOMAIN review : review[i] \in ReviewType
  BY TableFacts
<1>1. review \in [1..Len(review) -> ReviewType]
  BY <1>0, LenProperties
<1>2. [review[x.row] EXCEPT !.state = x.to] \in ReviewType
  BY <1>0 DEF ReviewType
<1> DEFINE e == [review EXCEPT ![x.row] = [review[x.row] EXCEPT !.state = x.to]]
<1>3. Flipped(x) = e
  BY <1>1 DEF Flipped
<1>4. e \in [1..Len(review) -> ReviewType]
  BY <1>0, <1>1, <1>2
<1>5. \A i \in 1..Len(review) : e[i] =
        IF i = x.row THEN [review[i] EXCEPT !.state = x.to] ELSE review[i]
  BY <1>0, <1>1
<1>6. e \in Seq(ReviewType) /\ Len(e) = Len(review)
  BY <1>0, <1>4, SeqIsFunction
<1> HIDE DEF e
<1> QED BY <1>3, <1>5, <1>6

\* The name goes from every review of the account.
LEMMA UnsignedRows ==
  ASSUME ReviewsInv, NEW x
  PROVE  /\ Unsigned(x) \in Seq(ReviewType) /\ Len(Unsigned(x)) = Len(review)
         /\ \A i \in 1..Len(review) : Unsigned(x)[i] =
              IF review[i].author = x.who THEN [review[i] EXCEPT !.named = FALSE]
              ELSE review[i]
<1>0. /\ Len(review) \in Nat /\ DOMAIN review = 1..Len(review)
      /\ \A i \in DOMAIN review : review[i] \in ReviewType
  BY TableFacts
<1> DEFINE e == [i \in DOMAIN review |->
                   IF review[i].author = x.who THEN [review[i] EXCEPT !.named = FALSE]
                   ELSE review[i]]
<1>1. Unsigned(x) = e
  BY DEF Unsigned
<1>2. \A i \in DOMAIN review : [review[i] EXCEPT !.named = FALSE] \in ReviewType
  BY <1>0 DEF ReviewType
<1>3. e \in [1..Len(review) -> ReviewType]
  BY <1>0, <1>2
<1>4. e \in Seq(ReviewType) /\ Len(e) = Len(review)
  BY <1>0, <1>3, SeqIsFunction
<1>5. \A i \in 1..Len(review) : e[i] =
        IF review[i].author = x.who THEN [review[i] EXCEPT !.named = FALSE] ELSE review[i]
  BY <1>0
<1> HIDE DEF e
<1> QED BY <1>1, <1>4, <1>5

\* The author goes with it.
LEMMA AnonymizedRows ==
  ASSUME ReviewsInv, NEW x
  PROVE  /\ Anonymized(x) \in Seq(ReviewType) /\ Len(Anonymized(x)) = Len(review)
         /\ \A i \in 1..Len(review) : Anonymized(x)[i] =
              IF review[i].author = x.who THEN [review[i] EXCEPT !.named = FALSE, !.author = Nobody]
              ELSE review[i]
<1>0. /\ Len(review) \in Nat /\ DOMAIN review = 1..Len(review)
      /\ \A i \in DOMAIN review : review[i] \in ReviewType
  BY TableFacts
<1> DEFINE e == [i \in DOMAIN review |->
                   IF review[i].author = x.who THEN [review[i] EXCEPT !.named = FALSE, !.author = Nobody]
                   ELSE review[i]]
<1>1. Anonymized(x) = e
  BY DEF Anonymized
<1>2. \A i \in DOMAIN review : [review[i] EXCEPT !.named = FALSE, !.author = Nobody] \in ReviewType
  BY <1>0 DEF ReviewType
<1>3. e \in [1..Len(review) -> ReviewType]
  BY <1>0, <1>2
<1>4. e \in Seq(ReviewType) /\ Len(e) = Len(review)
  BY <1>0, <1>3, SeqIsFunction
<1>5. \A i \in 1..Len(review) : e[i] =
        IF review[i].author = x.who THEN [review[i] EXCEPT !.named = FALSE, !.author = Nobody] ELSE review[i]
  BY <1>0
<1> HIDE DEF e
<1> QED BY <1>1, <1>4, <1>5

-----------------------------------------------------------------------------
(* The next statement. *)

\* What the statement read changes nothing but what it read.
LEMMA LearnedFacts ==
  ASSUME ReviewsInv, NEW w \in Writes, Active(w), NEW x, x = write[w], NEW z, z = Learned(x)
  PROVE  /\ z \in Transaction /\ z.kind = x.kind /\ z.stage = x.stage /\ z.todo = x.todo
         /\ z.place = x.place /\ z.who = x.who /\ z.row = x.row /\ z.rating = x.rating
         /\ z.to = x.to /\ z.at = x.at
         /\ z.named = (IF x.kind = "review" /\ x.stage = "user" THEN account[x.who].consent ELSE x.named)
         /\ x.kind = "review" /\ x.stage = "own" => z.rated = Aggregate(Upserted(x), x.place)
         /\ x.kind = "flip" /\ x.stage = "row" => z.rated = Aggregate(Flipped(x), x.place)
<1>1. /\ x \in Transaction /\ (LocksPlace(x) => x.place \in Places)
      /\ (LocksUser(x) => x.who \in Authors) /\ (x.kind = "review" => x.rating \in Ratings)
      /\ x.kind = "flip" => x.row \in DOMAIN review /\ x.to \in {"HIDDEN", "ACTIVE"}
  BY ActiveFacts
<1>2. CASE x.kind = "review" /\ x.stage = "user"
  <2>1. account[x.who].consent \in BOOLEAN
    BY <1>1, <1>2 DEF ReviewsInv, ReviewsTypeOK, LocksUser
  <2>2. z = [x EXCEPT !.named = account[x.who].consent]
    BY <1>2 DEF Learned
  <2> QED BY <1>1, <1>2, <2>1, <2>2 DEF Transaction
<1>3. CASE x.kind = "review" /\ x.stage = "own"
  <2>1. PICK g : g = Aggregate(Upserted(x), x.place)
    OBVIOUS
  <2>2. z = [x EXCEPT !.rated = g]
    BY <1>3, <2>1 DEF Learned
  <2>3. Upserted(x) \in Seq(ReviewType)
    BY <1>1, <1>3, UpsertedRows DEF LocksPlace, LocksUser
  <2>5. g \in [avg : Nat, count : Nat]
    BY <2>1, <2>3, AggregateType
  <2> QED BY <1>1, <1>3, <2>1, <2>2, <2>5 DEF Transaction
<1>4. CASE x.kind = "flip" /\ x.stage = "row"
  <2>1. PICK g : g = Aggregate(Flipped(x), x.place)
    OBVIOUS
  <2>2. z = [x EXCEPT !.rated = g]
    BY <1>4, <2>1 DEF Learned
  <2>3. Flipped(x) \in Seq(ReviewType)
    BY <1>1, <1>4, FlippedRows
  <2>5. g \in [avg : Nat, count : Nat]
    BY <2>1, <2>3, AggregateType
  <2> QED BY <1>1, <1>4, <2>1, <2>2, <2>5 DEF Transaction
<1>5. CASE ~(x.kind = "review" /\ x.stage \in {"user", "own"}) /\ ~(x.kind = "flip" /\ x.stage = "row")
  <2>1. z = x
    BY <1>5 DEF Learned
  <2> QED BY <1>1, <1>5, <2>1 DEF Transaction
<1> QED BY <1>2, <1>3, <1>4, <1>5

\* The rows of the next statement are rows, the statement may lock them, and
\* none of the statements before it has.
LEMMA NextRows ==
  ASSUME ReviewsInv, NEW w \in Writes, Active(w), NEW x, x = write[w], x.stage # "commit",
         NEW y, y.kind = x.kind, y.place = x.place, y.who = x.who, y.row = x.row,
         y.stage = Following(x), y.todo = Locked(x, Following(x))
  PROVE  /\ y.stage \in StageOf(y.kind) /\ y.stage \in Stages /\ y.stage # "place"
         /\ y.todo \subseteq Rows /\ y.todo \subseteq Current(y)
         /\ Reached(x) \subseteq Reached(y) /\ Reached(x) \cap y.todo = {}
         /\ y.stage = "user" => y.todo # {}
         /\ LocksUser(x) /\ y.stage # "user" => x.stage # "place"
<1>1. /\ x.kind \in Kinds /\ x.stage \in StageOf(x.kind)
      /\ (LocksPlace(x) => x.place \in Places) /\ (LocksUser(x) => x.who \in Authors)
      /\ (x.kind = "flip" => x.row \in DOMAIN review)
  BY ActiveFacts
<1>2. y.stage = NextOf(x.kind, x.stage)
  BY <1>1, FollowingIs
<1>3. DOMAIN review \subseteq 1..MaxRows
  BY TableFacts
<1>4. CASE y.stage = "user"
  <2>1. x.stage = "place" /\ x.kind \in {"review", "propose"}
    BY <1>1, <1>2, <1>4 DEF NextOf, StageOf, Kinds
  <2>2. y.todo = {UserRow(x.who)}
    BY <1>4 DEF Locked, UserLock
  <2>3. UserRow(x.who) \in Rows
    BY <1>1, <2>1, RowsAre DEF LocksUser
  <2>4. Reached(x) = {PlaceRow(x.place)} /\ PlaceRow(x.place) \in Reached(y)
    BY <2>1 DEF Reached, LocksPlace, LocksUser
  <2>5. y.todo \subseteq Current(y)
    BY <1>4, <2>2 DEF Current
  <2>6. y.stage \in StageOf(y.kind)
    BY <1>4, <2>1 DEF StageOf
  <2> QED BY <1>4, <2>2, <2>3, <2>4, <2>5, <2>6, RowsDiffer DEF Stages
<1>5. CASE y.stage = "own"
  <2>1. x.stage = "user" /\ x.kind = "review"
    BY <1>1, <1>2, <1>5 DEF NextOf, StageOf, Kinds
  <2>2. y.todo = {ReviewRow(i) : i \in Own(x.place, x.who)}
    BY <1>5 DEF Locked
  <2>3. y.todo \subseteq Rows
    BY <1>3, <2>2, RowsAre DEF Own
  <2>4. Reached(x) = {PlaceRow(x.place), UserRow(x.who)} /\ Reached(x) \subseteq Reached(y)
    BY <1>5, <2>1 DEF Reached, LocksPlace, LocksUser
  <2>5. y.todo \subseteq Current(y)
    BY <1>5, <2>2 DEF Current
  <2>6. y.stage \in StageOf(y.kind)
    BY <1>5, <2>1 DEF StageOf
  <2> QED BY <1>5, <2>1, <2>2, <2>3, <2>4, <2>5, <2>6, RowsDiffer DEF Stages
<1>6. CASE y.stage = "row"
  <2>1. x.stage = "place" /\ x.kind = "flip"
    BY <1>1, <1>2, <1>6 DEF NextOf, StageOf, Kinds
  <2>2. y.todo = {ReviewRow(x.row)}
    BY <1>6 DEF Locked
  <2>3. y.todo \subseteq Rows
    BY <1>1, <1>3, <2>1, <2>2, RowsAre
  <2>4. Reached(x) = {PlaceRow(x.place)} /\ Reached(x) \subseteq Reached(y) /\ ~LocksUser(x)
    BY <1>6, <2>1 DEF Reached, LocksPlace, LocksUser
  <2>5. y.todo \subseteq Current(y)
    BY <1>6, <2>2 DEF Current
  <2>6. y.stage \in StageOf(y.kind)
    BY <1>6, <2>1 DEF StageOf
  <2> QED BY <1>6, <2>2, <2>3, <2>4, <2>5, <2>6, RowsDiffer DEF Stages
<1>7. CASE y.stage = "rows"
  <2>1. x.stage = "user" /\ x.kind \in {"consent", "erase"}
    BY <1>1, <1>2, <1>7 DEF NextOf, StageOf, Kinds
  <2>2. y.todo = {ReviewRow(i) : i \in Touched(x)}
    BY <1>7 DEF Locked
  <2>3. y.todo \subseteq Rows
    BY <1>3, <2>2, RowsAre DEF Touched, ByAuthor
  <2>4. Reached(x) = {UserRow(x.who)} /\ Reached(x) \subseteq Reached(y)
    BY <1>7, <2>1 DEF Reached, LocksPlace, LocksUser
  <2>5. y.todo \subseteq Current(y)
    BY <1>7, <2>2 DEF Current, Touched
  <2>6. y.stage \in StageOf(y.kind)
    BY <1>7, <2>1 DEF StageOf
  <2> QED BY <1>7, <2>1, <2>2, <2>3, <2>4, <2>5, <2>6, RowsDiffer DEF Stages
<1>8. CASE y.stage = "places"
  <2>1. x.stage = "rows" /\ x.kind = "erase"
    BY <1>1, <1>2, <1>8 DEF NextOf, StageOf, Kinds
  <2>2. y.todo \subseteq {PlaceRow(p) : p \in Places}
    BY <1>8 DEF Locked
  <2>3. y.todo \subseteq Rows
    BY <2>2, RowsAre
  <2>4. /\ Reached(x) = {UserRow(x.who)} \cup {ReviewRow(i) : i \in ByAuthor(x.who)}
        /\ Reached(x) \subseteq Reached(y)
    BY <1>8, <2>1 DEF Reached, LocksPlace, LocksUser
  <2>5. y.todo \subseteq Current(y)
    BY <1>8, <2>2 DEF Current
  <2>6. y.stage \in StageOf(y.kind)
    BY <1>8, <2>1 DEF StageOf
  <2> QED BY <1>8, <2>1, <2>2, <2>3, <2>4, <2>5, <2>6, RowsDiffer DEF Stages
<1>9. CASE y.stage = "commit"
  <2>1. y.todo = {}
    BY <1>9 DEF Locked
  <2>2. Reached(x) \subseteq Reached(y)
    <3>1. CASE x.kind \in {"review", "propose", "takedown"}
      BY <1>1, <1>9, <3>1 DEF Reached, LocksPlace, LocksUser, StageOf
    <3>2. CASE x.kind = "flip"
      BY <1>1, <1>9, <3>2 DEF Reached, LocksPlace, LocksUser, StageOf
    <3>3. CASE x.kind \in {"consent", "erase"}
      BY <1>1, <1>9, <3>3 DEF Reached, LocksPlace, LocksUser, StageOf
    <3> QED BY <1>1, <3>1, <3>2, <3>3 DEF Kinds
  <2>3. y.stage \in StageOf(y.kind)
    BY <1>1, <1>9 DEF StageOf, Kinds
  <2>4. LocksUser(x) => x.stage # "place"
    BY <1>1, <1>2, <1>9 DEF NextOf, LocksUser, StageOf
  <2> QED BY <1>9, <2>1, <2>2, <2>3, <2>4 DEF Stages
<1>10. y.stage \in {"user", "own", "row", "rows", "places", "commit"}
  BY <1>1, <1>2 DEF NextOf, StageOf, Kinds
<1> QED BY <1>4, <1>5, <1>6, <1>7, <1>8, <1>9, <1>10

LEMMA NextKeeps ==
  ASSUME ReviewsInv, NEW w \in Writes, NextStatement(w)
  PROVE  ReviewsInv'
<1>0. PICK x : x = write[w]
  OBVIOUS
<1>1. /\ Active(w) /\ x.stage # "commit" /\ x.todo = {} /\ write[w] # Ended /\ write[w] # Unused
      /\ UNCHANGED <<review, versions, place, account, started>>
  BY <1>0 DEF NextStatement, Active
<1>2. CASE Refused(x)
  <2>1. write' = [write EXCEPT ![w] = Ended] /\ rowlock' = Release(w)
    BY <1>0, <1>2 DEF NextStatement
  <2> QED BY <1>1, <2>1, EndKeeps
<1>3. CASE ~Refused(x)
  <2>1. PICK z : z = Learned(x)
    OBVIOUS
  <2>2. PICK y : y = [z EXCEPT !.stage = Following(x), !.todo = Locked(x, Following(x))]
    OBVIOUS
  <2>3. write' = [write EXCEPT ![w] = y] /\ rowlock' = rowlock
    BY <1>0, <1>3, <2>1, <2>2 DEF NextStatement
  <2>4. /\ z \in Transaction /\ z.kind = x.kind
        /\ z.place = x.place /\ z.who = x.who /\ z.row = x.row /\ z.rating = x.rating
        /\ z.to = x.to /\ z.at = x.at
        /\ z.named = (IF x.kind = "review" /\ x.stage = "user" THEN account[x.who].consent ELSE x.named)
        /\ x.kind = "review" /\ x.stage = "own" => z.rated = Aggregate(Upserted(x), x.place)
        /\ x.kind = "flip" /\ x.stage = "row" => z.rated = Aggregate(Flipped(x), x.place)
    BY <1>0, <1>1, <2>1, LearnedFacts
  <2>5. /\ y.kind = x.kind /\ y.place = x.place /\ y.who = x.who /\ y.row = x.row
        /\ y.rating = x.rating /\ y.to = x.to /\ y.at = x.at /\ y.named = z.named /\ y.rated = z.rated
        /\ y.stage = Following(x) /\ y.todo = Locked(x, Following(x))
    BY <2>2, <2>4 DEF Transaction
  <2>6. /\ y.stage \in StageOf(y.kind) /\ y.stage \in Stages /\ y.stage # "place"
        /\ y.todo \subseteq Rows /\ y.todo \subseteq Current(y)
        /\ Reached(x) \subseteq Reached(y) /\ Reached(x) \cap y.todo = {}
        /\ y.stage = "user" => y.todo # {}
        /\ LocksUser(x) /\ y.stage # "user" => x.stage # "place"
    BY <1>0, <1>1, <2>5, NextRows
  <2>7. y \in Transaction
    <3>1. Following(x) \in Stages /\ Locked(x, Following(x)) \in SUBSET Rows
      BY <2>5, <2>6
    <3> QED BY <2>2, <2>4, <3>1 DEF Transaction
  <2>8. TransactionWhole(x, w) /\ StatementsHold(x, w) /\ ReadStands(x)
    BY <1>0, <1>1 DEF ReviewsInv, WritesInOrder, LocksAreHeld, ReadsStand
  <2>9. TransactionWhole(y, w)
    <3>1. y.kind \in Kinds
      BY <2>7 DEF Transaction
    <3>2. \E k \in DOMAIN Statements(y.kind) : Statements(y.kind)[k] = y.stage
      BY <2>6, <3>1, StagesOfKind
    <3> QED BY <2>5, <2>7, <2>8, <3>2 DEF TransactionWhole, LocksPlace, LocksUser
  <2>10. ReadStands(y)
    <3>0. /\ x.kind \in Kinds /\ x.stage \in StageOf(x.kind)
      BY <1>0, <1>1, ActiveFacts
    <3>1. y.stage = NextOf(x.kind, x.stage)
      BY <1>1, <2>5, <3>0, FollowingIs
    <3>2. x.kind = "review" /\ y.stage = "commit" => x.stage = "own"
      BY <1>1, <3>0, <3>1 DEF NextOf, StageOf
    <3>3. x.kind = "review" /\ y.stage = "own" => x.stage = "user"
      BY <3>0, <3>1 DEF NextOf, StageOf
    <3>4. x.kind = "flip" /\ y.stage = "commit" => x.stage = "row"
      BY <1>1, <3>0, <3>1 DEF NextOf, StageOf
    <3>5. x.kind = "consent" /\ y.stage \in {"rows", "commit"} => x.stage \in {"user", "rows"}
      BY <1>1, <3>0, <3>1 DEF NextOf, StageOf
    <3>6. x.kind = "consent" /\ x.stage = "user" => ~account[x.who].erased
      BY <1>3 DEF Refused
    <3>7. x.kind = "review" /\ y.stage = "commit" => Upserted(y) = Upserted(x)
      BY <2>4, <2>5, <3>2 DEF Upserted, NewReview, Edited
    <3>8. Flipped(y) = Flipped(x)
      BY <2>5 DEF Flipped
    <3>9. y.kind = "review" /\ y.stage \in {"own", "commit"} => y.named = account[y.who].consent
      BY <2>4, <2>5, <2>8, <3>2, <3>3 DEF ReadStands
    <3>10. y.kind = "consent" /\ y.stage \in {"rows", "commit"} => ~account[y.who].erased
      BY <2>5, <2>8, <3>5, <3>6 DEF ReadStands
    <3>11. y.kind = "review" /\ y.stage = "commit" => y.rated = Aggregate(Upserted(y), y.place)
      BY <2>4, <2>5, <3>2, <3>7
    <3>12. y.kind = "flip" /\ y.stage = "commit" => y.rated = Aggregate(Flipped(y), y.place)
      BY <2>4, <2>5, <3>4, <3>8
    <3> QED BY <3>9, <3>10, <3>11, <3>12 DEF ReadStands
  <2>11. \A k \in Rows : rowlock'[k] = w => k \in Reached(y) /\ k \notin y.todo
    BY <1>0, <2>3, <2>6, LockFacts
  <2>12. /\ LocksPlace(y) => rowlock'[PlaceRow(y.place)] = w
         /\ LocksUser(y) /\ y.stage # "place" /\ (y.stage = "user" => y.todo = {})
              => rowlock'[UserRow(y.who)] = w
    BY <1>1, <2>3, <2>5, <2>6, <2>8 DEF StatementsHold, LocksPlace, LocksUser
  <2>13. /\ started' \in started..MaxRows /\ w <= started'
         /\ rowlock' \in [Rows -> Writes \cup {Nobody}] /\ rowlock' = rowlock /\ y # Ended
    BY <1>1, <2>3, <2>7, TableFacts, TransactionIsActive DEF ReviewsInv, WritesInOrder
  <2> QED BY <1>1, <2>3, <2>6, <2>7, <2>9, <2>10, <2>11, <2>12, <2>13, OneMoves
<1> QED BY <1>2, <1>3

-----------------------------------------------------------------------------
(* A commit. *)

\* The row that a transaction under way may add has room: each row is the
\* one of a transaction that is over.
LEMMA Room ==
  ASSUME ReviewsInv, NEW w \in Writes, Active(w)
  PROVE  Len(review) < MaxRows
<1> DEFINE n == Len(review)
           f == [i \in 1..n |-> review[i].at]
           W == Writes \ {w}
<1>1. /\ MaxWrites \in Nat /\ Writes = 1..MaxWrites /\ MaxRows = MaxWrites
      /\ n \in Nat /\ DOMAIN review = 1..n
      /\ \A i \in DOMAIN review : review[i] \in ReviewType
  BY TableFacts
<1>2. \A i \in 1..n : review[i].at \in W
  BY <1>1 DEF ReviewsInv, WritesInOrder, Active, ReviewType
<1>3. \A i, j \in 1..n : review[i].at = review[j].at => i = j
  BY <1>1 DEF ReviewsInv, WritesInOrder
<1>4. f \in Injection(1..n, W)
  BY <1>2, <1>3 DEF Injection, IsInjective
<1>5. IsFiniteSet(Writes) /\ Cardinality(Writes) = MaxWrites
  BY <1>1, FS_Interval
<1>6. IsFiniteSet(W) /\ Cardinality(W) = MaxWrites - 1
  BY <1>5, FS_RemoveElement
<1> HIDE DEF f, W, n
<1>7. Cardinality(1..n) = n
  <2>1. 1 \in Int /\ n \in Int /\ n \in Nat
    BY <1>1
  <2>2. Cardinality(1..n) = IF 1 > n THEN 0 ELSE n - 1 + 1
    BY <2>1, FS_Interval
  <2> QED BY <2>1, <2>2
<1>8. Cardinality(1..n) <= Cardinality(W)
  BY <1>4, <1>6, FS_Injection
<1>9. n <= MaxWrites - 1
  BY <1>6, <1>7, <1>8
<1> QED BY <1>1, <1>9 DEF n

\* The locks of a transaction that commits keep the others from the listing
\* and from the account.
LEMMA Excluded ==
  ASSUME ReviewsInv, NEW w \in Writes, Active(w), NEW x, x = write[w], x.stage = "commit",
         NEW v \in Writes, v # w, Active(v), NEW y, y = write[v]
  PROVE  /\ LocksPlace(x) /\ LocksPlace(y) /\ y.place = x.place => y.stage = "place"
         /\ LocksUser(x) /\ LocksUser(y) /\ y.who = x.who => y.stage \in {"place", "user"}
<1>1. /\ LocksPlace(x) => rowlock[PlaceRow(x.place)] = w
      /\ LocksUser(x) => rowlock[UserRow(x.who)] = w
  BY LockFacts
<1>2. /\ LocksPlace(y) /\ y.stage # "place" => rowlock[PlaceRow(y.place)] = v
      /\ LocksUser(y) /\ y.stage \notin {"place", "user"} => rowlock[UserRow(y.who)] = v
  BY LockFacts
<1> QED BY <1>1, <1>2

\* A row of review after the commit of x.
AuthorAfter(x, i) ==
  IF x.kind = "erase" /\ review[i].author = x.who THEN Nobody ELSE review[i].author
NamedAfter(x, i) ==
  IF \/ x.kind = "erase" /\ review[i].author = x.who
     \/ x.kind = "consent" /\ x.to # "on" /\ review[i].author = x.who
  THEN FALSE ELSE review[i].named
StateAfter(x, i) == IF x.kind = "flip" /\ i = x.row THEN x.to ELSE review[i].state
RatingAfter(x, i) ==
  IF x.kind = "review" /\ i \in Own(x.place, x.who) THEN x.rating ELSE review[i].rating

\* What a commit does to a row of review.
LEMMA CommitRows ==
  ASSUME ReviewsInv, NEW w \in Writes, Active(w), NEW x, x = write[w], Effect(x)
  PROVE  /\ review' \in Seq(ReviewType)
         /\ \/ Len(review') = Len(review)
            \/ /\ Len(review') = Len(review) + 1 /\ x.kind = "review"
               /\ Own(x.place, x.who) = {} /\ review'[Len(review')] = NewReview(x)
         /\ \A i \in 1..Len(review) :
              /\ review'[i].place = review[i].place /\ review'[i].at = review[i].at
              /\ review'[i].author = AuthorAfter(x, i) /\ review'[i].named = NamedAfter(x, i)
              /\ review'[i].state = StateAfter(x, i) /\ review'[i].rating = RatingAfter(x, i)
<1>0. /\ review \in Seq(ReviewType) /\ Len(review) \in Nat /\ DOMAIN review = 1..Len(review)
      /\ \A i \in 1..Len(review) : review[i] \in ReviewType
  BY TableFacts
<1>1. /\ x \in Transaction /\ x.kind \in Kinds /\ (LocksPlace(x) => x.place \in Places)
      /\ (LocksUser(x) => x.who \in Authors) /\ (x.kind = "review" => x.rating \in Ratings)
      /\ x.kind = "flip" => x.row \in DOMAIN review /\ x.to \in {"HIDDEN", "ACTIVE"}
  BY ActiveFacts
<1>2. CASE x.kind = "review"
  <2>0. x.place \in Places /\ x.who \in Authors /\ x.rating \in Ratings
    BY <1>1, <1>2 DEF LocksPlace, LocksUser
  <2>1. review' = Upserted(x)
    BY <1>2 DEF Effect
  <2>2. CASE Own(x.place, x.who) = {}
    <3>1. /\ Upserted(x) \in Seq(ReviewType) /\ Len(Upserted(x)) = Len(review) + 1
          /\ \A i \in 1..Len(review) : Upserted(x)[i] = review[i]
          /\ Upserted(x)[Len(review) + 1] = NewReview(x)
      BY <1>1, <1>2, <2>0, <2>2, UpsertedRows
    <3> QED BY <1>2, <2>1, <2>2, <3>1 DEF AuthorAfter, NamedAfter, StateAfter, RatingAfter
  <2>3. CASE Own(x.place, x.who) # {}
    <3>1. /\ Upserted(x) \in Seq(ReviewType) /\ Len(Upserted(x)) = Len(review)
          /\ \A i \in 1..Len(review) : Upserted(x)[i] =
                   IF i \in Own(x.place, x.who) THEN [review[i] EXCEPT !.rating = x.rating]
                   ELSE review[i]
      BY <1>1, <1>2, <2>0, <2>3, UpsertedRows
    <3>2. \A i \in 1..Len(review) : review'[i] =
            IF i \in Own(x.place, x.who) THEN [review[i] EXCEPT !.rating = x.rating] ELSE review[i]
      BY <2>1, <3>1
    <3>3. \A i \in 1..Len(review) :
              /\ review'[i].place = review[i].place /\ review'[i].at = review[i].at
              /\ review'[i].author = review[i].author /\ review'[i].named = review[i].named
              /\ review'[i].state = review[i].state
              /\ review'[i].rating =
                   IF i \in Own(x.place, x.who) THEN x.rating ELSE review[i].rating
      BY <1>0, <3>2 DEF ReviewType
    <3> QED BY <1>2, <2>1, <3>1, <3>3 DEF AuthorAfter, NamedAfter, StateAfter, RatingAfter
  <2> QED BY <2>2, <2>3
<1>3. CASE x.kind = "flip"
  <2>1. review' = Flipped(x)
    BY <1>3 DEF Effect
  <2>2. /\ Flipped(x) \in Seq(ReviewType) /\ Len(Flipped(x)) = Len(review)
        /\ \A i \in 1..Len(review) : Flipped(x)[i] =
              IF i = x.row THEN [review[i] EXCEPT !.state = x.to] ELSE review[i]
    BY <1>1, <1>3, FlippedRows
  <2>3. \A i \in 1..Len(review) :
              /\ review'[i].place = review[i].place /\ review'[i].at = review[i].at
              /\ review'[i].author = review[i].author /\ review'[i].named = review[i].named
              /\ review'[i].rating = review[i].rating
              /\ review'[i].state = IF i = x.row THEN x.to ELSE review[i].state
    BY <1>0, <2>1, <2>2 DEF ReviewType
  <2> QED BY <1>3, <2>1, <2>2, <2>3 DEF AuthorAfter, NamedAfter, StateAfter, RatingAfter
<1>4. CASE x.kind = "consent" /\ x.to # "on"
  <2>1. review' = Unsigned(x)
    BY <1>4 DEF Effect
  <2>2. /\ Unsigned(x) \in Seq(ReviewType) /\ Len(Unsigned(x)) = Len(review)
        /\ \A i \in 1..Len(review) : Unsigned(x)[i] =
              IF review[i].author = x.who THEN [review[i] EXCEPT !.named = FALSE] ELSE review[i]
    BY UnsignedRows
  <2>3. \A i \in 1..Len(review) :
              /\ review'[i].place = review[i].place /\ review'[i].at = review[i].at
              /\ review'[i].author = review[i].author /\ review'[i].rating = review[i].rating
              /\ review'[i].state = review[i].state
              /\ review'[i].named = IF review[i].author = x.who THEN FALSE ELSE review[i].named
    BY <1>0, <2>1, <2>2 DEF ReviewType
  <2> QED BY <1>4, <2>1, <2>2, <2>3 DEF AuthorAfter, NamedAfter, StateAfter, RatingAfter
<1>5. CASE x.kind = "erase"
  <2>1. review' = Anonymized(x)
    BY <1>5 DEF Effect
  <2>2. /\ Anonymized(x) \in Seq(ReviewType) /\ Len(Anonymized(x)) = Len(review)
        /\ \A i \in 1..Len(review) : Anonymized(x)[i] =
              IF review[i].author = x.who THEN [review[i] EXCEPT !.named = FALSE, !.author = Nobody]
              ELSE review[i]
    BY AnonymizedRows
  <2>3. \A i \in 1..Len(review) :
              /\ review'[i].place = review[i].place /\ review'[i].at = review[i].at
              /\ review'[i].rating = review[i].rating /\ review'[i].state = review[i].state
              /\ review'[i].named = IF review[i].author = x.who THEN FALSE ELSE review[i].named
              /\ review'[i].author = IF review[i].author = x.who THEN Nobody ELSE review[i].author
    BY <1>0, <2>1, <2>2 DEF ReviewType
  <2> QED BY <1>5, <2>1, <2>2, <2>3 DEF AuthorAfter, NamedAfter, StateAfter, RatingAfter
<1>6. CASE x.kind \in {"propose", "takedown"} \/ (x.kind = "consent" /\ x.to = "on")
  <2>1. review' = review
    BY <1>6 DEF Effect
  <2> QED BY <1>0, <1>6, <2>1 DEF AuthorAfter, NamedAfter, StateAfter, RatingAfter
<1> QED BY <1>1, <1>2, <1>3, <1>4, <1>5, <1>6 DEF Kinds

\* Which rows there are after a commit.
LEMMA CommitDomain ==
  ASSUME ReviewsInv, NEW w \in Writes, Active(w), NEW x, x = write[w], Effect(x)
  PROVE  /\ \A i \in DOMAIN review : i \in DOMAIN review'
         /\ \A i \in DOMAIN review' : i \notin DOMAIN review =>
              /\ i = Len(review) + 1 /\ Len(review') = Len(review) + 1 /\ x.kind = "review"
              /\ Own(x.place, x.who) = {} /\ review'[i] = NewReview(x)
<1>1. PICK n \in Nat : n = Len(review) /\ DOMAIN review = 1..n
  BY TableFacts
<1>2. review' \in Seq(ReviewType)
  BY CommitRows
<1>3. PICK rs \in Seq(ReviewType) : rs = review'
  BY <1>2
<1>4. PICK m \in Nat : m = Len(rs) /\ DOMAIN rs = 1..m
  BY LenProperties
<1>5. \/ Len(rs) = Len(review)
      \/ /\ Len(rs) = Len(review) + 1 /\ x.kind = "review"
         /\ Own(x.place, x.who) = {} /\ rs[Len(rs)] = NewReview(x)
  BY <1>3, CommitRows
<1>6. m = n \/ (m = n + 1 /\ x.kind = "review" /\ Own(x.place, x.who) = {} /\ rs[m] = NewReview(x))
  BY <1>1, <1>4, <1>5
<1>7. \A i \in 1..n : i \in 1..m
  BY <1>6
<1>8. \A i \in 1..m : i \notin 1..n =>
        /\ i = n + 1 /\ m = n + 1 /\ x.kind = "review" /\ Own(x.place, x.who) = {}
        /\ rs[i] = NewReview(x)
  BY <1>6
<1> QED BY <1>1, <1>3, <1>4, <1>7, <1>8, Zenon

LEMMA CommitRow ==
  ASSUME ReviewsInv, NEW w \in Writes, Active(w), NEW x, x = write[w], Effect(x),
         NEW i \in DOMAIN review
  PROVE  /\ review'[i] \in ReviewType
         /\ review'[i].place = review[i].place /\ review'[i].at = review[i].at
         /\ review'[i].author = AuthorAfter(x, i) /\ review'[i].named = NamedAfter(x, i)
         /\ review'[i].state = StateAfter(x, i) /\ review'[i].rating = RatingAfter(x, i)
<1>1. i \in 1..Len(review)
  BY TableFacts
<1>2. review'[i] \in ReviewType
  <2>1. PICK rs \in Seq(ReviewType) : rs = review'
    BY CommitRows
  <2>2. i \in DOMAIN rs
    BY <2>1, CommitDomain
  <2> QED BY <2>1, <2>2
<1> QED BY <1>1, <1>2, CommitRows, Zenon

\* What a commit does to the accounts, the listings and the revisions.
ErasedAfter(x, a) == account[a].erased \/ (x.kind = "erase" /\ a = x.who)
ConsentAfter(x, a) ==
  IF x.kind = "erase" /\ a = x.who THEN FALSE
  ELSE IF x.kind = "consent" /\ a = x.who THEN x.to = "on" ELSE account[a].consent

LEMMA CommitAccounts ==
  ASSUME ReviewsInv, NEW w \in Writes, Active(w), NEW x, x = write[w], Effect(x)
  PROVE  /\ account' \in [Authors -> [erased : BOOLEAN, consent : BOOLEAN]]
         /\ \A a \in Authors :
              account'[a].erased = ErasedAfter(x, a) /\ account'[a].consent = ConsentAfter(x, a)
<1>1. account \in [Authors -> [erased : BOOLEAN, consent : BOOLEAN]]
  BY DEF ReviewsInv, ReviewsTypeOK
<1>2. x.kind \in Kinds /\ (LocksUser(x) => x.who \in Authors)
  BY ActiveFacts
<1>3. CASE x.kind = "consent"
  <2>1. PICK b : b = (x.to = "on")
    OBVIOUS
  <2>2. b \in BOOLEAN
    BY <2>1
  <2>3. account' = [account EXCEPT ![x.who].consent = b]
    BY <1>3, <2>1 DEF Effect
  <2>4. /\ account' \in [Authors -> [erased : BOOLEAN, consent : BOOLEAN]]
        /\ \A a \in Authors :
             /\ account'[a].erased = account[a].erased
             /\ account'[a].consent = IF a = x.who THEN b ELSE account[a].consent
    BY <1>1, <1>2, <1>3, <2>2, <2>3 DEF LocksUser
  <2> QED BY <1>1, <1>3, <2>1, <2>4 DEF ErasedAfter, ConsentAfter
<1>4. CASE x.kind = "erase"
  <2>1. PICK e : e = [erased |-> TRUE, consent |-> FALSE]
    OBVIOUS
  <2>2. account' = [account EXCEPT ![x.who] = e]
    BY <1>4, <2>1 DEF Effect
  <2>3. e \in [erased : BOOLEAN, consent : BOOLEAN] /\ e.erased = TRUE /\ e.consent = FALSE
    BY <2>1
  <2>4. /\ account' \in [Authors -> [erased : BOOLEAN, consent : BOOLEAN]]
        /\ \A a \in Authors : account'[a] = IF a = x.who THEN e ELSE account[a]
    BY <1>1, <1>2, <1>4, <2>2, <2>3 DEF LocksUser
  <2>5. \A a \in Authors : account[a].erased \in BOOLEAN
    BY <1>1
  <2> QED BY <1>4, <2>3, <2>4, <2>5 DEF ErasedAfter, ConsentAfter
<1>5. CASE x.kind \in {"review", "propose", "flip", "takedown"}
  <2>1. account' = account
    BY <1>5 DEF Effect
  <2>2. \A a \in Authors : account[a].erased \in BOOLEAN
    BY <1>1
  <2> QED BY <1>1, <1>5, <2>1, <2>2 DEF ErasedAfter, ConsentAfter
<1> QED BY <1>2, <1>3, <1>4, <1>5 DEF Kinds

LEMMA CommitPlaces ==
  ASSUME ReviewsInv, NEW w \in Writes, Active(w), NEW x, x = write[w], Effect(x)
  PROVE  /\ place' \in [Places -> [state : {"ACTIVE", "INVALID"}, creator : Authors \cup {Nobody},
                                   avg : Nat, count : Nat]]
         /\ \A p \in Places :
              IF x.kind \in {"review", "flip"} /\ p = x.place
              THEN place'[p].avg = x.rated.avg /\ place'[p].count = x.rated.count
              ELSE place'[p].avg = place[p].avg /\ place'[p].count = place[p].count
<1> DEFINE Row == [state : {"ACTIVE", "INVALID"}, creator : Authors \cup {Nobody},
                   avg : Nat, count : Nat]
<1>1. place \in [Places -> Row]
  <2>1. place \in [Places -> [state : {"ACTIVE", "INVALID"}, creator : Authors \cup {Nobody},
                              avg : 0..500, count : 0..MaxRows]]
    BY DEF ReviewsInv, ReviewsTypeOK
  <2> QED BY <2>1
<1>2. x.kind \in Kinds /\ x \in Transaction /\ (LocksPlace(x) => x.place \in Places)
  BY ActiveFacts
<1>3. CASE x.kind \in {"review", "flip"}
  <2>1. x.rated.avg \in Nat /\ x.rated.count \in Nat
    BY <1>2 DEF Transaction
  <2>2. place' = Rated(x)
    BY <1>3 DEF Effect
  <2>3. PICK e : e = [[place[x.place] EXCEPT !.avg = x.rated.avg] EXCEPT !.count = x.rated.count]
    OBVIOUS
  <2>4. x.place \in Places
    BY <1>2, <1>3 DEF LocksPlace
  <2>5. e \in Row /\ e.avg = x.rated.avg /\ e.count = x.rated.count
    BY <1>1, <2>1, <2>3, <2>4
  <2>6. place' = [place EXCEPT ![x.place] = e]
    BY <1>1, <2>2, <2>3, <2>4 DEF Rated
  <2> HIDE DEF Row
  <2>7. place' \in [Places -> Row] /\ \A p \in Places : place'[p] = IF p = x.place THEN e ELSE place[p]
    BY <1>1, <2>4, <2>5, <2>6
  <2> QED BY <1>3, <2>5, <2>7 DEF Row
<1>4. CASE x.kind = "takedown"
  <2>1. PICK e : e = [place[x.place] EXCEPT !.state = "INVALID"]
    OBVIOUS
  <2>2. x.place \in Places
    BY <1>2, <1>4 DEF LocksPlace
  <2>3. e \in Row /\ e.avg = place[x.place].avg /\ e.count = place[x.place].count
    BY <1>1, <2>1, <2>2
  <2>4. place' = [place EXCEPT ![x.place] = e]
    BY <1>4, <2>1 DEF Effect
  <2> HIDE DEF Row
  <2>5. place' \in [Places -> Row] /\ \A p \in Places : place'[p] = IF p = x.place THEN e ELSE place[p]
    BY <1>1, <2>2, <2>3, <2>4
  <2> QED BY <1>4, <2>3, <2>5 DEF Row
<1>5. CASE x.kind = "erase"
  <2>1. \A p \in Places : /\ [place[p] EXCEPT !.creator = Nobody] \in Row
                          /\ [place[p] EXCEPT !.creator = Nobody].avg = place[p].avg
                          /\ [place[p] EXCEPT !.creator = Nobody].count = place[p].count
    BY <1>1
  <2>2. place' = [p \in Places |-> IF place[p].creator = x.who THEN [place[p] EXCEPT !.creator = Nobody]
                                   ELSE place[p]]
    BY <1>5 DEF Effect
  <2> HIDE DEF Row
  <2>3. /\ place' \in [Places -> Row]
        /\ \A p \in Places : place'[p].avg = place[p].avg /\ place'[p].count = place[p].count
    BY <1>1, <2>1, <2>2
  <2> QED BY <1>5, <2>3 DEF Row
<1>6. CASE x.kind \in {"propose", "consent"}
  <2>1. place' = place
    BY <1>6 DEF Effect
  <2> QED BY <1>1, <1>6, <2>1
<1> QED BY <1>2, <1>3, <1>4, <1>5, <1>6 DEF Kinds

LEMMA CommitVersions ==
  ASSUME ReviewsInv, NEW w \in Writes, Active(w), NEW x, x = write[w], Effect(x)
  PROVE  /\ versions' \in Seq(Seq(Ratings)) /\ Len(versions') = Len(review')
         /\ NewestVersionIsCurrent'
<1>0. /\ review \in Seq(ReviewType) /\ Len(review) \in Nat /\ DOMAIN review = 1..Len(review)
  BY TableFacts
<1>1. /\ review' \in Seq(ReviewType) /\ DOMAIN review' = 1..Len(review')
  BY CommitRows, LenProperties
<1>2. /\ versions \in Seq(Seq(Ratings)) /\ Len(versions) = Len(review)
      /\ versions \in [1..Len(review) -> Seq(Ratings)] /\ DOMAIN versions = 1..Len(review)
  <2>1. versions \in Seq(Seq(Ratings)) /\ Len(versions) = Len(review)
    BY DEF ReviewsInv, ReviewsTypeOK
  <2> QED BY <2>1, LenProperties
<1>3. \A i \in 1..Len(review) : versions[i][Len(versions[i])] = review[i].rating
  BY <1>0 DEF ReviewsInv, NewestVersionIsCurrent, Last
<1>4. x.kind \in Kinds /\ (x.kind = "review" => x.rating \in Ratings)
  BY ActiveFacts
<1>5. CASE x.kind = "review" /\ Own(x.place, x.who) = {}
  <2>1. PICK e : e = <<x.rating>>
    OBVIOUS
  <2>2. e \in Seq(Ratings) /\ e[Len(e)] = x.rating
    BY <1>4, <1>5, <2>1
  <2>3. versions' = Append(versions, e)
    BY <1>5, <2>1 DEF Effect, Recorded
  <2>4. /\ versions' \in Seq(Seq(Ratings)) /\ Len(versions') = Len(review) + 1
        /\ \A i \in 1..Len(review) : versions'[i] = versions[i]
        /\ versions'[Len(review) + 1] = e
    BY <1>2, <2>2, <2>3, Appended
  <2>5. review' = Append(review, NewReview(x))
    BY <1>5 DEF Effect, Upserted
  <2>6. NewReview(x) \in ReviewType /\ NewReview(x).rating = x.rating
    <3>1. /\ x \in Transaction /\ x.place \in Places /\ x.who \in Authors /\ x.rating \in Ratings
      BY <1>5, ActiveFacts DEF LocksPlace, LocksUser
    <3>2. NewReview(x) \in ReviewType
      BY <1>5, <3>1, UpsertedRows
    <3> QED BY <3>2 DEF NewReview
  <2>7. /\ Len(review') = Len(review) + 1
        /\ \A i \in 1..Len(review) : review'[i] = review[i]
        /\ review'[Len(review) + 1].rating = x.rating
    BY <1>0, <2>5, <2>6, Appended
  <2>8. ASSUME NEW i \in 1..(Len(review) + 1)
        PROVE  versions'[i][Len(versions'[i])] = review'[i].rating
    <3>1. i \in 1..Len(review) \/ i = Len(review) + 1
      BY <1>0
    <3>2. CASE i \in 1..Len(review)
      BY <1>3, <2>4, <2>7, <3>2
    <3>3. CASE i = Len(review) + 1
      BY <2>2, <2>4, <2>7, <3>3
    <3> QED BY <3>1, <3>2, <3>3
  <2> QED BY <1>1, <2>4, <2>7, <2>8 DEF NewestVersionIsCurrent, Last
<1>6. CASE x.kind = "review" /\ Own(x.place, x.who) # {}
  <2> DEFINE O == Own(x.place, x.who)
  <2>1. versions' = [i \in DOMAIN versions |-> IF i \in O THEN Append(versions[i], x.rating) ELSE versions[i]]
    BY <1>6 DEF Effect, Recorded, Published
  <2>2. /\ Len(review') = Len(review)
        /\ \A i \in 1..Len(review) : review'[i].rating = IF i \in O THEN x.rating ELSE review[i].rating
    <3>1. Len(review') = Len(review)
      BY <1>6, CommitRows
    <3>2. \A i \in 1..Len(review) : review'[i].rating = RatingAfter(x, i)
      BY CommitRows, Zenon
    <3> QED BY <1>6, <3>1, <3>2 DEF RatingAfter
  <2> HIDE DEF O
  <2>3. \A i \in 1..Len(review) : versions[i] \in Seq(Ratings)
    BY <1>2
  <2>4. \A i \in 1..Len(review) :
          LET s == Append(versions[i], x.rating) IN s \in Seq(Ratings) /\ s[Len(s)] = x.rating
    BY <1>4, <1>6, <2>3, Appended
  <2>5. \A i \in 1..Len(review) :
          versions'[i] = IF i \in O THEN Append(versions[i], x.rating) ELSE versions[i]
    BY <1>2, <2>1
  <2>6. versions' \in [1..Len(review) -> Seq(Ratings)]
    BY <1>2, <2>1, <2>3, <2>4
  <2>7. versions' \in Seq(Seq(Ratings)) /\ Len(versions') = Len(review)
    BY <1>0, <2>6, SeqIsFunction
  <2>8. \A i \in 1..Len(review) : versions'[i][Len(versions'[i])] = review'[i].rating
    BY <1>3, <2>2, <2>4, <2>5
  <2> QED BY <1>1, <2>2, <2>7, <2>8 DEF NewestVersionIsCurrent, Last
<1>7. CASE x.kind # "review"
  <2>1. versions' = versions
    BY <1>4, <1>7 DEF Effect, Kinds
  <2>2. Len(review') = Len(review)
    BY <1>0, <1>7, CommitRows
  <2>3. \A i \in DOMAIN review : review'[i].rating = review[i].rating
    <3>1. \A i \in DOMAIN review : review'[i].rating = RatingAfter(x, i)
      BY CommitRow, Zenon
    <3> QED BY <1>7, <3>1 DEF RatingAfter
  <2> QED BY <1>0, <1>1, <1>2, <1>3, <2>1, <2>2, <2>3 DEF NewestVersionIsCurrent, Last
<1> QED BY <1>5, <1>6, <1>7

\* The reviews of the transactions that the commit leaves under way are the
\* same ones after it.
LEMMA OthersRows ==
  ASSUME ReviewsInv, NEW w \in Writes, Active(w), NEW x, x = write[w], x.stage = "commit", Effect(x),
         NEW v \in Writes, v # w, Active(v), NEW y, y = write[v]
  PROVE  /\ y.kind = "review" /\ y.stage \in {"own", "commit"} =>
              Own(y.place, y.who)' = Own(y.place, y.who)
         /\ y.kind \in {"consent", "erase"} /\ y.stage \in {"rows", "places", "commit"} =>
              ByAuthor(y.who)' = ByAuthor(y.who)
         /\ y.kind \in {"review", "consent", "erase"} /\ y.stage \notin {"place", "user"} =>
              account'[y.who] = account[y.who]
<1>1. /\ LocksPlace(x) /\ LocksPlace(y) /\ y.place = x.place => y.stage = "place"
      /\ LocksUser(x) /\ LocksUser(y) /\ y.who = x.who => y.stage \in {"place", "user"}
  BY Excluded
<1>2. /\ Nobody \notin Authors /\ (LocksUser(y) => y.who \in Authors)
  BY ActiveFacts, ReviewConstantsOK
<1>3. \A i \in DOMAIN review :
        /\ i \in DOMAIN review' /\ review'[i].place = review[i].place
        /\ review'[i].author = AuthorAfter(x, i)
  BY CommitDomain, CommitRow, Zenon
<1>4. \A i \in DOMAIN review' : i \notin DOMAIN review =>
        x.kind = "review" /\ review'[i].place = x.place /\ review'[i].author = x.who
  <2>1. NewReview(x).place = x.place /\ NewReview(x).author = x.who
    BY DEF NewReview
  <2> QED BY <2>1, CommitDomain, Zenon
<1>5. ASSUME y.kind = "review", y.stage \in {"own", "commit"}
      PROVE  Own(y.place, y.who)' = Own(y.place, y.who)
  <2>1. /\ x.kind = "erase" => y.who # x.who
        /\ x.kind = "review" => y.who # x.who
        /\ y.who \in Authors /\ y.who # Nobody
    BY <1>1, <1>2, <1>5 DEF LocksUser
  <2> QED BY <1>3, <1>4, <2>1 DEF Own, AuthorAfter
<1>6. ASSUME y.kind \in {"consent", "erase"}, y.stage \in {"rows", "places", "commit"}
      PROVE  ByAuthor(y.who)' = ByAuthor(y.who)
  <2>1. /\ x.kind = "erase" => y.who # x.who
        /\ x.kind = "review" => y.who # x.who
        /\ y.who \in Authors /\ y.who # Nobody
    BY <1>1, <1>2, <1>6 DEF LocksUser
  <2> QED BY <1>3, <1>4, <2>1 DEF ByAuthor, AuthorAfter
<1>7. ASSUME y.kind \in {"review", "consent", "erase"}, y.stage \notin {"place", "user"}
      PROVE  account'[y.who] = account[y.who]
  <2>1. /\ x.kind \in {"erase", "consent"} => y.who # x.who
        /\ y.who \in Authors
    BY <1>1, <1>2, <1>7 DEF LocksUser
  <2>2. account \in [Authors -> [erased : BOOLEAN, consent : BOOLEAN]]
    BY DEF ReviewsInv, ReviewsTypeOK
  <2>3. /\ account' \in [Authors -> [erased : BOOLEAN, consent : BOOLEAN]]
        /\ account'[y.who].erased = account[y.who].erased
        /\ account'[y.who].consent = account[y.who].consent
    <3>1. PICK a \in Authors : a = y.who
      BY <2>1
    <3>2. account[a].erased \in BOOLEAN /\ account' \in [Authors -> [erased : BOOLEAN, consent : BOOLEAN]]
      BY <2>2, CommitAccounts
    <3>3. account'[a].erased = ErasedAfter(x, a) /\ account'[a].consent = ConsentAfter(x, a)
      BY CommitAccounts, Zenon
    <3>4. ~(x.kind = "erase" /\ a = x.who) /\ ~(x.kind = "consent" /\ a = x.who)
      BY <2>1, <3>1
    <3> QED BY <3>1, <3>2, <3>3, <3>4 DEF ErasedAfter, ConsentAfter
  <2> QED BY <2>1, <2>2, <2>3
<1> QED BY <1>5, <1>6, <1>7

\* Where the commit changes no rating, the listing shows what it did.
LEMMA OthersAlike ==
  ASSUME ReviewsInv, NEW w \in Writes, Active(w), NEW x, x = write[w], Effect(x),
         NEW p, x.kind \in {"review", "flip"} => p # x.place
  PROVE  Alike(review, review', p)
<1>1. x.kind = "flip" => review[x.row].place = x.place /\ x.row \in DOMAIN review
  BY ActiveFacts
<1>2. \A i \in DOMAIN review :
        /\ i \in DOMAIN review' /\ review'[i].place = review[i].place
        /\ review'[i].state = StateAfter(x, i) /\ review'[i].rating = RatingAfter(x, i)
  BY CommitDomain, CommitRow, Zenon
<1>3. \A i \in DOMAIN review :
        /\ i \in DOMAIN review' /\ review'[i].place = review[i].place
        /\ (review[i].place = p => review'[i].state = review[i].state /\ review'[i].rating = review[i].rating)
  BY <1>1, <1>2 DEF Own, StateAfter, RatingAfter
<1>4. \A i \in DOMAIN review' : i \notin DOMAIN review => review'[i].place # p
  <2>1. NewReview(x).place = x.place
    BY DEF NewReview
  <2>2. \A i \in DOMAIN review' : i \notin DOMAIN review => x.kind = "review" /\ review'[i] = NewReview(x)
    BY CommitDomain, Zenon
  <2> QED BY <2>1, <2>2
<1> QED BY <1>3, <1>4 DEF Alike, Seen

\* What another transaction has read stands.
LEMMA OthersReads ==
  ASSUME ReviewsInv, NEW w \in Writes, Active(w), NEW x, x = write[w], x.stage = "commit", Effect(x),
         NEW v \in Writes, v # w, Active(v), NEW y, y = write[v]
  PROVE  ReadStands(y)'
<1>0. /\ review \in Seq(ReviewType) /\ review' \in Seq(ReviewType)
  BY TableFacts, CommitRows
<1>1. /\ y \in Transaction /\ y.kind \in Kinds /\ (LocksPlace(y) => y.place \in Places)
      /\ (LocksUser(y) => y.who \in Authors) /\ (y.kind = "review" => y.rating \in Ratings)
      /\ y.kind = "flip" => /\ y.row \in DOMAIN review /\ review[y.row].place = y.place
                            /\ y.to \in {"HIDDEN", "ACTIVE"}
  BY ActiveFacts
<1>2. ReadStands(y)
  BY DEF ReviewsInv, ReadsStand
<1>3. y.kind = "review" /\ y.stage \in {"own", "commit"} => y.named = account'[y.who].consent
  <2> SUFFICES ASSUME y.kind = "review", y.stage \in {"own", "commit"}
               PROVE  y.named = account'[y.who].consent
    OBVIOUS
  <2>1. y.named = account[y.who].consent
    BY <1>2 DEF ReadStands
  <2>2. account'[y.who] = account[y.who]
    BY OthersRows
  <2> QED BY <2>1, <2>2
<1>4. y.kind = "consent" /\ y.stage \in {"rows", "commit"} => ~account'[y.who].erased
  <2> SUFFICES ASSUME y.kind = "consent", y.stage \in {"rows", "commit"}
               PROVE  ~account'[y.who].erased
    OBVIOUS
  <2>1. ~account[y.who].erased
    BY <1>2 DEF ReadStands
  <2>2. account'[y.who] = account[y.who]
    BY OthersRows
  <2> QED BY <2>1, <2>2
<1>5. y.stage = "commit" /\ y.kind \in {"review", "flip"} => Alike(review, review', y.place)
  <2> SUFFICES ASSUME y.stage = "commit", y.kind \in {"review", "flip"}
               PROVE  Alike(review, review', y.place)
    OBVIOUS
  <2>1. x.kind \in {"review", "flip"} => y.place # x.place
    BY Excluded DEF LocksPlace
  <2> QED BY <2>1, OthersAlike
<1>6. ASSUME y.kind = "review", y.stage = "commit"
      PROVE  Aggregate(Upserted(y), y.place) = Aggregate(Upserted(y)', y.place)
  <2>1. PICK O : O = Own(y.place, y.who)
    OBVIOUS
  <2>2. Own(y.place, y.who)' = O
    BY <1>6, <2>1, OthersRows
  <2>3. NewReview(y)' = NewReview(y)
    BY DEF NewReview
  <2>4. CASE O = {}
    <3>1. Upserted(y) = Append(review, NewReview(y)) /\ Upserted(y)' = Append(review', NewReview(y))
      BY <2>1, <2>2, <2>3, <2>4 DEF Upserted
    <3>2. NewReview(y) \in ReviewType
      BY <1>1, <1>6, UpsertedRows DEF LocksPlace, LocksUser
    <3>3. PICK rs \in Seq(ReviewType) : rs = review'
      BY <1>0
    <3>4. Alike(review, rs, y.place)
      BY <1>5, <1>6, <3>3
    <3>5. Aggregate(Append(review, NewReview(y)), y.place) = Aggregate(Append(rs, NewReview(y)), y.place)
      BY <1>0, <3>2, <3>4, AggregateAppended
    <3> QED BY <3>1, <3>3, <3>5
  <2>5. CASE O # {}
    <3>1. PICK us : us = [i \in DOMAIN review |-> IF i \in O THEN Edited(review[i], y) ELSE review[i]]
      OBVIOUS
    <3>2. PICK rs : rs = review'
      OBVIOUS
    <3>3. PICK ts : ts = [i \in DOMAIN rs |-> IF i \in O THEN Edited(rs[i], y) ELSE rs[i]]
      OBVIOUS
    <3>4. Upserted(y) = us
      BY <2>1, <2>5, <3>1 DEF Upserted
    <3>5. Upserted(y)' = ts
      BY <2>2, <2>5, <3>2, <3>3 DEF Upserted, Edited
    <3>6. Alike(review, rs, y.place)
      BY <1>5, <1>6, <3>2
    <3>7. /\ \A i \in DOMAIN review : /\ review[i] \in ReviewType /\ review[i].place = rs[i].place
                                      /\ i \in DOMAIN rs
          /\ \A i \in DOMAIN rs : rs[i] \in ReviewType
      BY <1>0, <3>2, CommitDomain, CommitRow, TableFacts
    <3>8. O \subseteq DOMAIN review
      BY <2>1 DEF Own
    <3>9. /\ DOMAIN us = DOMAIN review
          /\ \A i \in DOMAIN review :
               /\ us[i].place = review[i].place /\ us[i].state = review[i].state
               /\ us[i].rating = IF i \in O THEN y.rating ELSE review[i].rating
      BY <3>1, <3>7 DEF Edited, ReviewType
    <3>10. /\ DOMAIN ts = DOMAIN rs
           /\ \A i \in DOMAIN rs :
               /\ ts[i].place = rs[i].place /\ ts[i].state = rs[i].state
               /\ ts[i].rating = IF i \in O THEN y.rating ELSE rs[i].rating
      BY <3>3, <3>7 DEF Edited, ReviewType
    <3>11. Alike(us, ts, y.place)
      BY <3>6, <3>9, <3>10 DEF Alike, Seen
    <3> QED BY <3>4, <3>5, <3>11, AggregateAlike
  <2> QED BY <2>4, <2>5
<1>7. ASSUME y.kind = "flip", y.stage = "commit"
      PROVE  Aggregate(Flipped(y), y.place) = Aggregate(Flipped(y)', y.place)
  <2>1. PICK rs : rs = review'
    OBVIOUS
  <2>2. PICK us : us = [review EXCEPT ![y.row] = [review[y.row] EXCEPT !.state = y.to]]
    OBVIOUS
  <2>3. PICK ts : ts = [rs EXCEPT ![y.row] = [rs[y.row] EXCEPT !.state = y.to]]
    OBVIOUS
  <2>4. Flipped(y) = us
    BY <2>2 DEF Flipped
  <2>5. Flipped(y)' = ts
    BY <2>1, <2>3 DEF Flipped
  <2>6. Alike(review, rs, y.place)
    BY <1>5, <1>7, <2>1
  <2>7. /\ \A i \in DOMAIN review : /\ review[i] \in ReviewType /\ review[i].place = rs[i].place
                                    /\ review[i].rating = rs[i].rating \/ i # y.row
                                    /\ i \in DOMAIN rs
        /\ \A i \in DOMAIN rs : rs[i] \in ReviewType
        /\ y.row \in DOMAIN review /\ review[y.row].place = y.place
    <3>1. \A i \in DOMAIN review : review[i] \in ReviewType /\ review[i].place = rs[i].place /\ i \in DOMAIN rs
      BY <2>1, CommitDomain, CommitRow, TableFacts
    <3>2. \A i \in DOMAIN rs : rs[i] \in ReviewType
      BY <1>0, <2>1
    <3>3. y.row \in DOMAIN review /\ review[y.row].place = y.place
      BY <1>1, <1>7
    <3>4. review[y.row].rating = rs[y.row].rating
      <4>1. x.kind = "review" => x.place # y.place
        BY <1>7, Excluded DEF LocksPlace
      <4>2. rs[y.row].rating = RatingAfter(x, y.row)
        BY <2>1, <3>3, CommitRow
      <4> QED BY <3>3, <4>1, <4>2 DEF RatingAfter, Own
    <3> QED BY <3>1, <3>2, <3>3, <3>4
  <2>8. /\ DOMAIN us = DOMAIN review
        /\ \A i \in DOMAIN review :
             /\ us[i].place = review[i].place /\ us[i].rating = review[i].rating
             /\ us[i].state = IF i = y.row THEN y.to ELSE review[i].state
    BY <2>2, <2>7 DEF ReviewType
  <2>9. /\ DOMAIN ts = DOMAIN rs
        /\ \A i \in DOMAIN rs :
             /\ ts[i].place = rs[i].place /\ ts[i].rating = rs[i].rating
             /\ ts[i].state = IF i = y.row THEN y.to ELSE rs[i].state
    BY <2>3, <2>7 DEF ReviewType
  <2>10. Alike(us, ts, y.place)
    BY <2>6, <2>7, <2>8, <2>9 DEF Alike, Seen
  <2> QED BY <2>4, <2>5, <2>10, AggregateAlike
<1>8. /\ y.kind = "review" /\ y.stage = "commit" => y.rated = Aggregate(Upserted(y)', y.place)
      /\ y.kind = "flip" /\ y.stage = "commit" => y.rated = Aggregate(Flipped(y)', y.place)
  BY <1>2, <1>6, <1>7 DEF ReadStands
<1> QED BY <1>3, <1>4, <1>8 DEF ReadStands

\* Only the reviews of two accounts, or of two listings, are new to each other.
LEMMA CommitUnique ==
  ASSUME ReviewsInv, NEW w \in Writes, Active(w), NEW x, x = write[w], Effect(x)
  PROVE  /\ \A i, j \in DOMAIN review' :
              review'[i].place = review'[j].place /\ review'[i].author = review'[j].author
                /\ review'[i].author # Nobody => i = j
         /\ \A i \in DOMAIN review' : review'[i].at = w \/ write[review'[i].at] = Ended
         /\ \A i, j \in DOMAIN review' : review'[i].at = review'[j].at => i = j
<1>1. \A i \in DOMAIN review :
        /\ review'[i].place = review[i].place /\ review'[i].at = review[i].at
        /\ review'[i].author = AuthorAfter(x, i)
  BY CommitRow, Zenon
<1>2. \A i \in DOMAIN review' : i \notin DOMAIN review =>
        /\ i = Len(review) + 1 /\ Own(x.place, x.who) = {} /\ x.kind = "review"
        /\ review'[i].place = x.place /\ review'[i].author = x.who /\ review'[i].at = w
  <2>1. x.at = w
    BY ActiveFacts
  <2>2. NewReview(x).place = x.place /\ NewReview(x).author = x.who /\ NewReview(x).at = w
    BY <2>1 DEF NewReview
  <2>3. \A i \in DOMAIN review' : i \notin DOMAIN review =>
          /\ i = Len(review) + 1 /\ Own(x.place, x.who) = {} /\ x.kind = "review"
          /\ review'[i] = NewReview(x)
    BY CommitDomain, Zenon
  <2> QED BY <2>2, <2>3
<1>3. /\ \A i, j \in DOMAIN review :
           review[i].place = review[j].place /\ review[i].author = review[j].author
             /\ review[i].author # Nobody => i = j
      /\ \A i \in DOMAIN review : write[review[i].at] = Ended
      /\ \A i, j \in DOMAIN review : review[i].at = review[j].at => i = j
  BY DEF ReviewsInv, OneReviewEach, WritesInOrder
<1>4. write[w] # Ended
  BY DEF Active
<1>5. ASSUME NEW i \in DOMAIN review', NEW j \in DOMAIN review',
             review'[i].place = review'[j].place, review'[i].author = review'[j].author,
             review'[i].author # Nobody
      PROVE  i = j
  <2>1. CASE i \in DOMAIN review /\ j \in DOMAIN review
    BY <1>1, <1>3, <1>5, <2>1 DEF AuthorAfter
  <2>2. CASE i \notin DOMAIN review /\ j \notin DOMAIN review
    BY <1>2, <2>2
  <2>3. CASE i \notin DOMAIN review /\ j \in DOMAIN review
    BY <1>1, <1>2, <1>5, <2>3 DEF AuthorAfter, Own
  <2>4. CASE i \in DOMAIN review /\ j \notin DOMAIN review
    BY <1>1, <1>2, <1>5, <2>4 DEF AuthorAfter, Own
  <2> QED BY <2>1, <2>2, <2>3, <2>4
<1>6. \A i \in DOMAIN review' : review'[i].at = w \/ write[review'[i].at] = Ended
  BY <1>1, <1>2, <1>3
<1>7. ASSUME NEW i \in DOMAIN review', NEW j \in DOMAIN review', review'[i].at = review'[j].at
      PROVE  i = j
  BY <1>1, <1>2, <1>3, <1>4, <1>7
<1> QED BY <1>5, <1>6, <1>7

\* The rating that the transaction computed is the one of the rows it leaves.
LEMMA CommitRating ==
  ASSUME ReviewsInv, NEW w \in Writes, Active(w), NEW x, x = write[w], x.stage = "commit", Effect(x),
         NEW p \in Places
  PROVE  /\ [avg |-> place'[p].avg, count |-> place'[p].count] = Aggregate(review', p)
         /\ place'[p].avg \in 0..500 /\ place'[p].count \in 0..MaxRows
<1>1. IF x.kind \in {"review", "flip"} /\ p = x.place
      THEN place'[p].avg = x.rated.avg /\ place'[p].count = x.rated.count
      ELSE place'[p].avg = place[p].avg /\ place'[p].count = place[p].count
  BY CommitPlaces
<1>2. [avg |-> place'[p].avg, count |-> place'[p].count] = Aggregate(review', p)
  <2>1. CASE x.kind \in {"review", "flip"} /\ p = x.place
    <3>1. x.kind = "review" => review' = Upserted(x)
      BY DEF Effect
    <3>2. x.kind = "flip" => review' = Flipped(x)
      BY DEF Effect
    <3>3. ReadStands(x)
      BY DEF ReviewsInv, ReadsStand
    <3>4. x.rated = Aggregate(review', p)
      BY <2>1, <3>1, <3>2, <3>3 DEF ReadStands
    <3>5. x.rated \in [avg : Nat, count : Nat]
      BY ActiveFacts DEF Transaction
    <3> QED BY <1>1, <2>1, <3>4, <3>5
  <2>2. CASE ~(x.kind \in {"review", "flip"} /\ p = x.place)
    <3>1. Alike(review, review', p)
      BY <2>2, OthersAlike
    <3>2. Aggregate(review, p) = Aggregate(review', p)
      BY <3>1, AggregateAlike
    <3>3. [avg |-> place[p].avg, count |-> place[p].count] = Aggregate(review, p)
      BY DEF ReviewsInv, RatingIsExact
    <3> QED BY <1>1, <2>2, <3>2, <3>3
  <2> QED BY <2>1, <2>2
<1>3. PICK rs \in Seq(ReviewType) : rs = review'
  BY CommitRows
<1>4. Aggregate(rs, p) \in [avg : 0..500, count : 0..Len(rs)]
  BY AggregateType
<1>5. Len(rs) \in Nat /\ Len(rs) <= MaxRows /\ MaxRows \in Nat
  <2>1. Len(rs) = Len(review) \/ Len(rs) = Len(review) + 1
    BY <1>3, CommitRows
  <2> QED BY <2>1, Room, TableFacts
<1>6. place'[p].avg \in 0..500 /\ place'[p].count \in 0..Len(rs)
  <2>1. PICK a, c : a = place'[p].avg /\ c = place'[p].count
    OBVIOUS
  <2>2. [avg |-> a, count |-> c] = Aggregate(rs, p)
    BY <1>2, <1>3, <2>1
  <2>3. [avg |-> a, count |-> c] \in [avg : 0..500, count : 0..Len(rs)]
    BY <1>4, <2>2
  <2>4. a \in 0..500 /\ c \in 0..Len(rs)
    BY <2>3
  <2> QED BY <2>1, <2>4
<1> QED BY <1>2, <1>5, <1>6

\* A name is on view only with the consent that stands after the commit.
LEMMA CommitNames ==
  ASSUME ReviewsInv, NEW w \in Writes, Active(w), NEW x, x = write[w], x.stage = "commit", Effect(x)
  PROVE  NamedNeedsConsent'
<1>0. \A a \in Authors : account'[a].erased = ErasedAfter(x, a) /\ account'[a].consent = ConsentAfter(x, a)
  BY CommitAccounts
<1>1. /\ account \in [Authors -> [erased : BOOLEAN, consent : BOOLEAN]] /\ Nobody \notin Authors
      /\ \A a \in Authors : account[a].erased => ~account[a].consent
  BY ReviewConstantsOK DEF ReviewsInv, ReviewsTypeOK, OneReviewEach
<1>2. ASSUME NEW i \in DOMAIN review, review'[i].named
      PROVE  ShowsName(i)'
  <2>1. review'[i].named = NamedAfter(x, i) /\ review'[i].author = AuthorAfter(x, i)
    BY CommitRow, Zenon
  <2>2. /\ review[i].named /\ ~(x.kind = "erase" /\ review[i].author = x.who)
        /\ ~(x.kind = "consent" /\ x.to # "on" /\ review[i].author = x.who)
    BY <1>2, <2>1 DEF NamedAfter
  <2>3. review'[i].author = review[i].author
    BY <2>1, <2>2 DEF AuthorAfter
  <2>4. /\ review[i].author # Nobody
        /\ account[review[i].author].consent /\ ~account[review[i].author].erased
    BY <2>2 DEF ReviewsInv, NamedNeedsConsent, ShowsName
  <2>5. PICK a \in Authors : a = review[i].author
    BY <2>4, TableFacts DEF ReviewType
  <2>6. ~ErasedAfter(x, a)
    BY <2>2, <2>4, <2>5 DEF ErasedAfter
  <2>7. ConsentAfter(x, a)
    BY <2>2, <2>4, <2>5 DEF ConsentAfter
  <2> QED BY <1>0, <1>2, <2>3, <2>4, <2>5, <2>6, <2>7 DEF ShowsName
<1>3. ASSUME NEW i \in DOMAIN review', i \notin DOMAIN review, review'[i].named
      PROVE  ShowsName(i)'
  <2>1. x.kind = "review" /\ review'[i] = NewReview(x)
    BY <1>3, CommitDomain
  <2>2. x.named /\ review'[i].author = x.who
    BY <1>3, <2>1 DEF NewReview
  <2>3. x.who \in Authors /\ ReadStands(x)
    BY <2>1, ActiveFacts DEF LocksUser, ReviewsInv, ReadsStand
  <2>4. account[x.who].consent
    BY <2>1, <2>2, <2>3 DEF ReadStands
  <2>5. ~account[x.who].erased /\ x.who # Nobody
    BY <1>1, <2>3, <2>4
  <2>6. account' = account
    BY <2>1 DEF Effect
  <2> QED BY <1>3, <2>2, <2>4, <2>5, <2>6 DEF ShowsName
<1> QED BY <1>2, <1>3 DEF NamedNeedsConsent

LEMMA CommitKeeps ==
  ASSUME ReviewsInv, NEW w \in Writes, Commit(w)
  PROVE  ReviewsInv'
<1> DEFINE x == write[w]
<1>0. /\ Active(w) /\ x.stage = "commit" /\ Effect(x) /\ started' = started
      /\ write' = [write EXCEPT ![w] = Ended] /\ rowlock' = Release(w)
  BY DEF Commit
<1>1. /\ MaxWrites \in Nat /\ Writes = 1..MaxWrites /\ MaxRows = MaxWrites
      /\ write \in [Writes -> Transaction \cup {Unused, Ended}] /\ started \in 0..MaxRows
      /\ Len(review) \in Nat
  BY TableFacts
<1>2. /\ write'[w] = Ended /\ \A v \in Writes \ {w} : write'[v] = write[v]
      /\ ~Active(w)' /\ \A v \in Writes \ {w} : Active(v)' <=> Active(v)
  BY <1>0, <1>1 DEF Active
<1>3. /\ rowlock' \in [Rows -> Writes \cup {Nobody}]
      /\ \A k \in Rows, v \in Writes \ {w} : rowlock'[k] = v <=> rowlock[k] = v
      /\ \A k \in Rows : rowlock'[k] # w
  BY <1>0, Released
<1>4. /\ review' \in Seq(ReviewType) /\ Len(review') <= MaxRows
  <2>1. Len(review') = Len(review) \/ Len(review') = Len(review) + 1
    BY <1>0, CommitRows
  <2> QED BY <1>0, <1>1, <2>1, Room, CommitRows
<1>5. ReviewsTypeOK'
  <2>1. /\ versions' \in Seq(Seq(Ratings)) /\ Len(versions') = Len(review')
        /\ account' \in [Authors -> [erased : BOOLEAN, consent : BOOLEAN]]
    BY <1>0, CommitVersions, CommitAccounts
  <2>2. place' \in [Places -> [state : {"ACTIVE", "INVALID"}, creator : Authors \cup {Nobody},
                               avg : 0..500, count : 0..MaxRows]]
    <3>1. place' \in [Places -> [state : {"ACTIVE", "INVALID"}, creator : Authors \cup {Nobody},
                                 avg : Nat, count : Nat]]
      BY <1>0, CommitPlaces
    <3>2. \A p \in Places : place'[p].avg \in 0..500 /\ place'[p].count \in 0..MaxRows
      BY <1>0, CommitRating
    <3> QED BY <3>1, <3>2
  <2>3. write' \in [Writes -> Transaction \cup {Unused, Ended}] /\ started' \in 0..MaxRows
    BY <1>0, <1>1
  <2> QED BY <1>3, <1>4, <2>1, <2>2, <2>3 DEF ReviewsTypeOK
<1>6. WritesInOrder'
  <2>1. \A v \in Writes : v > started' => write'[v] = Unused
    <3>1. write[w] # Unused
      BY <1>0 DEF Active
    <3> QED BY <1>0, <1>2, <3>1 DEF ReviewsInv, WritesInOrder
  <2>2. ASSUME NEW v \in Writes, Active(v)' PROVE TransactionWhole(write[v], v)'
    <3>1. PICK y : y = write[v]
      OBVIOUS
    <3>2. y = write'[v] /\ TransactionWhole(y, v)
      BY <1>2, <2>2, <3>1 DEF ReviewsInv, WritesInOrder
    <3>3. y.kind = "flip" => y.row \in DOMAIN review' /\ review'[y.row].place = y.place
      <4> SUFFICES ASSUME y.kind = "flip" PROVE y.row \in DOMAIN review' /\ review'[y.row].place = y.place
        OBVIOUS
      <4>1. y.row \in DOMAIN review /\ review[y.row].place = y.place
        BY <3>2 DEF TransactionWhole
      <4> QED BY <1>0, <4>1, CommitDomain, CommitRow
    <3> QED BY <3>2, <3>3 DEF TransactionWhole
  <2>3. /\ \A i \in DOMAIN review' : review'[i].at = w \/ write[review'[i].at] = Ended
        /\ \A i, j \in DOMAIN review' : review'[i].at = review'[j].at => i = j
    BY <1>0, CommitUnique
  <2>4. \A i \in DOMAIN review' : review'[i].at \in Writes
    <3>1. PICK rs \in Seq(ReviewType) : rs = review'
      BY <1>4
    <3>2. \A i \in DOMAIN rs : rs[i] \in ReviewType
      OBVIOUS
    <3> QED BY <1>1, <3>1, <3>2 DEF ReviewType
  <2>5. \A i \in DOMAIN review' : write'[review'[i].at] = Ended
    BY <1>2, <2>3, <2>4
  <2> QED BY <2>1, <2>2, <2>3, <2>5 DEF WritesInOrder
<1>7. LocksAreHeld'
  <2>0. ASSUME NEW v \in Writes, v # w, Active(v), NEW y, y = write[v]
        PROVE  Reached(y)' = Reached(y) /\ Current(y)' = Current(y)
    <3>1. /\ y.kind = "review" /\ y.stage \in {"own", "commit"} =>
                Own(y.place, y.who)' = Own(y.place, y.who)
          /\ y.kind \in {"consent", "erase"} /\ y.stage \in {"rows", "places", "commit"} =>
                ByAuthor(y.who)' = ByAuthor(y.who)
      BY <1>0, <2>0, OthersRows
    <3>2. y.kind \in Kinds /\ y.stage \in StageOf(y.kind)
      BY <2>0, ActiveFacts
    <3>3. Reached(y)' = Reached(y)
      BY <3>1 DEF Reached
    <3>4. Current(y)' = Current(y)
      BY <3>1, <3>2 DEF Current, StageOf, Kinds
    <3> QED BY <3>3, <3>4
  <2>1. ASSUME NEW v \in Writes, NEW k \in Rows, rowlock'[k] = v
        PROVE  Active(v)' /\ k \in Reached(write[v])' /\ k \notin write'[v].todo
    <3>1. v # w /\ rowlock[k] = v
      BY <1>3, <2>1
    <3>2. PICK y : y = write[v]
      OBVIOUS
    <3>3. Active(v) /\ k \in Reached(y) /\ k \notin y.todo
      BY <3>1, <3>2, LockFacts
    <3>4. k \in Reached(y)' /\ y = write'[v] /\ Active(v)'
      BY <1>2, <2>0, <3>1, <3>2, <3>3
    <3> QED BY <3>3, <3>4 DEF Reached, Own, ByAuthor
  <2>2. ASSUME NEW v \in Writes, Active(v)'
        PROVE  StatementsHold(write[v], v)'
    <3>1. v # w /\ Active(v)
      BY <1>2, <2>2
    <3>2. PICK y : y = write[v]
      OBVIOUS
    <3>3. y = write'[v] /\ StatementsHold(y, v)
      BY <1>2, <3>1, <3>2 DEF ReviewsInv, LocksAreHeld
    <3>4. /\ LocksPlace(y) => PlaceRow(y.place) \in Rows
          /\ LocksUser(y) => UserRow(y.who) \in Rows
      BY <3>1, <3>2, ActiveFacts, RowsAre
    <3>5. y.todo \subseteq Current(y)'
      BY <2>0, <3>1, <3>2, <3>3 DEF StatementsHold
    <3>6. (write[v].todo \subseteq Current(write[v]))'
      BY <3>3, <3>5 DEF Current, Own, ByAuthor
    <3> QED BY <1>3, <3>1, <3>3, <3>4, <3>6 DEF StatementsHold, LocksPlace, LocksUser
  <2> QED BY <2>1, <2>2 DEF LocksAreHeld
<1>8. ReadsStand'
  <2>1. ASSUME NEW v \in Writes, Active(v)' PROVE ReadStands(write[v])'
    <3>1. v # w /\ Active(v)
      BY <1>2, <2>1
    <3>2. PICK y : y = write[v]
      OBVIOUS
    <3>3. ReadStands(y)' /\ y = write'[v]
      BY <1>0, <1>2, <3>1, <3>2, OthersReads
    <3> QED BY <3>3 DEF ReadStands, Upserted, Flipped, Own, NewReview, Edited
  <2> QED BY <2>1 DEF ReadsStand
<1>9. OneReviewEach'
  <2>1. \A i, j \in DOMAIN review' :
          review'[i].place = review'[j].place /\ review'[i].author = review'[j].author
            /\ review'[i].author # Nobody => i = j
    BY <1>0, CommitUnique
  <2>2. ASSUME NEW a \in Authors, account'[a].erased PROVE ~account'[a].consent
    <3>1. account'[a].erased = ErasedAfter(x, a) /\ account'[a].consent = ConsentAfter(x, a)
      BY <1>0, CommitAccounts
    <3>2. account[a].erased => ~account[a].consent
      BY DEF ReviewsInv, OneReviewEach
    <3>3. ReadStands(x)
      BY <1>0 DEF ReviewsInv, ReadsStand
    <3>4. x.kind = "consent" => ~account[x.who].erased
      BY <1>0, <3>3 DEF ReadStands
    <3> HIDE DEF x
    <3>5. account[a].erased \/ (x.kind = "erase" /\ a = x.who)
      BY <2>2, <3>1 DEF ErasedAfter
    <3>6. ~ConsentAfter(x, a)
      BY <3>2, <3>4, <3>5 DEF ConsentAfter
    <3> QED BY <3>1, <3>6
  <2> QED BY <2>1, <2>2 DEF OneReviewEach
<1>10. RatingIsExact'
  <2>1. \A p \in Places : [avg |-> place'[p].avg, count |-> place'[p].count] = Aggregate(review', p)
    BY <1>0, CommitRating
  <2> QED BY <2>1 DEF RatingIsExact, Aggregate, Seen, Given
<1>11. NewestVersionIsCurrent' /\ NamedNeedsConsent'
  BY <1>0, CommitVersions, CommitNames
<1> QED BY <1>5, <1>6, <1>7, <1>8, <1>9, <1>10, <1>11 DEF ReviewsInv

-----------------------------------------------------------------------------
(* The specification. *)

LEMMA ReviewsInitial == ReviewsInit => ReviewsInv
<1> SUFFICES ASSUME ReviewsInit PROVE ReviewsInv
  OBVIOUS
<1>0. /\ MaxWrites \in Nat /\ MaxRows \in Nat /\ Nobody \notin Writes
  BY ReviewConstantsOK DEF MaxRows
<1>1. PICK c \in [Places -> Authors \cup {Nobody}] :
        place = [p \in Places |-> [state |-> "ACTIVE", creator |-> c[p], avg |-> 0, count |-> 0]]
  BY DEF ReviewsInit
<1>2. /\ review = << >> /\ versions = << >> /\ started = 0
      /\ account = [a \in Authors |-> [erased |-> FALSE, consent |-> TRUE]]
      /\ write = [w \in Writes |-> Unused] /\ rowlock = [k \in Rows |-> Nobody]
  BY DEF ReviewsInit
<1>3. DOMAIN review = {} /\ Len(review) = 0 /\ Len(versions) = 0 /\ \A w \in Writes : ~Active(w)
  BY <1>2 DEF Active
<1>4. ReviewsTypeOK
  <2>1. review \in Seq(ReviewType) /\ versions \in Seq(Seq(Ratings))
    BY <1>2
  <2>2. place \in [Places -> [state : {"ACTIVE", "INVALID"}, creator : Authors \cup {Nobody},
                              avg : 0..500, count : 0..MaxRows]]
    BY <1>0, <1>1
  <2>3. account \in [Authors -> [erased : BOOLEAN, consent : BOOLEAN]]
    BY <1>2
  <2>4. /\ write \in [Writes -> Transaction \cup {Unused, Ended}]
        /\ rowlock \in [Rows -> Writes \cup {Nobody}] /\ started \in 0..MaxRows
    BY <1>0, <1>2
  <2> QED BY <1>0, <1>3, <2>1, <2>2, <2>3, <2>4 DEF ReviewsTypeOK
<1>5. WritesInOrder /\ ReadsStand /\ OneReviewEach /\ NewestVersionIsCurrent /\ NamedNeedsConsent
  BY <1>2, <1>3 DEF WritesInOrder, ReadsStand, OneReviewEach, NewestVersionIsCurrent, NamedNeedsConsent
<1>6. LocksAreHeld
  BY <1>0, <1>2, <1>3 DEF LocksAreHeld
<1>7. RatingIsExact
  <2>1. \A p : Seen(review, p) = {} /\ \A r : Given(review, p, r) = {}
    BY <1>3 DEF Seen, Given
  <2>2. Cardinality({}) = 0
    BY FS_EmptySet
  <2>3. \A p : Aggregate(review, p) = [avg |-> 0, count |-> 0]
    BY <2>1, <2>2 DEF Aggregate
  <2> QED BY <1>1, <2>3 DEF RatingIsExact
<1> QED BY <1>4, <1>5, <1>6, <1>7 DEF ReviewsInv

LEMMA ReviewsStep == ReviewsInv /\ [ReviewsNext]_reviewVars => ReviewsInv'
<1> SUFFICES ASSUME ReviewsInv, [ReviewsNext]_reviewVars PROVE ReviewsInv'
  OBVIOUS
<1>0. /\ \A i \in DOMAIN review : review[i] \in ReviewType
      /\ DOMAIN review \subseteq 1..MaxRows /\ MaxRows \in Nat
  BY TableFacts
<1>1. ASSUME NEW w \in Writes, NEW p \in Places, NEW a \in Authors, NEW r \in Ratings,
             ReviewPosted(w, p, a, r)
      PROVE  ReviewsInv'
  <2>1. Begin(w, "review", p, a, 0, r, "none")
    BY <1>1 DEF ReviewPosted
  <2>2. "review" \in Kinds /\ 0 \in 0..MaxRows
    BY <1>0 DEF Kinds
  <2> QED BY <2>1, <2>2, BeginKeeps
<1>2. ASSUME NEW w \in Writes, NEW p \in Places, NEW a \in Authors, ProposalPosted(w, p, a)
      PROVE  ReviewsInv'
  <2>1. Begin(w, "propose", p, a, 0, 0, "none")
    BY <1>2 DEF ProposalPosted
  <2>2. "propose" \in Kinds /\ 0 \in 0..MaxRows
    BY <1>0 DEF Kinds
  <2> QED BY <2>1, <2>2, BeginKeeps
<1>3. ASSUME NEW w \in Writes, NEW i \in 1..MaxRows, NEW to \in {"HIDDEN", "ACTIVE"},
             FlipPosted(w, i, to)
      PROVE  ReviewsInv'
  <2>1. i \in DOMAIN review /\ Begin(w, "flip", review[i].place, Nobody, i, 0, to)
    BY <1>3 DEF FlipPosted
  <2>2. PICK p \in Places : p = review[i].place
    BY <1>0, <2>1 DEF ReviewType
  <2>3. "flip" \in Kinds /\ i \in 0..MaxRows
    BY <1>0 DEF Kinds
  <2> QED BY <2>1, <2>2, <2>3, BeginKeeps
<1>4. ASSUME NEW w \in Writes, NEW p \in Places, TakedownPosted(w, p)
      PROVE  ReviewsInv'
  <2>1. Begin(w, "takedown", p, Nobody, 0, 0, "none")
    BY <1>4 DEF TakedownPosted
  <2>2. "takedown" \in Kinds /\ 0 \in 0..MaxRows
    BY <1>0 DEF Kinds
  <2> QED BY <2>1, <2>2, BeginKeeps
<1>5. ASSUME NEW w \in Writes, NEW a \in Authors, NEW on \in {"on", "off"}, ConsentPosted(w, a, on)
      PROVE  ReviewsInv'
  <2>1. Begin(w, "consent", Nobody, a, 0, 0, on)
    BY <1>5 DEF ConsentPosted
  <2>2. "consent" \in Kinds /\ 0 \in 0..MaxRows
    BY <1>0 DEF Kinds
  <2> QED BY <2>1, <2>2, BeginKeeps
<1>6. ASSUME NEW w \in Writes, NEW a \in Authors, ErasurePosted(w, a)
      PROVE  ReviewsInv'
  <2>1. Begin(w, "erase", Nobody, a, 0, 0, "none")
    BY <1>6 DEF ErasurePosted
  <2>2. "erase" \in Kinds /\ 0 \in 0..MaxRows
    BY <1>0 DEF Kinds
  <2> QED BY <2>1, <2>2, BeginKeeps
<1>7. ASSUME NEW w \in Writes, Rollback(w)
      PROVE  ReviewsInv'
  BY <1>7, EndKeeps DEF Rollback
<1>8. CASE UNCHANGED reviewVars
  <2>1. /\ review' = review /\ versions' = versions /\ place' = place /\ account' = account
        /\ write' = write /\ rowlock' = rowlock /\ started' = started
    BY <1>8 DEF reviewVars
  <2>2. ReviewsTypeOK' /\ OneReviewEach' /\ RatingIsExact' /\ NewestVersionIsCurrent' /\ NamedNeedsConsent'
    BY <2>1 DEF ReviewsInv, ReviewsTypeOK, OneReviewEach, RatingIsExact, NewestVersionIsCurrent,
       NamedNeedsConsent, ShowsName
  <2>3. WritesInOrder'
    BY <2>1 DEF ReviewsInv, WritesInOrder, Active, TransactionWhole
  <2>4. LocksAreHeld'
    <3>1. \A v \in Writes : Reached(write[v])' = Reached(write[v]) /\ Current(write[v])' = Current(write[v])
      BY <2>1 DEF Reached, Current, Own, ByAuthor
    <3>2. \A v \in Writes : Active(v)' <=> Active(v)
      BY <2>1 DEF Active
    <3>3. \A v \in Writes : StatementsHold(write[v], v) => StatementsHold(write[v], v)'
      BY <2>1, <3>1 DEF StatementsHold, LocksPlace, LocksUser
    <3> QED BY <2>1, <3>1, <3>2, <3>3 DEF ReviewsInv, LocksAreHeld
  <2>5. ReadsStand'
    BY <2>1 DEF ReviewsInv, ReadsStand, Active, ReadStands, Upserted, Flipped, Own
  <2> QED BY <2>2, <2>3, <2>4, <2>5 DEF ReviewsInv
<1>9. CASE ReviewsNext
  <2>1. PICK w \in Writes :
          \/ \E p \in Places, a \in Authors :
               (\E r \in Ratings : ReviewPosted(w, p, a, r)) \/ ProposalPosted(w, p, a)
          \/ \E i \in 1..MaxRows : FlipPosted(w, i, "HIDDEN") \/ FlipPosted(w, i, "ACTIVE")
          \/ \E p \in Places : TakedownPosted(w, p)
          \/ \E a \in Authors :
               ConsentPosted(w, a, "on") \/ ConsentPosted(w, a, "off") \/ ErasurePosted(w, a)
          \/ \E k \in Rows : TakeLock(w, k)
          \/ NextStatement(w) \/ Commit(w) \/ Rollback(w)
    BY <1>9 DEF ReviewsNext
  <2> QED BY <1>1, <1>2, <1>3, <1>4, <1>5, <1>6, <1>7, <2>1, TakeKeeps, NextKeeps, CommitKeeps
<1> QED BY <1>8, <1>9

\* The invariant behind the promises about reviews: what a transaction locked
\* it holds, and what it read under a lock stands until it commits.
THEOREM ReviewsInductive == ReviewsSpec => []ReviewsInv
BY ReviewsInitial, ReviewsStep, PTL DEF ReviewsSpec

\* "A review and a proposal by one user never deadlock" (upsert_review): for
\* every number of accounts, listings and transactions, each wait cycle has
\* the erasure of an account in it.
THEOREM OnlyErasureDeadlocks == ReviewsSpec => []DeadlockNeedsErasure
<1>1. ReviewsInv => DeadlockNeedsErasure
  BY NoCycle DEF DeadlockNeedsErasure
<1> QED BY <1>1, ReviewsInductive, PTL

\* Only the commit of a flip shows a row that was hidden.
LEMMA OnlyFlipsShow ==
  ASSUME ReviewsInv, ReviewsNext, NEW i \in DOMAIN review,
         review[i].state = "HIDDEN", review'[i].state = "ACTIVE"
  PROVE  \E w \in Writes : write[w].kind = "flip" /\ write'[w] = Ended
<1>1. review' # review
  OBVIOUS
<1>2. PICK w \in Writes : Commit(w)
  <2>1. ASSUME NEW w, NEW kind, NEW p, NEW a, NEW j, NEW r, NEW to, Begin(w, kind, p, a, j, r, to)
        PROVE  FALSE
    BY <1>1, <2>1 DEF Begin
  <2>2. \A w, p, a, r : ~ReviewPosted(w, p, a, r) /\ ~ProposalPosted(w, p, a)
    BY <2>1 DEF ReviewPosted, ProposalPosted
  <2>3. \A w, j, to, p : ~FlipPosted(w, j, to) /\ ~TakedownPosted(w, p)
    BY <2>1 DEF FlipPosted, TakedownPosted
  <2>4. \A w, a, on : ~ConsentPosted(w, a, on) /\ ~ErasurePosted(w, a)
    BY <2>1 DEF ConsentPosted, ErasurePosted
  <2>5. \A w, k : ~TakeLock(w, k)
    BY <1>1 DEF TakeLock
  <2>6. \A w : ~NextStatement(w) /\ ~Rollback(w)
    BY <1>1 DEF NextStatement, Rollback
  <2> QED BY <2>2, <2>3, <2>4, <2>5, <2>6 DEF ReviewsNext
<1>3. Active(w) /\ Effect(write[w]) /\ write' = [write EXCEPT ![w] = Ended]
  BY <1>2 DEF Commit
<1>4. review'[i].state = StateAfter(write[w], i)
  BY <1>3, CommitRow
<1>5. write[w].kind = "flip"
  BY <1>4 DEF StateAfter
<1>6. write'[w] = Ended
  BY <1>3, TableFacts
<1> QED BY <1>5, <1>6

\* What the writers of a listing's reviews promise: an exact rating, the
\* newest revision on view, names only with consent, and what a moderator hid
\* stays hidden, for every number of transactions and order of their locks.
THEOREM ReviewsSafe == ReviewsSpec => ReviewsAreSafe
<1>1. ReviewsInv => ReviewsTypeOK /\ RatingIsExact /\ NewestVersionIsCurrent /\ NamedNeedsConsent
  BY DEF ReviewsInv
<1>2. ReviewsInv /\ [ReviewsNext]_reviewVars =>
        [\A i \in DOMAIN review :
           review[i].state = "HIDDEN" /\ review'[i].state = "ACTIVE"
             => \E w \in Writes : write[w].kind = "flip" /\ write'[w] = Ended]_reviewVars
  BY OnlyFlipsShow
<1> QED BY <1>1, <1>2, ReviewsInductive, PTL DEF ReviewsSpec, ReviewsAreSafe, HiddenStaysHidden
=============================================================================
