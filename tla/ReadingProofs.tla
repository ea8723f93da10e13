---------------------------- MODULE ReadingProofs ----------------------------
(***************************************************************************)
(* Proofs about what a reader is shown and an editor hands in, for every   *)
(* number of rows, places, editors and versions, every size of a page and  *)
(* every length of the week: the lists that are read page by page (Feeds), *)
(* search (Search), opening hours (Hours) and the edit form (EditForm).    *)
(***************************************************************************)
EXTENDS Reading, Hours, EditForm, FiniteSetTheorems, WellFoundedInduction, TLAPS

(***************************************************************************)
(* A page of an ordered list.  R holds the pairs <<q, r>> where q comes    *)
(* before r.                                                               *)
(***************************************************************************)
Orders(R, S) ==
  /\ \A r \in S : <<r, r>> \notin R
  /\ \A q, r, s \in S : <<q, r>> \in R /\ <<r, s>> \in R => <<q, s>> \in R
  /\ \A q, r \in S : q # r => <<q, r>> \in R \/ <<r, q>> \in R

Preceding(R, S, r) == {q \in S : <<q, r>> \in R}
FirstOf(R, S, n) == {r \in S : Cardinality(Preceding(R, S, r)) < n}

\* A set of numbers has a least one.
LEMMA LeastNat ==
  ASSUME NEW T \in SUBSET Nat, T # {}
  PROVE  \E t \in T : \A u \in T : t <= u
<1>1. PICK R : R = OpToRel(<, Nat)
  OBVIOUS
<1>2. IsWellFoundedOn(R, Nat)
  BY <1>1, NatLessThanWellFounded
<1>3. PICK t \in T : \A u \in T : ~(<<u, t>> \in R)
  BY <1>2, WFMin
<1>4. \A u \in T : ~(u < t)
  BY <1>1, <1>3 DEF OpToRel
<1>5. \A u \in T : t <= u
  <2> TAKE u \in T
  <2>1. t \in Nat /\ u \in Nat
    OBVIOUS
  <2> QED BY <1>4, <2>1
<1> QED BY <1>5

\* What precedes a row is finite, and less precedes what precedes it.
LEMMA PrecedingShrinks ==
  ASSUME NEW R, NEW S, IsFiniteSet(S), Orders(R, S)
  PROVE  /\ \A r \in S : Cardinality(Preceding(R, S, r)) \in Nat
         /\ \A q, r \in S : <<q, r>> \in R =>
              Cardinality(Preceding(R, S, q)) < Cardinality(Preceding(R, S, r))
<1>1. \A r \in S : IsFiniteSet(Preceding(R, S, r))
  BY FS_Subset DEF Preceding
<1>2. \A r \in S : Cardinality(Preceding(R, S, r)) \in Nat
  BY <1>1, FS_CardinalityType
<1>3. ASSUME NEW q \in S, NEW r \in S, <<q, r>> \in R
      PROVE  Cardinality(Preceding(R, S, q)) < Cardinality(Preceding(R, S, r))
  <2>1. PICK A, B : A = Preceding(R, S, q) /\ B = Preceding(R, S, r)
    OBVIOUS
  <2>2. A \subseteq B
    BY <1>3, <2>1 DEF Preceding, Orders
  <2>3. q \in B /\ q \notin A
    BY <1>3, <2>1 DEF Preceding, Orders
  <2>4. IsFiniteSet(B)
    BY <1>1, <2>1
  <2>5. Cardinality(A) < Cardinality(B)
    BY <2>2, <2>3, <2>4, FS_Subset, FS_CardinalityType
  <2> QED BY <2>1, <2>5
<1> QED BY <1>2, <1>3

\* Rows of an ordered finite set have a first one.
LEMMA FirstRow ==
  ASSUME NEW R, NEW S, IsFiniteSet(S), Orders(R, S), NEW T \in SUBSET S, T # {}
  PROVE  \E r \in T : \A q \in T : q # r => <<r, q>> \in R
<1>1. PICK N : N = {Cardinality(Preceding(R, S, r)) : r \in T}
  OBVIOUS
<1>2. N \subseteq Nat /\ N # {}
  BY <1>1, PrecedingShrinks
<1>3. PICK n \in N : \A m \in N : n <= m
  BY <1>2, LeastNat
<1>4. PICK r \in T : n = Cardinality(Preceding(R, S, r))
  BY <1>1, <1>3
<1>5. ASSUME NEW q \in T, q # r PROVE <<r, q>> \in R
  <2>1. SUFFICES ASSUME <<q, r>> \in R PROVE FALSE
    BY <1>5 DEF Orders
  <2>2. PICK m : m = Cardinality(Preceding(R, S, q))
    OBVIOUS
  <2>3. m < n /\ m \in N
    BY <1>1, <1>4, <2>1, <2>2, PrecedingShrinks
  <2>4. n <= m
    BY <1>3, <2>3
  <2>5. n \in Nat /\ m \in Nat
    BY <1>2, <2>3
  <2> QED BY <2>3, <2>4, <2>5
<1> QED BY <1>5

\* And a last one.
LEMMA LastRow ==
  ASSUME NEW R, NEW S, IsFiniteSet(S), Orders(R, S), NEW T \in SUBSET S, T # {}
  PROVE  \E r \in T : \A q \in T : q # r => <<q, r>> \in R
<1>1. PICK Q : Q = {p \in S \X S : <<p[2], p[1]>> \in R}
  OBVIOUS
<1>2. \A q, r \in S : <<q, r>> \in Q <=> <<r, q>> \in R
  BY <1>1
<1>3. Orders(Q, S)
  BY <1>2 DEF Orders
<1>4. PICK r \in T : \A q \in T : q # r => <<r, q>> \in Q
  BY <1>3, FirstRow
<1> QED BY <1>2, <1>4

\* The first n rows: at most n, exactly n unless they are all there is, none
\* only if there is none, and everything else comes after them.
LEMMA FirstOfFacts ==
  ASSUME NEW R, NEW S, IsFiniteSet(S), Orders(R, S), NEW n \in Nat \ {0}
  PROVE  /\ FirstOf(R, S, n) \subseteq S
         /\ IsFiniteSet(FirstOf(R, S, n)) /\ Cardinality(FirstOf(R, S, n)) \in Nat
         /\ Cardinality(FirstOf(R, S, n)) <= n
         /\ FirstOf(R, S, n) # S => Cardinality(FirstOf(R, S, n)) = n
         /\ FirstOf(R, S, n) = {} => S = {}
         /\ \A p \in FirstOf(R, S, n), q \in S \ FirstOf(R, S, n) : <<p, q>> \in R
<1>1. PICK F : F = FirstOf(R, S, n)
  OBVIOUS
<1>2. /\ F \subseteq S
      /\ \A r \in S : r \in F <=> Cardinality(Preceding(R, S, r)) < n
  BY <1>1 DEF FirstOf
<1>3. IsFiniteSet(F) /\ Cardinality(F) \in Nat
  BY <1>2, FS_Subset, FS_CardinalityType
<1>4. Cardinality(F) <= n
  <2>1. CASE F = {}
    BY <2>1, FS_EmptySet
  <2>2. CASE F # {}
    <3>1. PICK m \in F : \A q \in F : q # m => <<q, m>> \in R
      BY <1>2, <2>2, LastRow
    <3>2. PICK P : P = Preceding(R, S, m)
      OBVIOUS
    <3>3. F \subseteq P \cup {m}
      BY <1>2, <3>1, <3>2 DEF Preceding
    <3>4. IsFiniteSet(P) /\ Cardinality(P) \in Nat /\ Cardinality(P) < n
      <4>1. P \subseteq S
        BY <3>2 DEF Preceding
      <4>2. IsFiniteSet(P)
        BY <4>1, FS_Subset
      <4>3. Cardinality(P) < n
        BY <1>2, <3>1, <3>2
      <4> QED BY <4>2, <4>3, FS_CardinalityType
    <3>5. m \notin P
      BY <1>2, <3>1, <3>2 DEF Preceding, Orders
    <3>6. IsFiniteSet(P \cup {m}) /\ Cardinality(P \cup {m}) = Cardinality(P) + 1
      BY <3>4, <3>5, FS_AddElement
    <3>7. Cardinality(F) <= Cardinality(P \cup {m})
      BY <3>3, <3>6, FS_Subset
    <3> QED BY <1>3, <3>4, <3>6, <3>7
  <2> QED BY <2>1, <2>2
<1>5. F # S => Cardinality(F) = n
  <2>1. HAVE F # S
  <2>2. PICK T : T = S \ F
    OBVIOUS
  <2>3. T \subseteq S /\ T # {}
    BY <1>2, <2>1, <2>2
  <2>4. PICK m \in T : \A q \in T : q # m => <<m, q>> \in R
    BY <2>3, FirstRow
  <2>5. PICK P : P = Preceding(R, S, m)
    OBVIOUS
  <2>6. m \in S /\ m \notin F
    BY <2>2, <2>4
  <2>7. P \subseteq F
    <3>1. SUFFICES ASSUME NEW q \in P, q \notin F PROVE FALSE
      OBVIOUS
    <3>2. q \in S /\ <<q, m>> \in R
      BY <2>5 DEF Preceding
    <3>3. q \in T
      BY <2>2, <3>1, <3>2
    <3>4. q # m
      BY <2>6, <3>2 DEF Orders
    <3>5. <<m, q>> \in R
      BY <2>4, <3>3, <3>4
    <3> QED BY <2>6, <3>2, <3>5 DEF Orders
  <2>8. Cardinality(P) \in Nat /\ ~(Cardinality(P) < n)
    BY <1>2, <2>5, <2>6, PrecedingShrinks
  <2>9. Cardinality(P) <= Cardinality(F)
    BY <1>3, <2>7, FS_Subset
  <2> QED BY <1>3, <1>4, <2>8, <2>9
<1>6. F = {} => S = {}
  <2>1. SUFFICES ASSUME F = {}, S # {} PROVE FALSE
    OBVIOUS
  <2>2. Cardinality(F) = n
    BY <1>5, <2>1
  <2>3. Cardinality(F) = 0
    BY <2>1, FS_EmptySet
  <2> QED BY <2>2, <2>3
<1>7. ASSUME NEW p \in F, NEW q \in S \ F PROVE <<p, q>> \in R
  <2>1. SUFFICES ASSUME <<q, p>> \in R PROVE FALSE
    BY <1>2, <1>7 DEF Orders
  <2>2. PICK a, b : a = Cardinality(Preceding(R, S, q)) /\ b = Cardinality(Preceding(R, S, p))
    OBVIOUS
  <2>3. a < b /\ a \in Nat /\ b \in Nat
    BY <1>2, <2>1, <2>2, PrecedingShrinks
  <2>4. b < n /\ ~(a < n)
    BY <1>2, <1>7, <2>2
  <2> QED BY <2>3, <2>4
<1> QED BY <1>1, <1>2, <1>3, <1>4, <1>5, <1>6, <1>7

(***************************************************************************)
(* Feeds.                                                                  *)
(***************************************************************************)

\* A sort key is a pair of numbers, never that of no cursor.
LEMMA KeyFacts ==
  ASSUME NEW f \in Feed, NEW r \in Rows, NEW x, x.at \in Nat
  PROVE  /\ KeyOf(f, r, x) \in Nat \X Nat /\ KeyOf(f, r, x)[1] >= 1
         /\ KeyOf(f, r, x) # NoCursor
<1>1. r.pk \in Nat /\ r.tag \in Nat
  BY FeedConstantsOK DEF Rows
<1>2. PICK i, j : i \in Nat /\ j \in Nat /\ i >= 1 /\ KeyOf(f, r, x) = <<i, j>>
  <2>1. r.pk * 10 + r.tag \in Nat /\ x.at + 1 \in Nat /\ x.at + 1 >= 1
    BY <1>1
  <2>2. CASE f \in {"favourites", "history"}
    BY <2>1, <2>2 DEF KeyOf
  <2>3. CASE f = "photos"
    BY <1>1, <2>1, <2>3 DEF KeyOf
  <2>4. CASE f = "proposals"
    BY <1>1, <2>4 DEF KeyOf
  <2>5. CASE f \in {"reports", "audit", "listing"}
    BY <1>1, <2>5 DEF KeyOf
  <2> QED BY <2>2, <2>3, <2>4, <2>5 DEF Feed, Joined
<1> QED BY <1>2 DEF NoCursor

\* The order of a list is strict and total on keys.
LEMMA AfterOrders ==
  ASSUME NEW f
  PROVE  /\ \A a \in Nat \X Nat : ~After(f, a, a)
         /\ \A a, b, c \in Nat \X Nat : After(f, a, b) /\ After(f, b, c) => After(f, a, c)
         /\ \A a, b \in Nat \X Nat : a # b => After(f, a, b) \/ After(f, b, a)
<1>1. \A a \in Nat \X Nat : a[1] \in Nat /\ a[2] \in Nat
  OBVIOUS
<1>2. \A a, b \in Nat \X Nat : a # b => a[1] # b[1] \/ a[2] # b[2]
  OBVIOUS
<1>3. CASE f \in Ascending
  BY <1>1, <1>2, <1>3 DEF After
<1>4. CASE f \notin Ascending
  BY <1>1, <1>2, <1>4 DEF After
<1> QED BY <1>3, <1>4

\* The rows of the list are finitely many.
LEMMA RowsAreFinite == IsFiniteSet(Rows)
<1>1. PICK a, b, c : a = 1 /\ b = MaxPk /\ c = 2 /\ a \in Int /\ b \in Int /\ c \in Int
  BY FeedConstantsOK
<1>2. IsFiniteSet(a..b) /\ IsFiniteSet(a..c)
  BY <1>1, FS_Interval
<1>3. PICK P : P = (1..MaxPk) \X (1..2)
  OBVIOUS
<1>4. IsFiniteSet(P)
  BY <1>1, <1>2, <1>3, FS_Product
<1>5. PICK g : g = [r \in Rows |-> <<r.pk, r.tag>>]
  OBVIOUS
<1>6. \A r \in Rows : r = [pk |-> r.pk, tag |-> r.tag] /\ r.pk \in 1..MaxPk /\ r.tag \in 1..2
  BY DEF Rows
<1>7. g \in [Rows -> P]
  BY <1>3, <1>5, <1>6
<1>8. \A q, r \in Rows : g[q] = g[r] => q = r
  <2> TAKE q, r \in Rows
  <2>1. HAVE g[q] = g[r]
  <2>2. q.pk = r.pk /\ q.tag = r.tag
    BY <1>5, <2>1
  <2> QED BY <1>6, <2>2
<1>9. g \in Injection(Rows, P)
  BY <1>7, <1>8 DEF Injection, IsInjective
<1> QED BY <1>4, <1>9, FS_Injection

\* Keys of the rows as they are.
LEMMA RowKeys ==
  ASSUME FeedsTypeOK
  PROVE  \A r \in Rows : Key(r) \in Nat \X Nat /\ Key(r)[1] >= 1 /\ Key(r) # NoCursor
<1> TAKE r \in Rows
<1>1. row[r].at \in Nat /\ feed \in Feed
  BY FeedConstantsOK DEF FeedsTypeOK
<1> QED BY <1>1, KeyFacts DEF Key

\* A page holds the rows after the cursor that come first: at most a limit, all
\* of them if there is no link to more, and the last of them is before the rest.
LEMMA PageFacts ==
  ASSUME FeedsTypeOK, KeysDiffer, NEW page, page = Page
  PROVE  /\ page \subseteq Rest
         /\ ~HasNext(page) => page = Rest
         /\ HasNext(page) =>
              /\ LastOf(page) \in page
              /\ \A q \in page : q # LastOf(page) => After(feed, Key(LastOf(page)), Key(q))
              /\ \A q \in Rest \ page : After(feed, Key(q), Key(LastOf(page)))
<1>1. PICK R : R = {p \in Rows \X Rows : After(feed, Key(p[2]), Key(p[1]))}
  OBVIOUS
<1>2. \A q, r \in Rows : <<q, r>> \in R <=> After(feed, Key(r), Key(q))
  BY <1>1
<1>3. PICK S : S = Rest
  OBVIOUS
<1>4. S \subseteq Rows /\ \A r \in S : row[r].state # "none"
  BY <1>3 DEF Rest, Listed, RowsOf
<1>5. IsFiniteSet(S)
  BY <1>4, RowsAreFinite, FS_Subset
<1>6. Orders(R, S)
  <2>1. \A r \in S : Key(r) \in Nat \X Nat
    BY <1>4, RowKeys
  <2>2. \A q, r \in S : q # r => Key(q) # Key(r)
    BY <1>4 DEF KeysDiffer
  <2>3. \A r \in S : <<r, r>> \notin R
    BY <1>2, <1>4, <2>1, AfterOrders
  <2>4. \A q, r, s \in S : <<q, r>> \in R /\ <<r, s>> \in R => <<q, s>> \in R
    BY <1>2, <1>4, <2>1, AfterOrders
  <2>5. \A q, r \in S : q # r => <<q, r>> \in R \/ <<r, q>> \in R
    BY <1>2, <1>4, <2>1, <2>2, AfterOrders
  <2> QED BY <2>3, <2>4, <2>5 DEF Orders
<1>7. page = FirstOf(R, S, PageLimit)
  <2>1. \A r \in S : Preceding(R, S, r) = {q \in S : After(feed, Key(r), Key(q))}
    BY <1>2, <1>4 DEF Preceding
  <2> QED BY <1>3, <2>1 DEF Page, FirstOf
<1>8. /\ page \subseteq S /\ IsFiniteSet(page)
      /\ page # S => Cardinality(page) = PageLimit
      /\ page = {} => S = {}
      /\ \A p \in page, q \in S \ page : <<p, q>> \in R
  BY <1>5, <1>6, <1>7, FeedConstantsOK, FirstOfFacts
<1>9. ~HasNext(page) => page = S
  <2>1. CASE feed = "audit"
    BY <1>8, <2>1 DEF HasNext
  <2>2. CASE feed = "listing"
    BY <1>3, <1>8, <2>2 DEF HasNext
  <2>3. CASE feed \notin {"audit", "listing"}
    BY <1>8, <2>3 DEF HasNext
  <2> QED BY <2>1, <2>2, <2>3
<1>10. HasNext(page) => page # {}
  <2>1. CASE feed = "audit"
    BY <2>1 DEF HasNext
  <2>2. CASE feed = "listing"
    BY <1>3, <1>8, <2>2 DEF HasNext
  <2>3. CASE feed \notin {"audit", "listing"}
    BY <2>3, FS_EmptySet, FeedConstantsOK DEF HasNext
  <2> QED BY <2>1, <2>2, <2>3
<1>11. ASSUME HasNext(page)
       PROVE  /\ LastOf(page) \in page
              /\ \A q \in page : q # LastOf(page) => After(feed, Key(LastOf(page)), Key(q))
  <2>1. PICK r \in page : \A q \in page : q # r => <<q, r>> \in R
    BY <1>5, <1>6, <1>8, <1>10, <1>11, LastRow
  <2>2. \A q \in page : q # r => After(feed, Key(r), Key(q))
    BY <1>2, <1>4, <1>8, <2>1
  <2> QED BY <2>2 DEF LastOf
<1>12. ASSUME HasNext(page), NEW q \in S \ page
       PROVE  After(feed, Key(q), Key(LastOf(page)))
  BY <1>2, <1>4, <1>8, <1>11, <1>12
<1> QED BY <1>3, <1>8, <1>9, <1>11, <1>12

LEMMA FeedsStart == FeedsInit => FeedsInv
<1> SUFFICES ASSUME FeedsInit PROVE FeedsInv
  OBVIOUS
<1>1. /\ feed \in Feed /\ row = [r \in Rows |-> [state |-> "none", at |-> 0, esc |-> FALSE]]
      /\ reader = [pc |-> "away", cursor |-> NoCursor] /\ clock = 0
      /\ shown = [r \in Rows |-> 0] /\ steady = {}
  BY DEF FeedsInit
<1>2. \A r \in Rows : row[r].state = "none" /\ row[r].at = 0 /\ shown[r] = 0
  BY <1>1
<1>3. MaxTime \in Nat
  BY FeedConstantsOK
<1>4. FeedsTypeOK
  BY <1>1, <1>3 DEF FeedsTypeOK
<1>5. WalkIsComplete
  BY <1>1, <1>2 DEF WalkIsComplete
<1>6. RowsAreTimed /\ KeysDiffer
  BY <1>1, <1>2 DEF RowsAreTimed, KeysDiffer
<1>7. reader.pc = "away" /\ reader.cursor = NoCursor /\ NoCursor \in Nat \X Nat
  BY <1>1 DEF NoCursor
<1>8. CursorIsAKey /\ ShownIsBehind
  BY <1>7 DEF CursorIsAKey, ShownIsBehind
<1>9. ShownWasThere
  BY <1>2 DEF ShownWasThere
<1>10. UnshownIsAhead
  BY <1>1, <1>7 DEF UnshownIsAhead
<1> QED BY <1>4, <1>5, <1>6, <1>8, <1>9, <1>10 DEF FeedsInv, FeedsAreComplete

\* One row changes: what stays in the walk keeps its key, and a row that was
\* filled keeps it too, moves to the front of the favourites, or to the front
\* of the proposals.
LEMMA RowMoves ==
  ASSUME FeedsInv, NEW r \in Rows,
         NEW x \in [state : {"open", "in", "out"}, at : 0..MaxTime, esc : BOOLEAN],
         row' = [row EXCEPT ![r] = x], UNCHANGED <<feed, reader, shown, clock>>,
         x.at <= clock, r \in RowsOf(feed),
         \A q \in Rows : q # r /\ row[q].state # "none" => Key(q) # KeyOf(feed, r, x),
         steady' \subseteq steady,
         r \in steady' => x.state = "in" /\ KeyOf(feed, r, x) = Key(r),
         row[r].state # "none" =>
           \/ KeyOf(feed, r, x) = Key(r)
           \/ feed = "favourites" /\ row[r].at <= x.at
           \/ feed = "proposals" /\ x.esc
  PROVE  FeedsInv'
<1>1. /\ feed' = feed /\ reader' = reader /\ shown' = shown /\ clock' = clock
      /\ row'[r] = x /\ \A q \in Rows : q # r => row'[q] = row[q]
  BY DEF FeedsInv, FeedsAreComplete, FeedsTypeOK
<1>2. /\ Key(r)' = KeyOf(feed, r, x)
      /\ \A q \in Rows : q # r => Key(q)' = Key(q)
  BY <1>1 DEF Key
<1>3. x.state # "none"
  OBVIOUS
<1>4. FeedsTypeOK /\ FeedsTypeOK'
  <2>1. FeedsTypeOK
    BY DEF FeedsInv, FeedsAreComplete
  <2>2. row' \in [Rows -> [state : {"none", "open", "in", "out"}, at : 0..MaxTime, esc : BOOLEAN]]
    BY <2>1 DEF FeedsTypeOK
  <2>3. steady' \subseteq Rows
    BY <2>1 DEF FeedsTypeOK
  <2> QED BY <1>1, <2>1, <2>2, <2>3 DEF FeedsTypeOK
<1>5. \A q \in Rows : row[q].state # "none" => row'[q].state # "none"
  BY <1>1, <1>3
<1>6. WalkIsComplete'
  BY <1>1 DEF WalkIsComplete, FeedsInv, FeedsAreComplete
<1>7. RowsAreTimed'
  BY <1>1 DEF RowsAreTimed, FeedsInv, RowsOf
<1>8. KeysDiffer'
  BY <1>1, <1>2 DEF KeysDiffer, FeedsInv
<1>9. CursorIsAKey'
  BY <1>1, <1>5 DEF CursorIsAKey, FeedsInv
<1>10. ShownWasThere'
  BY <1>1, <1>5 DEF ShownWasThere, FeedsInv
<1>11. \A q \in steady' : Key(q)' = Key(q) /\ q \in Rows /\ row'[q].state = "in" /\ q \in steady
  BY <1>1, <1>2 DEF FeedsInv, UnshownIsAhead, Listed, RowsOf
<1>12. UnshownIsAhead'
  <2>1. steady' \subseteq Listed'
    BY <1>1, <1>11 DEF FeedsInv, UnshownIsAhead, Listed
  <2>2. ASSUME reader.pc = "walking", reader.cursor # NoCursor, NEW q \in steady', shown[q] = 0
        PROVE  Beyond(feed, Key(q), CursorNow')
    <3>1. Beyond(feed, Key(q), CursorNow)
      BY <1>11, <2>2 DEF FeedsInv, UnshownIsAhead
    <3>2. CASE feed # "proposals"
      BY <1>1, <3>1, <3>2 DEF CursorNow
    <3>3. CASE feed = "proposals"
      <4>1. PICK c : c = [pk |-> reader.cursor[2], tag |-> 1]
        OBVIOUS
      <4>2. c \in Rows /\ row[c].state # "none"
        BY <2>2, <3>3, <4>1 DEF FeedsInv, CursorIsAKey
      <4>3. CursorNow = Key(c) /\ CursorNow' = Key(c)'
        BY <1>1, <2>2, <3>3, <4>1 DEF CursorNow
      <4>4. CASE Key(c)' = Key(c)
        BY <3>1, <4>3, <4>4
      <4>5. CASE c = r /\ x.esc
        <5>1. Key(c)' = <<1, c.pk>>
          BY <1>2, <3>3, <4>5 DEF KeyOf
        <5>2. Key(c) = <<1, c.pk>> \/ Key(c) = <<2, c.pk>>
          BY <3>3 DEF Key, KeyOf
        <5>3. Key(q) \in Nat \X Nat /\ Key(q)[1] >= 1
          BY <1>4, <1>11, RowKeys
        <5>4. c.pk \in Nat
          BY <4>2, FeedConstantsOK DEF Rows
        <5>5. Key(q)[1] > Key(c)[1] \/ (Key(q)[1] = Key(c)[1] /\ Key(q)[2] > Key(c)[2])
          BY <3>1, <3>3, <4>3 DEF Beyond, After, Ascending
        <5>6. Key(q)[1] > 1 \/ (Key(q)[1] = 1 /\ Key(q)[2] > c.pk)
          BY <5>2, <5>3, <5>4, <5>5
        <5> QED BY <3>3, <4>3, <5>1, <5>6 DEF Beyond, After, Ascending
      <4> QED BY <1>2, <3>3, <4>2, <4>4, <4>5
    <3> QED BY <3>2, <3>3
  <2> QED BY <1>1, <1>11, <2>1, <2>2 DEF UnshownIsAhead
<1>13. ShownIsBehind'
  <2>1. ASSUME feed # "proposals", reader.pc = "walking", reader.cursor # NoCursor,
               NEW q \in Rows, shown[q] > 0
        PROVE  ~Beyond(feed, Key(q)', reader.cursor)
    <3>1. ~Beyond(feed, Key(q), reader.cursor) /\ row[q].state # "none"
      BY <2>1 DEF FeedsInv, ShownIsBehind, ShownWasThere
    <3>2. CASE Key(q)' = Key(q)
      BY <3>1, <3>2
    <3>3. CASE q = r /\ feed = "favourites" /\ row[r].at <= x.at
      <4>1. PICK n : n = r.pk * 10 + r.tag
        OBVIOUS
      <4>2. Key(r) = <<row[r].at + 1, n>> /\ Key(r)' = <<x.at + 1, n>>
        BY <1>2, <3>3, <4>1 DEF Key, KeyOf
      <4>3. row[r].at \in Nat /\ x.at \in Nat /\ n \in Nat
        BY <1>4, <4>1, FeedConstantsOK DEF FeedsTypeOK, Rows
      <4>4. PICK a, b : a \in Nat /\ b \in Nat /\ reader.cursor = <<a, b>>
        BY DEF FeedsInv, CursorIsAKey
      <4>5. ~(row[r].at + 1 < a \/ (row[r].at + 1 = a /\ n < b))
        BY <3>1, <3>3, <4>2, <4>4 DEF Beyond, After, Ascending
      <4>6. ~(x.at + 1 < a \/ (x.at + 1 = a /\ n < b))
        BY <3>3, <4>3, <4>4, <4>5
      <4> QED BY <3>3, <4>2, <4>4, <4>6 DEF Beyond, After, Ascending
    <3> QED BY <1>2, <2>1, <3>1, <3>2, <3>3
  <2> QED BY <1>1, <2>1 DEF ShownIsBehind
<1> QED BY <1>4, <1>6, <1>7, <1>8, <1>9, <1>10, <1>12, <1>13 DEF FeedsInv, FeedsAreComplete

LEMMA OpenRowKeeps ==
  ASSUME FeedsInv, NEW r \in Rows, OpenRow(r)
  PROVE  FeedsInv'
<1>1. PICK x : x = [state |-> "open", at |-> clock, esc |-> FALSE]
  OBVIOUS
<1>2. /\ row' = [row EXCEPT ![r] = x] /\ UNCHANGED <<feed, reader, shown, steady, clock>>
      /\ r \in RowsOf(feed)
      /\ row[r].state = "none" \/ (feed = "favourites" /\ row[r].state = "out")
      /\ feed = "photos" =>
           \A q \in Rows : q.pk = r.pk /\ row[q].state # "none" => row[q].at # clock
  BY <1>1 DEF OpenRow
<1>3. clock \in 0..MaxTime /\ feed \in Feed
  BY DEF FeedsInv, FeedsAreComplete, FeedsTypeOK
<1>4. /\ x \in [state : {"open", "in", "out"}, at : 0..MaxTime, esc : BOOLEAN]
      /\ x.at = clock /\ clock <= clock /\ x.esc = FALSE
  BY <1>1, <1>3, FeedConstantsOK
<1>5. r \notin steady
  BY <1>2 DEF FeedsInv, UnshownIsAhead, Listed
<1>6. row[r].at <= x.at
  BY <1>4 DEF FeedsInv, RowsAreTimed
<1>7. ASSUME NEW q \in Rows, q # r, row[q].state # "none"
      PROVE  Key(q) # KeyOf(feed, r, x)
  <2>1. q \in RowsOf(feed)
    BY <1>7 DEF FeedsInv, RowsAreTimed
  <2>2. /\ q.pk \in Nat /\ r.pk \in Nat /\ q.tag \in 1..2 /\ r.tag \in 1..2
        /\ q = [pk |-> q.pk, tag |-> q.tag] /\ r = [pk |-> r.pk, tag |-> r.tag]
    BY FeedConstantsOK DEF Rows
  <2>3. q.pk # r.pk \/ q.tag # r.tag
    BY <1>7, <2>2
  <2>4. feed \notin Joined => q.tag = 1 /\ r.tag = 1
    BY <1>2, <2>1 DEF RowsOf
  <2>5. CASE feed \in {"favourites", "history"}
    <3>1. q.pk * 10 + q.tag # r.pk * 10 + r.tag
      BY <2>2, <2>3
    <3> QED BY <2>5, <3>1 DEF Key, KeyOf
  <2>6. CASE feed = "photos"
    <3>1. q.pk # r.pk \/ row[q].at # clock
      BY <1>2, <1>7, <2>6
    <3>2. row[q].at \in Nat /\ clock \in Nat
      BY FeedConstantsOK DEF FeedsInv, FeedsAreComplete, FeedsTypeOK
    <3>3. q.pk # r.pk \/ row[q].at + 1 # clock + 1
      BY <3>1, <3>2
    <3>4. Key(q) = <<row[q].at + 1, q.pk>> /\ KeyOf(feed, r, x) = <<clock + 1, r.pk>>
      BY <1>4, <2>6 DEF Key, KeyOf
    <3> QED BY <3>3, <3>4
  <2>7. CASE feed = "proposals"
    BY <2>3, <2>4, <2>7 DEF Key, KeyOf, Joined
  <2>8. CASE feed \in {"reports", "audit", "listing"}
    BY <2>3, <2>4, <2>8 DEF Key, KeyOf, Joined
  <2> QED BY <1>3, <2>5, <2>6, <2>7, <2>8 DEF Feed, Joined
<1> QED BY <1>2, <1>4, <1>5, <1>6, <1>7, RowMoves

\* A change of a row's state, or of its flag, that leaves the rest of it alone.
LEMMA RowTurns ==
  ASSUME FeedsInv, NEW r \in Rows, row[r].state # "none",
         NEW s \in {"open", "in", "out"}, NEW e \in BOOLEAN,
         row' = [row EXCEPT ![r] = [state |-> s, at |-> row[r].at, esc |-> e]],
         UNCHANGED <<feed, reader, shown, clock>>, steady' \subseteq steady,
         r \in steady' => s = "in",
         e = row[r].esc \/ (feed = "proposals" /\ e /\ r \notin steady')
  PROVE  FeedsInv'
<1>1. PICK x : x = [state |-> s, at |-> row[r].at, esc |-> e]
  OBVIOUS
<1>2. row[r].at \in 0..MaxTime /\ feed \in Feed /\ row[r].at <= clock /\ r \in RowsOf(feed)
  BY DEF FeedsInv, FeedsAreComplete, FeedsTypeOK, RowsAreTimed
<1>3. /\ x \in [state : {"open", "in", "out"}, at : 0..MaxTime, esc : BOOLEAN]
      /\ x.at = row[r].at /\ x.esc = e /\ x.state = s
  BY <1>1, <1>2
<1>4. e = row[r].esc => KeyOf(feed, r, x) = Key(r)
  BY <1>2, <1>3 DEF Key, KeyOf, Feed, Joined
<1>5. ASSUME NEW q \in Rows, q # r, row[q].state # "none"
      PROVE  Key(q) # KeyOf(feed, r, x)
  <2>1. CASE e = row[r].esc
    BY <1>4, <1>5, <2>1 DEF FeedsInv, KeysDiffer
  <2>2. CASE feed = "proposals"
    <3>1. q \in RowsOf(feed)
      BY <1>5 DEF FeedsInv, RowsAreTimed
    <3>2. q.tag = 1 /\ r.tag = 1
      BY <1>2, <2>2, <3>1 DEF RowsOf, Joined
    <3>3. q = [pk |-> q.pk, tag |-> q.tag] /\ r = [pk |-> r.pk, tag |-> r.tag]
      BY DEF Rows
    <3>4. q.pk # r.pk
      BY <1>5, <3>2, <3>3
    <3> QED BY <2>2, <3>4 DEF Key, KeyOf
  <2> QED BY <2>1, <2>2
<1>6. row' = [row EXCEPT ![r] = x]
  BY <1>1
<1>7. r \in steady' => x.state = "in" /\ KeyOf(feed, r, x) = Key(r)
  BY <1>3, <1>4
<1>8. KeyOf(feed, r, x) = Key(r) \/ (feed = "proposals" /\ x.esc)
  BY <1>3, <1>4
<1>9. x.at <= clock
  BY <1>2, <1>3
<1> QED BY ONLY FeedsInv, r \in Rows, UNCHANGED <<feed, reader, shown, clock>>, steady' \subseteq steady,
          <1>2, <1>3, <1>5, <1>6, <1>7, <1>8, <1>9, RowMoves

LEMMA RowsKeep ==
  ASSUME FeedsInv, NEW r \in Rows, CommitRow(r) \/ LeaveFeed(r) \/ EscalateRow(r)
  PROVE  FeedsInv'
<1>1. PICK y : y = row[r]
  OBVIOUS
<1>2. y \in [state : {"none", "open", "in", "out"}, at : 0..MaxTime, esc : BOOLEAN]
  BY <1>1 DEF FeedsInv, FeedsAreComplete, FeedsTypeOK
<1>3. CASE CommitRow(r)
  <2>1. y.state = "open" /\ UNCHANGED <<feed, reader, shown, steady, clock>>
    BY <1>1, <1>3 DEF CommitRow
  <2>2. row' = [row EXCEPT ![r] = [state |-> "in", at |-> y.at, esc |-> y.esc]]
    <3>1. row' = [row EXCEPT ![r] = [y EXCEPT !.state = "in"]]
      BY <1>1, <1>3 DEF CommitRow
    <3>2. [y EXCEPT !.state = "in"] = [state |-> "in", at |-> y.at, esc |-> y.esc]
      BY <1>2
    <3> QED BY <3>1, <3>2
  <2> QED BY <1>1, <1>2, <2>1, <2>2, RowTurns
<1>4. CASE LeaveFeed(r)
  <2>1. /\ y.state = "in" /\ UNCHANGED <<feed, reader, shown, clock>>
        /\ steady' = steady \ {r}
    BY <1>1, <1>4 DEF LeaveFeed
  <2>2. row' = [row EXCEPT ![r] = [state |-> "out", at |-> y.at, esc |-> y.esc]]
    <3>1. row' = [row EXCEPT ![r] = [y EXCEPT !.state = "out"]]
      BY <1>1, <1>4 DEF LeaveFeed
    <3>2. [y EXCEPT !.state = "out"] = [state |-> "out", at |-> y.at, esc |-> y.esc]
      BY <1>2
    <3> QED BY <3>1, <3>2
  <2> QED BY <1>1, <1>2, <2>1, <2>2, RowTurns
<1>5. CASE EscalateRow(r)
  <2>1. /\ y.state = "in" /\ UNCHANGED <<feed, reader, shown, clock>>
        /\ steady' = steady \ {r} /\ feed = "proposals"
    BY <1>1, <1>5 DEF EscalateRow
  <2>2. row' = [row EXCEPT ![r] = [state |-> "in", at |-> y.at, esc |-> TRUE]]
    <3>1. row' = [row EXCEPT ![r] = [y EXCEPT !.esc = TRUE]]
      BY <1>1, <1>5 DEF EscalateRow
    <3>2. [y EXCEPT !.esc = TRUE] = [state |-> "in", at |-> y.at, esc |-> TRUE]
      <4>1. PICK a, b : y = [state |-> "in", at |-> a, esc |-> b]
        BY <1>2, <2>1
      <4>2. \A t : [y EXCEPT !.esc = t] = [state |-> "in", at |-> a, esc |-> t]
        BY <4>1
      <4>3. y.at = a
        BY <4>1
      <4> QED BY <4>2, <4>3, Zenon
    <3> QED BY <3>1, <3>2
  <2> QED BY <1>1, <2>1, <2>2, RowTurns
<1> QED BY <1>3, <1>4, <1>5

LEMMA StartWalkKeeps ==
  ASSUME FeedsInv, StartWalk
  PROVE  FeedsInv'
<1>1. /\ reader.pc = "away" /\ reader'.pc = "walking" /\ reader'.cursor = NoCursor
      /\ steady' = Listed /\ UNCHANGED <<feed, row, shown, clock>>
  BY DEF StartWalk
<1>2. reader.cursor = NoCursor /\ NoCursor \in Nat \X Nat
  BY <1>1 DEF FeedsInv, CursorIsAKey, NoCursor
<1>3. FeedsTypeOK'
  BY <1>1 DEF FeedsInv, FeedsAreComplete, FeedsTypeOK, Listed, RowsOf
<1>4. WalkIsComplete'
  BY <1>1 DEF FeedsInv, FeedsAreComplete, WalkIsComplete
<1>5. RowsAreTimed'
  BY <1>1 DEF FeedsInv, RowsAreTimed, RowsOf
<1>6. KeysDiffer'
  BY <1>1 DEF FeedsInv, KeysDiffer, Key
<1>7. CursorIsAKey' /\ ShownIsBehind'
  BY <1>1, <1>2 DEF CursorIsAKey, ShownIsBehind
<1>8. ShownWasThere'
  BY <1>1, <1>2 DEF FeedsInv, ShownWasThere
<1>9. UnshownIsAhead'
  BY <1>1 DEF UnshownIsAhead, Listed
<1> QED BY <1>3, <1>4, <1>5, <1>6, <1>7, <1>8, <1>9 DEF FeedsInv, FeedsAreComplete

\* The clock, and a step that changes nothing.
LEMMA ClockKeeps ==
  ASSUME FeedsInv, UNCHANGED <<feed, row, reader, shown, steady>>,
         clock' = clock \/ (clock < MaxTime /\ clock' = clock + 1)
  PROVE  FeedsInv'
<1>1. /\ feed' = feed /\ row' = row /\ reader' = reader /\ shown' = shown /\ steady' = steady
  OBVIOUS
<1>2. clock \in Nat /\ clock' \in Nat /\ clock <= clock' /\ clock' \in 0..MaxTime
  BY FeedConstantsOK DEF FeedsInv, FeedsAreComplete, FeedsTypeOK
<1>3. FeedsTypeOK'
  BY <1>1, <1>2 DEF FeedsInv, FeedsAreComplete, FeedsTypeOK
<1>4. WalkIsComplete'
  BY <1>1 DEF FeedsInv, FeedsAreComplete, WalkIsComplete
<1>5. RowsAreTimed'
  <2>1. \A r \in Rows : row[r].at \in Nat
    BY FeedConstantsOK DEF FeedsInv, FeedsAreComplete, FeedsTypeOK
  <2> QED BY <1>1, <1>2, <2>1 DEF FeedsInv, RowsAreTimed, RowsOf
<1>6. KeysDiffer'
  BY <1>1 DEF FeedsInv, KeysDiffer, Key
<1>7. CursorIsAKey' /\ ShownIsBehind'
  BY <1>1 DEF FeedsInv, CursorIsAKey, ShownIsBehind, Key
<1>8. ShownWasThere'
  BY <1>1 DEF FeedsInv, ShownWasThere
<1>9. UnshownIsAhead'
  BY <1>1 DEF FeedsInv, UnshownIsAhead, Listed, CursorNow, Key
<1> QED BY <1>3, <1>4, <1>5, <1>6, <1>7, <1>8, <1>9 DEF FeedsInv, FeedsAreComplete

\* A page is shown.  The rows on it were ahead of the reader, so they are shown
\* for the first time; what stays ahead comes after the last of them.
LEMMA ReadPageKeeps ==
  ASSUME FeedsInv, ReadPage
  PROVE  FeedsInv'
<1>1. PICK page, last, c : page = Page /\ last = LastOf(page) /\ c = reader.cursor
  OBVIOUS
<1>2. /\ reader.pc = "walking" /\ UNCHANGED <<feed, row, steady, clock>>
      /\ shown' = [r \in Rows |-> IF r \in page /\ shown[r] < 2 THEN shown[r] + 1 ELSE shown[r]]
      /\ HasNext(page) => reader' = [pc |-> "walking", cursor |-> Key(last)]
      /\ ~HasNext(page) => reader' = [pc |-> "ended", cursor |-> c]
  BY <1>1 DEF ReadPage
<1>3. FeedsTypeOK /\ KeysDiffer
  BY DEF FeedsInv, FeedsAreComplete
<1>4. /\ page \subseteq Rest
      /\ ~HasNext(page) => page = Rest
      /\ HasNext(page) =>
           /\ last \in page
           /\ \A q \in page : q # last => After(feed, Key(last), Key(q))
           /\ \A q \in Rest \ page : After(feed, Key(q), Key(last))
  BY <1>1, <1>3, PageFacts
<1>5. \A r \in Rows : Key(r) \in Nat \X Nat /\ Key(r) # NoCursor
  BY <1>3, RowKeys
<1>6. Rest \subseteq Listed /\ Listed \subseteq Rows /\ Listed \subseteq RowsOf(feed)
  BY DEF Rest, Listed, RowsOf
<1>7. \A r \in Rows : Key(r)' = Key(r)
  BY <1>2 DEF Key
<1>8. \A r \in Rows : shown[r] \in 0..2
  BY <1>3 DEF FeedsTypeOK
<1>9. \A r \in Rows : /\ shown'[r] \in 0..2
                      /\ r \in page => shown'[r] >= 1
                      /\ shown[r] > 0 => shown'[r] > 0
                      /\ r \notin page => shown'[r] = shown[r]
                      /\ r \in page /\ shown[r] = 0 => shown'[r] = 1
  <2> TAKE r \in Rows
  <2>1. PICK n : n \in 0..2 /\ n = shown[r]
    BY <1>8
  <2>2. shown'[r] = IF r \in page /\ n < 2 THEN n + 1 ELSE n
    BY <1>2, <2>1
  <2>3. n \in Nat
    BY <2>1
  <2> QED BY <2>1, <2>2, <2>3
<1>10. \A r \in steady : shown[r] = 0 => r \in Rest
  BY <1>2 DEF FeedsInv, UnshownIsAhead, Rest
<1>11. c \in Nat \X Nat
  BY <1>1 DEF FeedsInv, CursorIsAKey
<1>13. feed # "proposals" => \A r \in Rows : r \in page => shown[r] = 0
  <2>1. SUFFICES ASSUME feed # "proposals", NEW r \in page, r \in Rows, shown[r] # 0 PROVE FALSE
    OBVIOUS
  <2>2. shown[r] > 0
    BY <1>8, <2>1
  <2>3. reader.cursor # NoCursor
    BY <1>2, <2>1 DEF FeedsInv, ShownWasThere
  <2>4. Beyond(feed, Key(r), reader.cursor)
    BY <1>4, <2>1, <2>3 DEF Rest, CursorNow
  <2> QED BY <1>2, <2>1, <2>2, <2>3, <2>4 DEF FeedsInv, ShownIsBehind
<1>14. FeedsTypeOK'
  BY <1>2, <1>3, <1>9 DEF FeedsTypeOK
<1>15. feed # "proposals" => \A r \in Rows : shown'[r] <= 1
  <2>1. SUFFICES ASSUME feed # "proposals", NEW r \in Rows PROVE shown'[r] <= 1
    OBVIOUS
  <2>2. shown[r] <= 1
    BY <2>1 DEF FeedsInv, FeedsAreComplete, WalkIsComplete
  <2> QED BY <1>9, <1>13, <2>1, <2>2
<1>16. WalkIsComplete'
  <2>1. ASSUME reader'.pc = "ended", NEW r \in steady PROVE shown'[r] >= 1
    <3>1. r \in Rows
      BY <1>3 DEF FeedsTypeOK
    <3>2. ~HasNext(page)
      BY <1>2, <2>1
    <3>3. CASE shown[r] = 0
      BY <1>4, <1>9, <1>10, <3>1, <3>2, <3>3
    <3>4. CASE shown[r] # 0
      BY <1>8, <1>9, <3>1, <3>4
    <3> QED BY <3>3, <3>4
  <2> QED BY <1>2, <1>15, <2>1 DEF WalkIsComplete
<1>17. RowsAreTimed' /\ KeysDiffer'
  BY <1>2, <1>7 DEF FeedsInv, RowsAreTimed, KeysDiffer, RowsOf
<1>18. ASSUME HasNext(page) PROVE last \in Rows /\ last \in RowsOf(feed) /\ row[last].state = "in"
  BY <1>4, <1>6, <1>18 DEF Rest, Listed
<1>19. ASSUME HasNext(page), feed = "proposals"
       PROVE  [pk |-> Key(last)[2], tag |-> 1] = last
  <2>1. last = [pk |-> last.pk, tag |-> last.tag] /\ last.tag = 1
    BY <1>18, <1>19 DEF Rows, RowsOf, Joined
  <2>2. Key(last)[2] = last.pk
    BY <1>19 DEF Key, KeyOf
  <2> QED BY <2>1, <2>2
<1>20. CursorIsAKey'
  <2>1. CASE HasNext(page)
    <3>1. reader'.cursor = Key(last) /\ reader'.pc = "walking"
      BY <1>2, <2>1
    <3> QED BY <1>2, <1>5, <1>18, <1>19, <2>1, <3>1 DEF CursorIsAKey
  <2>2. CASE ~HasNext(page)
    <3>1. reader'.cursor = reader.cursor /\ reader'.pc = "ended"
      BY <1>1, <1>2, <2>2
    <3> QED BY <1>2, <3>1 DEF FeedsInv, CursorIsAKey
  <2> QED BY <2>1, <2>2
<1>21. ShownWasThere'
  <2>1. \A r \in Rows : shown'[r] > 0 => row[r].state # "none"
    <3> TAKE r \in Rows
    <3>1. HAVE shown'[r] > 0
    <3>2. CASE r \in page
      BY <1>4, <3>2 DEF Rest, Listed
    <3>3. CASE r \notin page
      BY <1>9, <3>1, <3>3 DEF FeedsInv, ShownWasThere
    <3> QED BY <3>2, <3>3
  <2>2. reader'.pc = "ended" \/ reader'.cursor # NoCursor
    BY <1>2, <1>5, <1>18
  <2> QED BY <1>2, <2>1, <2>2 DEF ShownWasThere
<1>22. UnshownIsAhead'
  <2>1. steady' \subseteq Listed'
    BY <1>2 DEF FeedsInv, UnshownIsAhead, Listed
  <2>2. ASSUME reader'.pc = "walking", NEW r \in steady, shown'[r] = 0
        PROVE  Beyond(feed, Key(r), CursorNow')
    <3>1. HasNext(page) /\ reader'.cursor = Key(last)
      BY <1>2, <2>2
    <3>2. r \in Rows
      BY <1>3 DEF FeedsTypeOK
    <3>3. r \notin page /\ shown[r] = 0
      BY <1>8, <1>9, <2>2, <3>2
    <3>4. After(feed, Key(r), Key(last))
      BY <1>4, <1>10, <3>1, <3>3
    <3>5. CursorNow' = Key(last)
      BY <1>2, <1>7, <1>18, <1>19, <3>1 DEF CursorNow
    <3> QED BY <3>4, <3>5 DEF Beyond
  <2> QED BY <1>2, <1>3, <1>7, <2>1, <2>2 DEF UnshownIsAhead, FeedsTypeOK
<1>23. ShownIsBehind'
  <2>1. ASSUME feed # "proposals", reader'.pc = "walking", NEW r \in Rows, shown'[r] > 0
        PROVE  ~Beyond(feed, Key(r), reader'.cursor)
    <3>1. HasNext(page) /\ reader'.cursor = Key(last) /\ last \in page /\ last \in Rows
      BY <1>2, <1>4, <1>18, <2>1
    <3>2. SUFFICES ASSUME After(feed, Key(r), Key(last)) PROVE FALSE
      BY <3>1 DEF Beyond
    <3>3. CASE r \in page
      <4>1. r = last \/ After(feed, Key(last), Key(r))
        BY <1>4, <3>1, <3>3
      <4> QED BY <1>5, <3>1, <3>2, <4>1, AfterOrders
    <3>4. CASE r \notin page
      <4>1. shown[r] > 0
        BY <1>9, <2>1, <3>4
      <4>2. c # NoCursor
        BY <1>1, <1>2, <1>8, <4>1 DEF FeedsInv, ShownWasThere
      <4>3. After(feed, Key(last), c)
        BY <1>1, <1>4, <2>1, <3>1, <4>2 DEF Rest, CursorNow, Beyond
      <4>4. After(feed, Key(r), c)
        BY <1>5, <1>11, <3>1, <3>2, <4>3, AfterOrders
      <4> QED BY <1>1, <1>2, <2>1, <4>1, <4>2, <4>4 DEF FeedsInv, ShownIsBehind, Beyond
    <3> QED BY <3>3, <3>4
  <2> QED BY <1>2, <1>7, <2>1 DEF ShownIsBehind
<1> QED BY <1>14, <1>16, <1>17, <1>20, <1>21, <1>22, <1>23 DEF FeedsInv, FeedsAreComplete

LEMMA FeedsStep == FeedsInv /\ [FeedsNext]_feedVars => FeedsInv'
<1> SUFFICES ASSUME FeedsInv, [FeedsNext]_feedVars PROVE FeedsInv'
  OBVIOUS
<1>1. CASE StartWalk
  BY <1>1, StartWalkKeeps
<1>2. CASE ReadPage
  BY <1>2, ReadPageKeeps
<1>3. CASE ClockMoves
  BY <1>3, ClockKeeps DEF ClockMoves
<1>4. ASSUME NEW r \in Rows, OpenRow(r) \/ CommitRow(r) \/ LeaveFeed(r) \/ EscalateRow(r)
      PROVE  FeedsInv'
  BY <1>4, OpenRowKeeps, RowsKeep
<1>5. CASE UNCHANGED feedVars
  BY <1>5, ClockKeeps DEF feedVars
<1> QED BY <1>1, <1>2, <1>3, <1>4, <1>5 DEF FeedsNext

\* Whoever follows the links of a list to its end has been shown every row that
\* stayed in it, and none twice (the queue of proposals apart), for any number
\* of rows, any page size, and whatever other requests do between the pages.
THEOREM FeedsComplete == FeedsSpec => []FeedsAreComplete
<1>1. FeedsInv => FeedsAreComplete
  BY DEF FeedsInv
<1> QED BY FeedsStart, FeedsStep, <1>1, PTL DEF FeedsSpec

(***************************************************************************)
(* Search.                                                                 *)
(***************************************************************************)
SortNames == {"distance", "security", "rating", "recently_verified", "recommended"}

\* Keys are numbers.
LEMMA SortKeyIsNumber ==
  ASSUME NEW sort \in SortNames, NEW o \in Here, NEW f \in Facts
  PROVE  SortKey(sort, o, f) \in Int
<1>1. /\ f.near \in Int /\ f.yes \in Int /\ f.rating2 \in Int /\ f.age \in Int
  BY SearchConstantsOK
<1>2. Distance(o, f) \in Int
  BY <1>1 DEF Distance
<1>3. FreshnessScore(f.age) \in Int
  <2>1. \/ f.age < 0 \/ f.age \in 0..29 \/ f.age \in 30..89 \/ f.age \in 90..179
        \/ f.age \in 180..364 \/ f.age > 364
    BY <1>1
  <2> QED BY <2>1 DEF FreshnessScore
<1>4. Score(o, f) \in Int
  <2>1. PICK d \in Int : d = Distance(o, f)
    BY <1>2
  <2>2. PICK a \in Int : a = 35 * (40 - (40 * d) \div Radius)
    BY DEF Radius
  <2>3. PICK b \in Int : b = FreshnessScore(f.age)
    BY <1>3
  <2> QED BY <1>1, <2>1, <2>2, <2>3 DEF Score
<1>5. CASE sort = "distance"
  BY <1>2, <1>5 DEF SortKey
<1>6. CASE sort = "security"
  BY <1>1, <1>6 DEF SortKey
<1>7. CASE sort = "rating"
  BY <1>1, <1>7 DEF SortKey
<1>8. CASE sort = "recently_verified"
  BY <1>1, <1>8 DEF SortKey
<1>9. CASE sort = "recommended"
  BY <1>4, <1>9 DEF SortKey
<1> QED BY <1>5, <1>6, <1>7, <1>8, <1>9 DEF SortNames

\* The pairs of listings in the order of a sort.
RankPairs(sort, o) ==
  {p \in Spots \X Spots : Ranks(sort, o, p[2], SortKey(sort, o, spot[p[1]]), p[1])}

\* A sort orders the listings, and its best are the first in that order.
LEMMA RanksOrder ==
  ASSUME SearchTypeOK, NEW sort \in SortNames, NEW o \in Here, NEW S \in SUBSET Spots
  PROVE  /\ \A t, s \in Spots : /\ SortKey(sort, o, spot[s]) \in Int
                                /\ <<t, s>> \in RankPairs(sort, o) <=>
                                     Ranks(sort, o, s, SortKey(sort, o, spot[t]), t)
         /\ IsFiniteSet(S) /\ Orders(RankPairs(sort, o), S)
         /\ \A n \in Nat : Best(n, sort, o, S) = FirstOf(RankPairs(sort, o), S, n)
<1>1. PICK R : R = RankPairs(sort, o)
  OBVIOUS
<1>2. PICK K : K = [s \in Spots |-> SortKey(sort, o, spot[s])]
  OBVIOUS
<1>3. \A s \in Spots : s \in Nat /\ K[s] \in Int /\ K[s] = SortKey(sort, o, spot[s])
  BY <1>2, SearchConstantsOK, SortKeyIsNumber DEF SearchTypeOK
<1>4. \A t, s \in Spots : <<t, s>> \in R <=> Ranks(sort, o, s, SortKey(sort, o, spot[t]), t)
  BY <1>1 DEF RankPairs
<1>5. \A t, s \in Spots : <<t, s>> \in R <=> K[s] > K[t] \/ (K[s] = K[t] /\ s > t)
  BY <1>3, <1>4 DEF Ranks
<1>6. IsFiniteSet(S)
  BY SearchConstantsOK, FS_Subset
<1>7. Orders(R, S)
  <2>1. \A r \in S : <<r, r>> \notin R
    BY <1>3, <1>5
  <2>2. \A q, r, s \in S : <<q, r>> \in R /\ <<r, s>> \in R => <<q, s>> \in R
    BY <1>3, <1>5
  <2>3. \A q, r \in S : q # r => <<q, r>> \in R \/ <<r, q>> \in R
    BY <1>3, <1>5
  <2> QED BY <2>1, <2>2, <2>3 DEF Orders
<1>8. ASSUME NEW n \in Nat PROVE Best(n, sort, o, S) = FirstOf(R, S, n)
  <2>1. \A s \in S : Preceding(R, S, s) = {t \in S : Ranks(sort, o, s, SortKey(sort, o, spot[t]), t)}
    BY <1>4 DEF Preceding
  <2> QED BY <2>1 DEF Best, FirstOf
<1> QED BY <1>1, <1>3, <1>4, <1>6, <1>7, <1>8

\* The best n of a set of listings are at most n of them.
LEMMA BestIsBounded ==
  ASSUME SearchTypeOK, NEW sort \in SortNames, NEW o \in Here, NEW S \in SUBSET Spots,
         NEW n \in Nat \ {0}
  PROVE  /\ Best(n, sort, o, S) \subseteq S /\ IsFiniteSet(Best(n, sort, o, S))
         /\ Cardinality(Best(n, sort, o, S)) \in Nat /\ Cardinality(Best(n, sort, o, S)) <= n
<1>1. PICK R : R = RankPairs(sort, o)
  OBVIOUS
<1>2. IsFiniteSet(S) /\ Orders(R, S) /\ Best(n, sort, o, S) = FirstOf(R, S, n)
  BY <1>1, RanksOrder
<1> QED BY <1>2, FirstOfFacts

\* Two ranks in a row are one rank.
LEMMA RanksCompose ==
  ASSUME SearchTypeOK, NEW sort \in SortNames, NEW o \in Here,
         NEW s \in Spots, NEW t \in Spots, NEW v \in Int, NEW i \in Nat,
         Ranks(sort, o, s, SortKey(sort, o, spot[t]), t), Ranks(sort, o, t, v, i)
  PROVE  Ranks(sort, o, s, v, i)
<1>1. PICK a, b : a = SortKey(sort, o, spot[s]) /\ b = SortKey(sort, o, spot[t])
  OBVIOUS
<1>2. a \in Int /\ b \in Int /\ s \in Nat /\ t \in Nat
  BY <1>1, SearchConstantsOK, SortKeyIsNumber DEF SearchTypeOK
<1>3. (a > b \/ (a = b /\ s > t)) /\ (b > v \/ (b = v /\ t > i))
  BY <1>1 DEF Ranks
<1>4. a > v \/ (a = v /\ s > i)
  BY <1>2, <1>3
<1> QED BY <1>1, <1>4 DEF Ranks

LEMMA NotBothRank ==
  ASSUME SearchTypeOK, NEW sort \in SortNames, NEW o \in Here,
         NEW s \in Spots, NEW t \in Spots,
         s = t \/ Ranks(sort, o, t, SortKey(sort, o, spot[s]), s)
  PROVE  ~Ranks(sort, o, s, SortKey(sort, o, spot[t]), t)
<1>1. PICK a, b : a = SortKey(sort, o, spot[s]) /\ b = SortKey(sort, o, spot[t])
  OBVIOUS
<1>2. a \in Int /\ b \in Int /\ s \in Nat /\ t \in Nat
  BY <1>1, SearchConstantsOK, SortKeyIsNumber DEF SearchTypeOK
<1>3. s = t \/ b > a \/ (b = a /\ t > s)
  BY <1>1 DEF Ranks
<1>4. ~(a > b \/ (a = b /\ s > t))
  BY <1>1, <1>2, <1>3
<1> QED BY <1>1, <1>4 DEF Ranks

\* A page of a search: what is shown when it is the last is all that was left;
\* what is left of a longer list comes after the last row that is shown.
LEMMA ItemsFacts ==
  ASSUME SearchTypeOK, NEW sort \in SortNames, NEW o \in Here, NEW S \in SUBSET Spots,
         NEW rows, rows = Best(PageSize + 1, sort, o, S),
         NEW items, items = Best(PageSize, sort, o, rows),
         NEW last, last = CHOOSE s \in items : \A t \in items \ {s} :
                            Ranks(sort, o, s, SortKey(sort, o, spot[t]), t)
  PROVE  /\ items \subseteq S /\ Cardinality(items) <= PageSize
         /\ ~(Cardinality(rows) > PageSize) => items = S
         /\ Cardinality(rows) > PageSize =>
              /\ last \in items
              /\ \A t \in items : t # last => Ranks(sort, o, last, SortKey(sort, o, spot[t]), t)
              /\ \A s \in S \ items : Ranks(sort, o, s, SortKey(sort, o, spot[last]), last)
<1>1. PICK R, n : R = RankPairs(sort, o) /\ n = PageSize
  OBVIOUS
<1>2. n \in Nat /\ n # 0 /\ n + 1 \in Nat /\ n + 1 # 0
  BY <1>1, SearchConstantsOK
<1>3. \A t, s \in Spots : <<t, s>> \in R <=> Ranks(sort, o, s, SortKey(sort, o, spot[t]), t)
  BY <1>1, RanksOrder
<1>4. IsFiniteSet(S) /\ Orders(R, S) /\ rows = FirstOf(R, S, n + 1)
  BY <1>1, <1>2, RanksOrder
<1>5. /\ rows \subseteq S /\ IsFiniteSet(rows) /\ Cardinality(rows) \in Nat
      /\ rows # S => Cardinality(rows) = n + 1
      /\ \A p \in rows, q \in S \ rows : <<p, q>> \in R
  BY <1>2, <1>4, FirstOfFacts
<1>6. rows \subseteq Spots
  BY <1>5
<1>7. IsFiniteSet(rows) /\ Orders(R, rows) /\ items = FirstOf(R, rows, n)
  BY <1>1, <1>2, <1>6, RanksOrder
<1>8. /\ items \subseteq rows /\ IsFiniteSet(items) /\ Cardinality(items) \in Nat
      /\ Cardinality(items) <= n
      /\ items # rows => Cardinality(items) = n
      /\ items = {} => rows = {}
      /\ \A p \in items, q \in rows \ items : <<p, q>> \in R
  BY <1>2, <1>7, FirstOfFacts
<1>9. items # rows => Cardinality(items) < Cardinality(rows)
  BY <1>5, <1>8, FS_Subset
<1>10. ~(Cardinality(rows) > n) => items = S
  BY <1>2, <1>5, <1>8, <1>9
<1>11. ASSUME Cardinality(rows) > n PROVE items # {}
  <2>1. rows # {}
    BY <1>2, <1>5, <1>11, FS_EmptySet
  <2> QED BY <1>8, <2>1
<1>12. ASSUME Cardinality(rows) > n
       PROVE  /\ last \in items
              /\ \A t \in items : t # last => Ranks(sort, o, last, SortKey(sort, o, spot[t]), t)
  <2>1. PICK s \in items : \A t \in items : t # s => <<t, s>> \in R
    BY <1>7, <1>8, <1>11, <1>12, LastRow
  <2>2. \A t \in items \ {s} : Ranks(sort, o, s, SortKey(sort, o, spot[t]), t)
    BY <1>3, <1>6, <1>8, <2>1
  <2> QED BY <2>2
<1>13. ASSUME Cardinality(rows) > n, NEW s \in S \ items
       PROVE  Ranks(sort, o, s, SortKey(sort, o, spot[last]), last)
  <2>1. <<last, s>> \in R
    BY <1>5, <1>8, <1>12, <1>13
  <2>2. last \in Spots /\ s \in Spots
    BY <1>6, <1>8, <1>12, <1>13
  <2> QED BY <1>3, <2>1, <2>2
<1> QED BY <1>1, <1>5, <1>8, <1>10, <1>12, <1>13

\* The request's record, field by field.
LEMMA FinderFields ==
  ASSUME SearchTypeOK
  PROVE  /\ finder.pc \in {"idle", "resolve", "count", "rows", "clusters", "ended"}
         /\ finder.origin \in Here /\ finder.total \in 0..Cardinality(Spots)
         /\ finder.cursor \in {NoText, Cut} \cup [s : Sorts, v : Int, id : Spots]
         /\ finder.drawn \subseteq Spots /\ finder.first \in BOOLEAN
         /\ asked.mode \in {"radius", "browse"} /\ asked.sort \in Sorts /\ asked.sort \in SortNames
         /\ Cardinality(Spots) \in Nat
<1>1. asked.sort \in Sorts /\ asked.mode \in {"radius", "browse"}
  BY DEF SearchTypeOK
<1>2. asked.sort \in SortNames
  BY <1>1, SearchConstantsOK DEF SortNames
<1>3. Cardinality(Spots) \in Nat
  BY SearchConstantsOK, FS_CardinalityType
<1> QED BY <1>1, <1>2, <1>3 DEF SearchTypeOK

LEMMA SearchStart == SearchInit => SearchInv
<1> SUFFICES ASSUME SearchInit PROVE SearchInv
  OBVIOUS
<1>1. /\ spot \in [Spots -> Facts] /\ provider = "here" /\ changes = 0
      /\ finder = [pc |-> "idle", origin |-> "here", cursor |-> NoText, total |-> 0,
                   drawn |-> {}, first |-> TRUE]
      /\ found = [s \in Spots |-> 0] /\ unmoved = {}
  BY DEF SearchInit
<1>2. asked \in Requested
  <2>1. PICK x \in Sorts : TRUE
    BY SearchConstantsOK
  <2>2. [mode |-> "browse", sort |-> x, open_now |-> FALSE] \in Requested
    BY DEF Requested
  <2>3. \E q \in Requested : q.mode = "browse"
    BY <2>2
  <2>4. asked = CHOOSE q \in Requested : q.mode = "browse"
    BY DEF SearchInit
  <2> QED BY <2>3, <2>4
<1>3. Cardinality(Spots) \in Nat /\ MaxChanges \in Nat
  BY SearchConstantsOK, FS_CardinalityType
<1>4. SearchTypeOK
  <2>1. finder \in [pc : {"idle", "resolve", "count", "rows", "clusters", "ended"}, origin : Here,
                    cursor : {NoText, Cut} \cup [s : Sorts, v : Int, id : Spots],
                    total : 0..Cardinality(Spots), drawn : SUBSET Spots, first : BOOLEAN]
    BY <1>1, <1>3 DEF Here
  <2> QED BY <1>1, <1>2, <1>3, <2>1 DEF SearchTypeOK, Requested, Here
<1>5. SearchWalkIsComplete
  BY <1>1 DEF SearchWalkIsComplete
<1>6. DrawnIsBounded
  BY <1>1, SearchConstantsOK, FS_EmptySet DEF DrawnIsBounded
<1>7. UnmovedMatches /\ FirstPageIsFresh /\ LaterPagesGoOn
  BY <1>1 DEF UnmovedMatches, FirstPageIsFresh, LaterPagesGoOn, Underway
<1>8. NothingIsPromised
  BY <1>1 DEF NothingIsPromised
<1> QED BY <1>4, <1>5, <1>6, <1>7, <1>8 DEF SearchInv, SearchIsSound

LEMMA AskKeepsSearch ==
  ASSUME SearchInv, NEW q \in Requested, NEW text \in {NoText, Cut, finder.cursor}, Ask(q, text)
  PROVE  SearchInv'
<1>1. /\ asked' = q /\ Decode(text).sort # q.sort
      /\ finder' = [pc |-> IF q.mode = "browse" THEN "count" ELSE "resolve", origin |-> "here",
                    cursor |-> text, total |-> 0, drawn |-> {}, first |-> TRUE]
      /\ found' = [s \in Spots |-> 0] /\ unmoved' = Spots
      /\ UNCHANGED <<spot, provider, changes>>
  BY DEF Ask
<1>2. SearchTypeOK
  BY DEF SearchInv, SearchIsSound
<1>3. text \in {NoText, Cut} \cup [s : Sorts, v : Int, id : Spots] /\ Cardinality(Spots) \in Nat
  BY <1>2, FinderFields
<1>4. q.mode \in {"radius", "browse"}
  BY DEF Requested
<1>5. SearchTypeOK'
  <2>1. finder' \in [pc : {"idle", "resolve", "count", "rows", "clusters", "ended"}, origin : Here,
                    cursor : {NoText, Cut} \cup [s : Sorts, v : Int, id : Spots],
                    total : 0..Cardinality(Spots), drawn : SUBSET Spots, first : BOOLEAN]
    BY <1>1, <1>3 DEF Here
  <2> QED BY <1>1, <1>2, <2>1 DEF SearchTypeOK, Requested
<1>6. /\ finder'.pc = (IF q.mode = "browse" THEN "count" ELSE "resolve")
      /\ finder'.cursor = text /\ finder'.drawn = {} /\ finder'.first = TRUE
  BY <1>1
<1>7. \A s \in Spots : found'[s] = 0
  BY <1>1
<1>8. SearchWalkIsComplete'
  BY <1>1, <1>6, <1>7 DEF SearchWalkIsComplete
<1>9. DrawnIsBounded'
  BY <1>6, SearchConstantsOK, FS_EmptySet DEF DrawnIsBounded
<1>10. UnmovedMatches'
  BY <1>1, <1>4, <1>6 DEF UnmovedMatches, Underway
<1>11. FirstPageIsFresh'
  BY <1>1, <1>6, <1>7 DEF FirstPageIsFresh, Usable
<1>12. LaterPagesGoOn' /\ NothingIsPromised'
  BY <1>6 DEF LaterPagesGoOn, NothingIsPromised
<1> QED BY <1>5, <1>8, <1>9, <1>10, <1>11, <1>12 DEF SearchInv, SearchIsSound

LEMMA ResolveKeeps ==
  ASSUME SearchInv, ResolveOrigin
  PROVE  SearchInv'
<1>1. finder.pc = "resolve" /\ UNCHANGED <<spot, provider, asked, found, changes>>
  BY DEF ResolveOrigin
<1>2. SearchTypeOK
  BY DEF SearchInv, SearchIsSound
<1>3. PICK o, p : o = finder.origin /\ p = provider /\ o \in Here /\ p \in Here
  BY <1>2, FinderFields DEF SearchTypeOK
<1>4. CASE /\ finder' = [finder EXCEPT !.pc = "count", !.origin = provider]
           /\ unmoved' = IF finder.first THEN Matching(provider)
                         ELSE StillThere(spot, spot, finder.origin, provider)
  <2>1. /\ finder'.pc = "count" /\ finder'.origin = p /\ finder'.cursor = finder.cursor
        /\ finder'.drawn = finder.drawn /\ finder'.first = finder.first
        /\ finder' \in [pc : {"idle", "resolve", "count", "rows", "clusters", "ended"}, origin : Here,
                    cursor : {NoText, Cut} \cup [s : Sorts, v : Int, id : Spots],
                    total : 0..Cardinality(Spots), drawn : SUBSET Spots, first : BOOLEAN]
    BY <1>2, <1>3, <1>4 DEF SearchTypeOK
  <2>2. /\ finder.first => unmoved' = Matching(p)
        /\ ~finder.first => unmoved' = StillThere(spot, spot, o, p)
    BY <1>3, <1>4
  <2>3. unmoved' \subseteq Matching(p) /\ unmoved' \subseteq Spots
    <3>1. CASE finder.first
      BY <2>2, <3>1 DEF Matching
    <3>2. CASE ~finder.first
      BY <1>2, <2>2, <3>2 DEF StillThere, Matching, SearchTypeOK
    <3> QED BY <3>1, <3>2
  <2>4. SearchTypeOK'
    BY <1>1, <1>2, <2>1, <2>3 DEF SearchTypeOK
  <2>5. DrawnIsBounded'
    BY <1>1, <2>1 DEF SearchInv, SearchIsSound, DrawnIsBounded
  <2>6. UnmovedMatches'
    BY <1>1, <2>1, <2>3 DEF UnmovedMatches, Matching
  <2>7. FirstPageIsFresh'
    BY <1>1, <2>1 DEF SearchInv, FirstPageIsFresh, Underway
  <2>8. ASSUME asked.mode = "radius", ~finder.first, NEW c, c = Decode(finder.cursor)
        PROVE  /\ Usable(asked.sort, c) /\ c.v \in Int /\ c.id \in Spots
               /\ \A s \in unmoved' : IF Ranks(asked.sort, p, s, c.v, c.id)
                                      THEN found[s] = 0 ELSE found[s] = 1
    <3>1. Usable(asked.sort, c) /\ c.v \in Int /\ c.id \in Spots
      BY <1>1, <2>8 DEF SearchInv, LaterPagesGoOn, Underway
    <3>2. \A s \in unmoved : IF Ranks(asked.sort, o, s, c.v, c.id) THEN found[s] = 0 ELSE found[s] = 1
      BY <1>1, <1>3, <2>8 DEF SearchInv, LaterPagesGoOn, Underway
    <3>3. \A s \in unmoved' : /\ s \in unmoved
                              /\ SortKey(asked.sort, p, spot[s]) = SortKey(asked.sort, o, spot[s])
      BY <2>2, <2>8 DEF StillThere
    <3>4. \A s \in unmoved' : Ranks(asked.sort, p, s, c.v, c.id) <=> Ranks(asked.sort, o, s, c.v, c.id)
      BY <3>3 DEF Ranks
    <3> QED BY <3>1, <3>2, <3>3, <3>4
  <2>9. LaterPagesGoOn'
    <3> SUFFICES ASSUME Underway', ~finder'.first, NEW c, c = Decode(finder'.cursor)
                 PROVE  /\ Usable(asked'.sort, c) /\ c.v \in Int /\ c.id \in Spots
                        /\ \A s \in unmoved' : IF Ranks(asked.sort, finder.origin, s, c.v, c.id)'
                                               THEN found'[s] = 0 ELSE found'[s] = 1
      BY DEF LaterPagesGoOn
    <3>1. asked' = asked /\ found' = found /\ spot' = spot
      BY <1>1
    <3>2. asked.mode = "radius" /\ ~finder.first /\ c = Decode(finder.cursor)
      BY <2>1, <3>1 DEF Underway
    <3> QED BY <2>1, <2>8, <3>1, <3>2 DEF Ranks
  <2>10. SearchWalkIsComplete'
    <3>1. asked' = asked /\ found' = found /\ finder'.pc # "ended"
      BY <1>1, <2>1
    <3>2. ASSUME asked.mode = "radius", NEW s \in unmoved' PROVE found[s] <= 1
      <4>1. CASE finder.first
        <5>1. found[s] = 0
          BY <1>1, <2>3, <3>2, <4>1 DEF SearchInv, FirstPageIsFresh, Underway
        <5> QED BY <5>1
      <4>2. CASE ~finder.first
        <5>1. found[s] = 0 \/ found[s] = 1
          BY <2>8, <3>2, <4>2
        <5> QED BY <5>1
      <4> QED BY <4>1, <4>2
    <3> QED BY <3>1, <3>2 DEF SearchWalkIsComplete
  <2>11. NothingIsPromised'
    BY <2>1 DEF NothingIsPromised
  <2> QED BY <2>4, <2>5, <2>6, <2>7, <2>9, <2>10, <2>11 DEF SearchInv, SearchIsSound
<1>5. CASE finder' = [finder EXCEPT !.pc = "idle", !.cursor = NoText] /\ unmoved' = {}
  <2>1. /\ finder'.pc = "idle" /\ finder'.drawn = finder.drawn
        /\ finder' \in [pc : {"idle", "resolve", "count", "rows", "clusters", "ended"}, origin : Here,
                    cursor : {NoText, Cut} \cup [s : Sorts, v : Int, id : Spots],
                    total : 0..Cardinality(Spots), drawn : SUBSET Spots, first : BOOLEAN]
    BY <1>2, <1>5 DEF SearchTypeOK
  <2>2. SearchTypeOK'
    BY <1>1, <1>2, <1>5, <2>1 DEF SearchTypeOK
  <2>3. DrawnIsBounded'
    BY <1>1, <2>1 DEF SearchInv, SearchIsSound, DrawnIsBounded
  <2>4. UnmovedMatches' /\ FirstPageIsFresh' /\ LaterPagesGoOn'
    BY <2>1 DEF UnmovedMatches, FirstPageIsFresh, LaterPagesGoOn, Underway
  <2>5. SearchWalkIsComplete' /\ NothingIsPromised'
    BY <1>5, <2>1 DEF SearchWalkIsComplete, NothingIsPromised
  <2> QED BY <2>2, <2>3, <2>4, <2>5 DEF SearchInv, SearchIsSound
<1> QED BY <1>4, <1>5 DEF ResolveOrigin

\* A step of the request that moves no cursor and shows nothing, or that ends it
\* with nothing promised: what is left to check.
LEMMA CountKeeps ==
  ASSUME SearchInv, CountMatches
  PROVE  SearchInv'
<1>1. PICK n, o : n = Cardinality(Matching(finder.origin)) /\ o = finder.origin
  OBVIOUS
<1>2. /\ finder.pc = "count" /\ UNCHANGED <<spot, provider, asked, found, changes>>
      /\ unmoved' = unmoved \cap Matching(o)
      /\ finder' = [finder EXCEPT !.total = n,
                  !.pc = IF asked.mode = "browse" /\ n > MarkerCap THEN "clusters" ELSE "rows"]
  BY <1>1 DEF CountMatches
<1>3. SearchTypeOK
  BY DEF SearchInv, SearchIsSound
<1>4. n \in 0..Cardinality(Spots)
  <2>1. Matching(o) \subseteq Spots
    BY DEF Matching
  <2>2. IsFiniteSet(Matching(o)) /\ n <= Cardinality(Spots)
    BY <1>1, <2>1, SearchConstantsOK, FS_Subset
  <2> QED BY <1>1, <1>3, <2>2, FS_CardinalityType, FinderFields
<1>5. /\ finder'.pc = IF asked.mode = "browse" /\ n > MarkerCap THEN "clusters" ELSE "rows"
      /\ finder'.origin = o /\ finder'.cursor = finder.cursor
      /\ finder'.drawn = finder.drawn /\ finder'.first = finder.first
      /\ finder' \in [pc : {"idle", "resolve", "count", "rows", "clusters", "ended"}, origin : Here,
                    cursor : {NoText, Cut} \cup [s : Sorts, v : Int, id : Spots],
                    total : 0..Cardinality(Spots), drawn : SUBSET Spots, first : BOOLEAN]
  BY <1>1, <1>2, <1>3, <1>4 DEF SearchTypeOK
<1>6. SearchTypeOK'
  BY <1>2, <1>3, <1>5 DEF SearchTypeOK
<1>7. DrawnIsBounded'
  BY <1>2, <1>5 DEF SearchInv, SearchIsSound, DrawnIsBounded
<1>8. SearchWalkIsComplete'
  BY <1>2, <1>5 DEF SearchInv, SearchIsSound, SearchWalkIsComplete
<1>9. UnmovedMatches'
  BY <1>2, <1>5 DEF UnmovedMatches, Matching
<1>10. FirstPageIsFresh'
  BY <1>2, <1>5 DEF SearchInv, FirstPageIsFresh, Underway
<1>11. LaterPagesGoOn'
  BY <1>1, <1>2, <1>5 DEF SearchInv, LaterPagesGoOn, Underway, Ranks
<1>12. NothingIsPromised'
  BY <1>2, <1>5 DEF NothingIsPromised
<1> QED BY <1>6, <1>7, <1>8, <1>9, <1>10, <1>11, <1>12 DEF SearchInv, SearchIsSound

\* What a page adds to the counts.
LEMMA ShowingFacts ==
  ASSUME SearchTypeOK, NEW S, found' = Showing(S)
  PROVE  /\ found' \in [Spots -> 0..2]
         /\ \A s \in Spots : /\ s \notin S => found'[s] = found[s]
                             /\ s \in S /\ found[s] = 0 => found'[s] = 1
<1>1. \A s \in Spots : found[s] \in 0..2
  BY DEF SearchTypeOK
<1>2. \A s \in Spots : found'[s] = IF s \in S /\ found[s] < 2 THEN found[s] + 1 ELSE found[s]
  BY DEF Showing
<1>3. \A s \in Spots : found'[s] \in 0..2
  BY <1>1, <1>2
<1>4. found' \in [Spots -> 0..2]
  BY <1>3 DEF Showing
<1> QED BY <1>1, <1>2, <1>4

\* The second statement and the link to the next page.
LEMMA ReadRowsKeeps ==
  ASSUME SearchInv, ReadRows
  PROVE  SearchInv'
<1>1. PICK o, rows, items, last :
        /\ o = finder.origin /\ rows = PageRows(o)
        /\ items = Best(PageSize, asked.sort, o, rows)
        /\ last = CHOOSE s \in items : \A t \in items \ {s} :
                    Ranks(asked.sort, o, s, SortKey(asked.sort, o, spot[t]), t)
  OBVIOUS
<1>2. PICK k : k = Encode([sort |-> asked.sort, id |-> last, v |-> SortKey(asked.sort, o, spot[last])])
  OBVIOUS
<1>3. /\ finder.pc = "rows" /\ asked.mode = "radius"
      /\ UNCHANGED <<spot, provider, asked, unmoved, changes>>
      /\ found' = Showing(items)
      /\ finder' = IF Cardinality(rows) > PageSize
                   THEN [finder EXCEPT !.pc = "resolve", !.drawn = items, !.first = FALSE, !.cursor = k]
                   ELSE [finder EXCEPT !.pc = "ended", !.drawn = items]
  BY <1>1, <1>2 DEF ReadRows
<1>4. SearchTypeOK
  BY DEF SearchInv, SearchIsSound
<1>5. /\ o \in Here /\ asked.sort \in Sorts /\ asked.sort \in SortNames
      /\ finder.cursor \in {NoText, Cut} \cup [s : Sorts, v : Int, id : Spots]
  BY <1>1, <1>4, FinderFields
<1>6. PICK S : S = Later(o, Matching(o))
  OBVIOUS
<1>7. S \subseteq Matching(o) /\ Matching(o) \subseteq Spots
  BY <1>6 DEF Later, Matching
<1>8. rows = Best(PageSize + 1, asked.sort, o, S)
  BY <1>1, <1>6 DEF PageRows
<1>9. /\ items \subseteq S /\ Cardinality(items) <= PageSize
      /\ ~(Cardinality(rows) > PageSize) => items = S
      /\ Cardinality(rows) > PageSize =>
           /\ last \in items
           /\ \A t \in items : t # last => Ranks(asked.sort, o, last, SortKey(asked.sort, o, spot[t]), t)
           /\ \A s \in S \ items : Ranks(asked.sort, o, s, SortKey(asked.sort, o, spot[last]), last)
  <2>1. S \in SUBSET Spots
    BY <1>7
  <2> QED BY ONLY <1>1, <1>4, <1>5, <1>8, <2>1, ItemsFacts
<1>10. /\ found' \in [Spots -> 0..2]
       /\ \A s \in Spots : /\ s \notin items => found'[s] = found[s]
                           /\ s \in items /\ found[s] = 0 => found'[s] = 1
  BY <1>3, <1>4, ShowingFacts
<1>11. unmoved \subseteq Matching(o) /\ unmoved \subseteq Spots
  BY <1>1, <1>3, <1>7 DEF SearchInv, UnmovedMatches, Underway
\* what stayed and was not shown is on the list, and what was shown is not
<1>12. \A s \in unmoved : IF s \in S THEN found[s] = 0 ELSE found[s] = 1
  <2>1. CASE finder.first
    <3>1. ~Usable(asked.sort, Decode(finder.cursor)) /\ \A s \in Spots : found[s] = 0
      BY <1>3, <2>1 DEF SearchInv, FirstPageIsFresh, Underway
    <3>2. S = Matching(o)
      BY <1>6, <3>1 DEF Later
    <3> QED BY <1>11, <3>1, <3>2
  <2>2. CASE ~finder.first
    <3>1. PICK c : c = Decode(finder.cursor)
      OBVIOUS
    <3>2. /\ Usable(asked.sort, c)
          /\ \A s \in unmoved : IF Ranks(asked.sort, o, s, c.v, c.id) THEN found[s] = 0 ELSE found[s] = 1
      BY <1>1, <1>3, <2>2, <3>1 DEF SearchInv, LaterPagesGoOn, Underway
    <3>3. S = {s \in Matching(o) : Ranks(asked.sort, o, s, c.v, c.id)}
      BY <1>6, <3>1, <3>2 DEF Later
    <3> QED BY <1>11, <3>2, <3>3
  <2> QED BY <2>1, <2>2
<1>13. items \subseteq Spots
  BY <1>7, <1>9
<1>14. DrawnIsBounded'
  <2>1. finder'.drawn = items
    BY <1>3, <1>4 DEF SearchTypeOK
  <2> QED BY <1>3, <1>9, <2>1 DEF DrawnIsBounded
<1>15. CASE ~(Cardinality(rows) > PageSize)
  <2>1. /\ finder'.pc = "ended"
        /\ finder' \in [pc : {"idle", "resolve", "count", "rows", "clusters", "ended"}, origin : Here,
                    cursor : {NoText, Cut} \cup [s : Sorts, v : Int, id : Spots],
                    total : 0..Cardinality(Spots), drawn : SUBSET Spots, first : BOOLEAN]
    BY <1>3, <1>4, <1>13, <1>15 DEF SearchTypeOK
  <2>2. SearchTypeOK'
    BY <1>3, <1>4, <1>10, <2>1 DEF SearchTypeOK
  <2>3. \A s \in unmoved : found'[s] = 1
    BY <1>9, <1>10, <1>11, <1>12, <1>15
  <2>4. SearchWalkIsComplete'
    BY <1>3, <2>3 DEF SearchWalkIsComplete
  <2>5. UnmovedMatches' /\ FirstPageIsFresh' /\ LaterPagesGoOn' /\ NothingIsPromised'
    BY <2>1 DEF UnmovedMatches, FirstPageIsFresh, LaterPagesGoOn, NothingIsPromised, Underway
  <2> QED BY <1>14, <2>2, <2>4, <2>5 DEF SearchInv, SearchIsSound
<1>16. CASE Cardinality(rows) > PageSize
  <2>1. PICK v : v = SortKey(asked.sort, o, spot[last])
    OBVIOUS
  <2>2. v \in Int /\ last \in Spots /\ last \in items /\ last \in S /\ last \in Nat
    BY <1>4, <1>5, <1>9, <1>13, <1>16, <2>1, SortKeyIsNumber, SearchConstantsOK DEF SearchTypeOK
  <2>3. k = [s |-> asked.sort, v |-> v, id |-> last] /\ k \in [s : Sorts, v : Int, id : Spots]
    BY <1>2, <1>5, <2>1, <2>2 DEF Encode
  <2>4. Decode(k) = [sort |-> asked.sort, v |-> v, id |-> last]
    <3>1. DOMAIN k = {"s", "v", "id"} /\ k.s = asked.sort /\ k.v = v /\ k.id = last
      BY <2>3
    <3> QED BY <1>5, <3>1 DEF Decode
  <2>5. /\ finder'.pc = "resolve" /\ finder'.first = FALSE /\ finder'.cursor = k /\ finder'.origin = o
        /\ finder' \in [pc : {"idle", "resolve", "count", "rows", "clusters", "ended"}, origin : Here,
                    cursor : {NoText, Cut} \cup [s : Sorts, v : Int, id : Spots],
                    total : 0..Cardinality(Spots), drawn : SUBSET Spots, first : BOOLEAN]
    BY <1>1, <1>3, <1>4, <1>13, <1>16, <2>3 DEF SearchTypeOK
  <2>6. SearchTypeOK'
    BY <1>3, <1>4, <1>10, <2>5 DEF SearchTypeOK
  <2>7. ASSUME NEW s \in unmoved
        PROVE  IF Ranks(asked.sort, o, s, v, last) THEN found'[s] = 0 ELSE found'[s] = 1
    <3>1. s \in Spots
      BY <1>11
    <3>2. CASE s \in items
      <4>1. found'[s] = 1
        BY <1>9, <1>10, <1>12, <3>1, <3>2
      <4>2. s = last \/ Ranks(asked.sort, o, last, SortKey(asked.sort, o, spot[s]), s)
        BY <1>9, <1>16, <3>2
      <4>3. ~Ranks(asked.sort, o, s, v, last)
        BY <1>4, <1>5, <2>1, <2>2, <3>1, <4>2, NotBothRank
      <4> QED BY <4>1, <4>3
    <3>3. CASE s \in S \ items
      <4>1. Ranks(asked.sort, o, s, v, last)
        BY <1>9, <1>16, <2>1, <3>3
      <4>2. found'[s] = 0
        BY <1>10, <1>12, <3>1, <3>3
      <4> QED BY <4>1, <4>2
    <3>4. CASE s \notin S
      <4>1. found'[s] = 1 /\ found[s] = 1
        BY <1>9, <1>10, <1>12, <3>1, <3>4
      <4>2. ~Ranks(asked.sort, o, s, v, last)
        <5>1. ~finder.first
          BY <1>3, <3>1, <4>1 DEF SearchInv, FirstPageIsFresh, Underway
        <5>2. PICK c : c = Decode(finder.cursor)
          OBVIOUS
        <5>3. Usable(asked.sort, c) /\ c.v \in Int /\ c.id \in Spots
          BY <1>3, <5>1, <5>2 DEF SearchInv, LaterPagesGoOn, Underway
        <5>4. S = {t \in Matching(o) : Ranks(asked.sort, o, t, c.v, c.id)}
          BY <1>6, <5>2, <5>3 DEF Later
        <5>5. Ranks(asked.sort, o, last, c.v, c.id) /\ ~Ranks(asked.sort, o, s, c.v, c.id)
          BY <1>11, <2>2, <3>4, <5>4
        <5>6. c.id \in Nat
          BY <5>3, SearchConstantsOK
        <5>7. SUFFICES ASSUME Ranks(asked.sort, o, s, v, last) PROVE FALSE
          OBVIOUS
        <5>8. Ranks(asked.sort, o, s, c.v, c.id)
          BY <1>4, <1>5, <2>1, <2>2, <3>1, <5>3, <5>5, <5>6, <5>7, RanksCompose
        <5> QED BY <5>5, <5>8
      <4> QED BY <4>1, <4>2
    <3> QED BY <3>2, <3>3, <3>4
  <2>8. SearchWalkIsComplete'
    <3>1. \A s \in unmoved : found'[s] <= 1
      BY <2>7
    <3> QED BY <1>3, <2>5, <3>1 DEF SearchWalkIsComplete
  <2>9. UnmovedMatches'
    BY <1>3, <1>11, <2>5 DEF UnmovedMatches, Matching
  <2>10. FirstPageIsFresh' /\ NothingIsPromised'
    BY <2>5 DEF FirstPageIsFresh, NothingIsPromised
  <2>11. LaterPagesGoOn'
    <3>1. asked' = asked /\ unmoved' = unmoved /\ spot' = spot
      BY <1>3
    <3>2. \A s \in unmoved : Ranks(asked.sort, finder.origin, s, v, last)' <=> Ranks(asked.sort, o, s, v, last)
      BY <2>5, <3>1 DEF Ranks
    <3>3. PICK c : c = Decode(k)
      OBVIOUS
    <3>4. c.sort = asked.sort /\ c.v = v /\ c.id = last
      BY <2>4, <3>3
    <3>5. Usable(asked.sort, c)
      <4>1. c # NoKey
        BY <2>4, <3>3, <1>5 DEF NoKey, SortNames
      <4> QED BY <3>4, <4>1 DEF Usable
    <3> QED BY <2>2, <2>5, <2>7, <3>1, <3>2, <3>3, <3>4, <3>5 DEF LaterPagesGoOn
  <2> QED BY <1>14, <2>6, <2>8, <2>9, <2>10, <2>11 DEF SearchInv, SearchIsSound
<1> QED BY <1>15, <1>16

LEMMA ReadViewportKeeps ==
  ASSUME SearchInv, ReadViewport
  PROVE  SearchInv'
<1>1. PICK items : items = IF finder.pc = "clusters" THEN {} ELSE BoundsPage
  OBVIOUS
<1>2. /\ asked.mode = "browse" /\ UNCHANGED <<spot, provider, asked, unmoved, changes>>
      /\ found' = Showing(items) /\ finder' = [finder EXCEPT !.pc = "ended", !.drawn = items]
  BY <1>1 DEF ReadViewport
<1>3. SearchTypeOK
  BY DEF SearchInv, SearchIsSound
<1>4. items \subseteq Spots /\ Cardinality(items) <= MarkerCap
  <2>1. CASE finder.pc = "clusters"
    BY <1>1, <2>1, FS_EmptySet, SearchConstantsOK
  <2>2. CASE finder.pc # "clusters"
    <3>1. Matching("here") \in SUBSET Spots
      BY DEF Matching
    <3>2. "distance" \in SortNames /\ "here" \in Here /\ MarkerCap \in Nat \ {0}
      BY SearchConstantsOK DEF SortNames, Here
    <3>3. items = Best(MarkerCap, "distance", "here", Matching("here"))
      BY <1>1, <2>2 DEF BoundsPage
    <3> QED BY <1>3, <3>1, <3>2, <3>3, BestIsBounded
  <2> QED BY <2>1, <2>2
<1>5. found' \in [Spots -> 0..2]
  BY <1>2, <1>3, ShowingFacts
<1>6. /\ finder'.pc = "ended" /\ finder'.drawn = items
      /\ finder' \in [pc : {"idle", "resolve", "count", "rows", "clusters", "ended"}, origin : Here,
                    cursor : {NoText, Cut} \cup [s : Sorts, v : Int, id : Spots],
                    total : 0..Cardinality(Spots), drawn : SUBSET Spots, first : BOOLEAN]
  BY <1>2, <1>3, <1>4 DEF SearchTypeOK
<1>7. SearchTypeOK'
  BY <1>2, <1>3, <1>5, <1>6 DEF SearchTypeOK
<1>8. DrawnIsBounded' /\ SearchWalkIsComplete'
  BY <1>2, <1>4, <1>6 DEF DrawnIsBounded, SearchWalkIsComplete
<1>9. UnmovedMatches' /\ FirstPageIsFresh' /\ LaterPagesGoOn' /\ NothingIsPromised'
  BY <1>6 DEF UnmovedMatches, FirstPageIsFresh, LaterPagesGoOn, NothingIsPromised, Underway
<1> QED BY <1>7, <1>8, <1>9 DEF SearchInv, SearchIsSound

LEMMA GiveUpKeeps ==
  ASSUME SearchInv, GiveUp
  PROVE  SearchInv'
<1>1. /\ UNCHANGED <<spot, provider, asked, found, changes>> /\ unmoved' = {}
      /\ finder' = [finder EXCEPT !.pc = "ended", !.total = 0, !.drawn = {}]
  BY DEF GiveUp
<1>2. SearchTypeOK
  BY DEF SearchInv, SearchIsSound
<1>3. 0 \in 0..Cardinality(Spots)
  BY <1>2, FinderFields
<1>4. /\ finder'.pc = "ended" /\ finder'.drawn = {}
      /\ finder' \in [pc : {"idle", "resolve", "count", "rows", "clusters", "ended"}, origin : Here,
                    cursor : {NoText, Cut} \cup [s : Sorts, v : Int, id : Spots],
                    total : 0..Cardinality(Spots), drawn : SUBSET Spots, first : BOOLEAN]
  BY <1>1, <1>2, <1>3 DEF SearchTypeOK
<1>5. SearchTypeOK'
  BY <1>1, <1>2, <1>4 DEF SearchTypeOK
<1>6. DrawnIsBounded' /\ SearchWalkIsComplete'
  BY <1>1, <1>4, FS_EmptySet, SearchConstantsOK DEF DrawnIsBounded, SearchWalkIsComplete
<1>7. UnmovedMatches' /\ FirstPageIsFresh' /\ LaterPagesGoOn' /\ NothingIsPromised'
  BY <1>4 DEF UnmovedMatches, FirstPageIsFresh, LaterPagesGoOn, NothingIsPromised, Underway
<1> QED BY <1>5, <1>6, <1>7 DEF SearchInv, SearchIsSound

\* Listings, the provider's answer, and steps that change nothing here: what
\* stays among the unmoved has the key it had and matches.
LEMMA WorldMoves ==
  ASSUME SearchInv, UNCHANGED <<asked, finder, found>>,
         spot' \in [Spots -> Facts], provider' \in Here, changes' \in 0..MaxChanges,
         \/ spot' = spot /\ unmoved' = unmoved
         \/ unmoved' = StillThere(spot, spot', finder.origin, finder.origin)
  PROVE  SearchInv'
<1>1. asked' = asked /\ finder' = finder /\ found' = found
  OBVIOUS
<1>2. SearchTypeOK
  BY DEF SearchInv, SearchIsSound
<1>3. \A s \in unmoved' :
        /\ s \in unmoved
        /\ SortKey(asked.sort, finder.origin, spot'[s]) = SortKey(asked.sort, finder.origin, spot[s])
        /\ s \in Matching(finder.origin) => s \in Matching(finder.origin)'
  BY <1>1 DEF StillThere, Matching
<1>4. SearchTypeOK'
  BY <1>1, <1>2, <1>3 DEF SearchTypeOK
<1>5. DrawnIsBounded' /\ SearchWalkIsComplete'
  BY <1>1, <1>3 DEF SearchInv, SearchIsSound, DrawnIsBounded, SearchWalkIsComplete
<1>6. UnmovedMatches'
  <2>1. Underway' <=> Underway
    BY <1>1 DEF Underway
  <2>2. ASSUME Underway, finder.first => finder.pc # "resolve" PROVE unmoved' \subseteq Matching(finder.origin)'
    BY <1>3, <2>2 DEF SearchInv, UnmovedMatches
  <2> QED BY <1>1, <2>1, <2>2 DEF UnmovedMatches
<1>7. FirstPageIsFresh'
  BY <1>1 DEF SearchInv, FirstPageIsFresh, Underway
<1>8. LaterPagesGoOn'
  <2>1. PICK c : c = Decode(finder.cursor)
    OBVIOUS
  <2>2. \A s \in unmoved' : Ranks(asked.sort, finder.origin, s, c.v, c.id)' <=>
                            Ranks(asked.sort, finder.origin, s, c.v, c.id)
    BY <1>1, <1>3 DEF Ranks
  <2>3. Underway' <=> Underway
    BY <1>1 DEF Underway
  <2>4. ASSUME Underway, ~finder.first
        PROVE  /\ Usable(asked.sort, c) /\ c.v \in Int /\ c.id \in Spots
               /\ \A s \in unmoved : IF Ranks(asked.sort, finder.origin, s, c.v, c.id)
                                     THEN found[s] = 0 ELSE found[s] = 1
    BY <2>1, <2>4 DEF SearchInv, LaterPagesGoOn
  <2>5. ASSUME Underway, ~finder.first, NEW s \in unmoved'
        PROVE  IF Ranks(asked.sort, finder.origin, s, c.v, c.id)' THEN found[s] = 0 ELSE found[s] = 1
    BY <1>3, <2>2, <2>4, <2>5
  <2> QED BY <1>1, <2>1, <2>3, <2>4, <2>5 DEF LaterPagesGoOn
<1>9. NothingIsPromised'
  BY <1>1, <1>3 DEF SearchInv, NothingIsPromised
<1> QED BY <1>4, <1>5, <1>6, <1>7, <1>8, <1>9 DEF SearchInv, SearchIsSound

LEMMA SearchStep == SearchInv /\ [SearchNext]_searchVars => SearchInv'
<1> SUFFICES ASSUME SearchInv, [SearchNext]_searchVars PROVE SearchInv'
  OBVIOUS
<1>1. /\ spot \in [Spots -> Facts] /\ provider \in Here /\ changes \in 0..MaxChanges
      /\ MaxChanges \in Nat
  BY SearchConstantsOK DEF SearchInv, SearchIsSound, SearchTypeOK
<1>2. ASSUME NEW q \in Requested, NEW text \in {NoText, Cut, finder.cursor}, Ask(q, text)
      PROVE  SearchInv'
  BY <1>2, AskKeepsSearch
<1>3. CASE ResolveOrigin \/ CountMatches \/ ReadRows \/ ReadViewport \/ GiveUp
  BY <1>3, ResolveKeeps, CountKeeps, ReadRowsKeeps, ReadViewportKeeps, GiveUpKeeps
<1>4. ASSUME NEW s \in Spots, NEW f \in Facts, ChangeSpot(s, f)
      PROVE  SearchInv'
  <2>1. /\ UNCHANGED <<asked, finder, found, provider>> /\ spot' = [spot EXCEPT ![s] = f]
        /\ unmoved' = StillThere(spot, spot', finder.origin, finder.origin)
        /\ changes < MaxChanges /\ changes' = changes + 1
    BY <1>4 DEF ChangeSpot
  <2>2. spot' \in [Spots -> Facts] /\ changes' \in 0..MaxChanges
    BY <1>1, <2>1
  <2> QED BY <1>1, <2>1, <2>2, WorldMoves
<1>5. CASE Relocate
  <2>1. /\ UNCHANGED <<spot, asked, finder, found, unmoved>> /\ provider' \in Here
        /\ changes < MaxChanges /\ changes' = changes + 1
    BY <1>5 DEF Relocate
  <2>2. changes' \in 0..MaxChanges
    BY <1>1, <2>1
  <2> QED BY <1>1, <2>1, <2>2, WorldMoves
<1>6. CASE UNCHANGED searchVars
  <2>1. UNCHANGED <<spot, provider, asked, finder, found, unmoved, changes>>
    BY <1>6 DEF searchVars
  <2> QED BY <1>1, <2>1, WorldMoves
<1> QED BY <1>2, <1>3, <1>4, <1>5, <1>6 DEF SearchNext

\* Whoever follows the links of a search to its end has been shown every listing
\* that matched throughout under one key, and none of those twice, in any of the
\* orders, for any number of listings and any page size; and no page and no map
\* shows more than its limit, although listings appear after they were counted.
THEOREM SearchSound == SearchSpec => []SearchIsSound
<1>1. SearchInv => SearchIsSound
  BY DEF SearchInv
<1> QED BY SearchStart, SearchStep, <1>1, PTL DEF SearchSpec

\* Lists and searches together: who follows the links misses nothing that stands
\* still and sees nothing twice, for every number of rows, places and pages.
THEOREM ReadingComplete == ReadingSpec => []ReadingIsComplete
BY FeedsComplete, SearchSound, PTL DEF ReadingSpec, ReadingIsComplete

(***************************************************************************)
(* Hours.                                                                  *)
(***************************************************************************)
\* A moment of the week, counted from a start within a week of it.
LEMMA AroundTheWeek ==
  ASSUME NEW m \in Nat \ {0}, NEW g \in Int, 0 - m <= g, g < m
  PROVE  (g + m) % m = IF g >= 0 THEN g ELSE g + m
  OBVIOUS

LEMMA Twofold ==
  ASSUME NEW k \in Int, NEW l \in Nat, k >= 2
  PROVE  k * l \in Int /\ k * l >= 2 * l
<1>1. k * l = (k - 2) * l + 2 * l
  OBVIOUS
<1>2. (k - 2) * l >= 0
  OBVIOUS
<1> QED BY <1>1, <1>2

LEMMA Apart ==
  ASSUME NEW a \in Int, NEW b \in Int, NEW l \in Nat
  PROVE  a * l - b * l = (a - b) * l /\ a * l + b * l = (a + b) * l
         /\ a * l \in Int /\ b * l \in Int
  OBVIOUS

LEMMA RangeFacts ==
  ASSUME NEW r \in TimeRange
  PROVE  /\ r.day \in IsoDay /\ r.opens_at \in TimeOfDay /\ r.closes_at \in TimeOfDay
         /\ r.all_day \in BOOLEAN
  BY DEF TimeRange

\* The time since a range began, by the day that it belongs to.
LEMMA SinceFacts ==
  ASSUME NEW e \in IsoDay, NEW d \in IsoDay, NEW o \in TimeOfDay, NEW t \in TimeOfDay,
         NEW s, s = (d * DayLength + t - (e * DayLength + o) + WeekDays * DayLength)
                      % (WeekDays * DayLength)
  PROVE  /\ s \in Int
         /\ e = d => s = (IF t >= o THEN t - o ELSE t - o + WeekDays * DayLength) /\ WeekDays * DayLength >= 2 * DayLength
         /\ e = Yesterday(d) => s = DayLength + t - o
         /\ e # d /\ e # Yesterday(d) => s > DayLength
<1>1. PICK w, l : w = WeekDays /\ l = DayLength
  OBVIOUS
<1>2. w \in Int /\ w >= 2 /\ l \in Nat /\ l >= 1
  BY <1>1, HoursConstantsOK
<1>3. d \in Int /\ 1 <= d /\ d <= w /\ e \in Int /\ 1 <= e /\ e <= w
  BY <1>1, <1>2 DEF IsoDay
<1>4. o \in Int /\ 0 <= o /\ o < l /\ t \in Int /\ 0 <= t /\ t < l
  BY <1>1, <1>2 DEF TimeOfDay
<1>5. PICK m, k : m = w * l /\ k = (d - e) * l
  OBVIOUS
<1>6. /\ m \in Int /\ m >= 2 * l /\ k \in Int
      /\ d * l - e * l = k /\ d * l \in Int /\ e * l \in Int
  BY <1>2, <1>3, <1>5, Twofold, Apart
<1>7. PICK g : g = k + t - o /\ g \in Int
  BY <1>4, <1>6
<1>8. s = (g + m) % m
  <2>1. d * l + t - (e * l + o) = g
    BY <1>4, <1>6, <1>7
  <2> QED BY <1>1, <1>5, <2>1
<1>9. k + m = (d - e + w) * l
  BY <1>2, <1>3, <1>5, Apart
<1>10. 0 - m <= g /\ g < m
  <2>1. d - e + w >= 1 /\ w - (d - e) >= 1
    BY <1>2, <1>3
  <2>2. (d - e + w) * l >= l
    <3>1. (d - e + w - 1) * l >= 0
      BY <1>2, <1>3, <2>1
    <3> QED BY <1>2, <1>3, <3>1
  <2>3. (w - (d - e)) * l >= l
    <3>1. (w - (d - e) - 1) * l >= 0
      BY <1>2, <1>3, <2>1
    <3> QED BY <1>2, <1>3, <3>1
  <2>4. m - k = (w - (d - e)) * l
    BY <1>2, <1>3, <1>5
  <2> QED BY <1>2, <1>4, <1>6, <1>7, <1>9, <2>2, <2>3, <2>4
<1>11. s = IF g >= 0 THEN g ELSE g + m
  <2>1. m \in Nat \ {0}
    BY <1>2, <1>6
  <2> QED BY ONLY <1>7, <1>8, <1>10, <2>1, AroundTheWeek
<1>12. s \in Int
  BY <1>6, <1>7, <1>11
<1>13. ASSUME e = d PROVE s = IF t >= o THEN t - o ELSE t - o + m
  <2>1. k = 0
    BY <1>2, <1>3, <1>5, <1>13
  <2>2. g = t - o
    BY <1>4, <1>7, <2>1
  <2>3. CASE t >= o
    BY <1>4, <1>11, <2>2, <2>3
  <2>4. CASE ~(t >= o)
    <3>1. ~(g >= 0)
      BY <1>4, <2>2, <2>4
    <3> QED BY <1>11, <2>2, <2>4, <3>1
  <2> QED BY <2>3, <2>4
<1>14. ASSUME e = Yesterday(d) PROVE s = l + t - o
  <2>1. CASE d = 1
    <3>1. e = w
      BY <1>1, <1>14, <2>1 DEF Yesterday
    <3>2. k = l - m
      BY <1>2, <1>5, <2>1, <3>1, Apart
    <3> QED BY <1>2, <1>4, <1>6, <1>7, <1>11, <3>2
  <2>2. CASE d # 1
    <3>1. e = d - 1
      BY <1>14, <2>2 DEF Yesterday
    <3>2. k = l
      BY <1>2, <1>3, <1>5, <3>1
    <3> QED BY <1>2, <1>4, <1>6, <1>7, <1>11, <3>2
  <2> QED BY <2>1, <2>2
<1>15. ASSUME e # d, e # Yesterday(d) PROVE s > l
  <2>1. CASE d > e
    <3>1. d - e >= 2
      BY <1>1, <1>3, <1>15, <2>1 DEF Yesterday
    <3>2. k >= 2 * l
      BY <1>2, <1>3, <1>5, <3>1, Twofold
    <3> QED BY <1>2, <1>4, <1>6, <1>7, <1>11, <3>2
  <2>2. CASE d < e
    <3>1. d - e + w >= 2
      BY <1>1, <1>2, <1>3, <1>15, <2>2 DEF Yesterday
    <3>2. (d - e + w) * l >= 2 * l
      BY <1>2, <1>3, <3>1, Twofold
    <3>3. k <= 0 - l
      <4>1. (e - d - 1) * l >= 0
        BY <1>2, <1>3, <2>2
      <4>2. k = 0 - (e - d - 1) * l - l
        BY <1>2, <1>3, <1>5
      <4> QED BY <1>2, <1>3, <1>6, <4>1, <4>2
    <3> QED BY <1>2, <1>4, <1>6, <1>7, <1>9, <1>11, <3>2, <3>3
  <2> QED BY <1>3, <1>15, <2>1, <2>2
<1> QED BY <1>1, <1>5, <1>6, <1>12, <1>13, <1>14, <1>15

\* A range covers the moments that the page and the search say it does.
LEMMA RowAgrees ==
  ASSUME NEW r \in TimeRange, NEW d \in IsoDay, NEW t \in TimeOfDay
  PROVE  Since(r, d, t) < Lasts(r) <=> OpenToday(r, d, t) \/ SpillsOver(r, d, t)
<1>1. PICK o : o = (IF r.all_day THEN 0 ELSE r.opens_at)
  OBVIOUS
<1>2. PICK l, c, m : l = DayLength /\ c = r.closes_at /\ m = WeekDays * DayLength
  OBVIOUS
<1>3. l \in Nat /\ l >= 1 /\ c \in Int /\ 0 <= c /\ c < l /\ t \in Int /\ 0 <= t /\ t < l
  BY <1>2, HoursConstantsOK, RangeFacts DEF TimeOfDay
<1>4. o \in TimeOfDay /\ o \in Int /\ 0 <= o /\ o < l
  BY <1>1, <1>2, HoursConstantsOK, RangeFacts DEF TimeOfDay
<1>5. PICK s : s = Since(r, d, t)
  OBVIOUS
<1>6. s = (d * DayLength + t - (r.day * DayLength + o) + WeekDays * DayLength)
            % (WeekDays * DayLength)
  BY <1>1, <1>5 DEF Since
<1>7. /\ s \in Int
      /\ r.day = d => s = (IF t >= o THEN t - o ELSE t - o + m) /\ m >= 2 * l
      /\ r.day = Yesterday(d) => s = l + t - o
      /\ r.day # d /\ r.day # Yesterday(d) => s > l
  BY <1>2, <1>4, <1>6, RangeFacts, SinceFacts
<1>8. d # Yesterday(d)
  BY HoursConstantsOK DEF Yesterday, IsoDay
<1>9. Lasts(r) = IF r.all_day THEN l ELSE IF c > o THEN c - o ELSE l - (o - c)
  BY <1>1, <1>2 DEF Lasts
<1>10. m \in Int
  BY <1>2, HoursConstantsOK
<1>11. Overnight(r) <=> ~r.all_day /\ c <= o
  BY <1>1, <1>2 DEF Overnight
<1>12. OpenToday(r, d, t) <=>
         r.day = d /\ (r.all_day \/ (Overnight(r) /\ o <= t) \/ (~Overnight(r) /\ o <= t /\ t < c))
  BY <1>1, <1>2 DEF OpenToday
<1>13. SpillsOver(r, d, t) <=> r.day = Yesterday(d) /\ Overnight(r) /\ t < c
  BY <1>2 DEF SpillsOver
<1>14. CASE r.day = d
  <2>1. CASE r.all_day
    BY <1>1, <1>3, <1>4, <1>5, <1>7, <1>9, <1>12, <1>14, <2>1
  <2>2. CASE ~r.all_day /\ c > o
    BY <1>3, <1>4, <1>5, <1>7, <1>8, <1>9, <1>10, <1>11, <1>12, <1>13, <1>14, <2>2
  <2>3. CASE ~r.all_day /\ c <= o
    BY <1>3, <1>4, <1>5, <1>7, <1>8, <1>9, <1>10, <1>11, <1>12, <1>13, <1>14, <2>3
  <2> QED BY <1>3, <1>4, <2>1, <2>2, <2>3
<1>15. CASE r.day = Yesterday(d)
  <2>1. s = l + t - o /\ r.day # d
    BY <1>7, <1>8, <1>15
  <2>2. CASE r.all_day
    BY <1>1, <1>3, <1>5, <1>9, <1>11, <1>12, <1>13, <2>1, <2>2
  <2>3. CASE ~r.all_day /\ c > o
    BY <1>3, <1>4, <1>5, <1>9, <1>11, <1>12, <1>13, <2>1, <2>3
  <2>4. CASE ~r.all_day /\ c <= o
    BY <1>3, <1>4, <1>5, <1>9, <1>11, <1>12, <1>13, <1>15, <2>1, <2>4
  <2> QED BY <1>3, <1>4, <2>2, <2>3, <2>4
<1>16. CASE r.day # d /\ r.day # Yesterday(d)
  BY <1>3, <1>4, <1>5, <1>7, <1>9, <1>11, <1>12, <1>13, <1>16
<1> QED BY <1>14, <1>15, <1>16

\* What the form gives back.

Pair == TimeOfDay \X TimeOfDay
Row(d, p) == [day |-> d, opens_at |-> p[1], closes_at |-> p[2], all_day |-> FALSE]
WholeDay(d) == [day |-> d, opens_at |-> 0, closes_at |-> DayLength - 1, all_day |-> TRUE]

Whole(p) == <<time_value(p[1]), time_value(p[2])>>

\* A day's fields that mean the rows to the minute, and are refused only when a
\* row lies within one.
Restores(d, g, rows) ==
  /\ g \in DayFields /\ g.state # "unknown"
  /\ DayRows(d, g) = {Minuted(r) : r \in rows}
  /\ Refused(g) <=> \E r \in rows : WithinAMinute(r)

LEMMA Multiple ==
  ASSUME NEW q \in Nat, NEW m \in Nat \ {0}
  PROVE  (m * q) % m = 0
  OBVIOUS

\* What dropping the seconds leaves.
LEMMA Remainder ==
  ASSUME NEW t \in Nat, NEW m \in Nat \ {0}
  PROVE  t % m \in Int /\ 0 <= t % m /\ t % m <= t /\ (t - (t % m)) % m = 0
<1>1. t % m \in 0..(m - 1) /\ t % m <= t OBVIOUS
<1>2. t = m * (t \div m) + (t % m) /\ t \div m \in Nat OBVIOUS
<1>3. (m * (t \div m)) % m = 0 BY <1>2, Multiple
<1>4. t - (t % m) = m * (t \div m) BY <1>1, <1>2
<1> QED BY <1>1, <1>3, <1>4

LEMMA MinuteFacts ==
  ASSUME NEW t \in TimeOfDay
  PROVE  /\ time_value(t) \in TimeOfDay /\ time_value(t) \in Int /\ time_value(t) < DayLength
         /\ time_value(time_value(t)) = time_value(t)
<1>1. t \in Nat /\ t < DayLength /\ DayLength \in Nat BY HoursConstantsOK DEF TimeOfDay
<1>2. MinuteLength \in Nat \ {0} BY HoursConstantsOK
<1>3. PICK k : k = t % MinuteLength OBVIOUS
<1>4. k \in Int /\ 0 <= k /\ k <= t /\ (t - k) % MinuteLength = 0 BY <1>1, <1>2, <1>3, Remainder
<1>5. time_value(t) = t - k BY <1>3 DEF time_value
<1>6. time_value(t - k) = t - k BY <1>1, <1>4 DEF time_value
<1> QED BY <1>1, <1>4, <1>5, <1>6 DEF TimeOfDay

LEMMA PairFacts ==
  ASSUME NEW p \in Pair
  PROVE  /\ p # Blank /\ p # Half /\ p = <<p[1], p[2]>>
         /\ p[1] \in TimeOfDay /\ p[2] \in TimeOfDay
         /\ p[1] \in Int /\ p[2] \in Int /\ p[1] < DayLength /\ DayLength \in Int
  <1>1. /\ p = <<p[1], p[2]>> /\ p[1] \in TimeOfDay /\ p[2] \in TimeOfDay
    BY DEF Pair
  <1>2. p # Blank /\ p # Half
    BY <1>1 DEF Blank, Half
  <1> QED BY <1>1, <1>2, HoursConstantsOK DEF TimeOfDay

LEMMA RowFacts ==
  ASSUME NEW d, NEW p \in Pair
  PROVE  /\ Row(d, p).day = d /\ Row(d, p).opens_at = p[1] /\ Row(d, p).closes_at = p[2]
         /\ Row(d, p).all_day = FALSE
         /\ d \in IsoDay => Row(d, p) \in TimeRange
  BY PairFacts DEF Row, TimeRange

\* A range without its seconds is a range, and covers the same minutes.
LEMMA WholeFacts ==
  ASSUME NEW p \in Pair
  PROVE  /\ Whole(p) \in Pair /\ Whole(p)[1] = time_value(p[1]) /\ Whole(p)[2] = time_value(p[2])
         /\ Segments(Whole(p)) = Segments(p)
         /\ \A d : /\ Minuted(Row(d, p)) = Row(d, Whole(p))
                   /\ WithinAMinute(Row(d, p)) <=> Whole(p)[1] = Whole(p)[2]
<1>1. p[1] \in TimeOfDay /\ p[2] \in TimeOfDay BY PairFacts
<1>2. PICK o, c : o = time_value(p[1]) /\ c = time_value(p[2]) OBVIOUS
<1>3. /\ o \in TimeOfDay /\ c \in TimeOfDay /\ time_value(o) = o /\ time_value(c) = c
  BY <1>1, <1>2, MinuteFacts
<1>4. Whole(p) = <<o, c>> BY <1>2 DEF Whole
<1>5. Whole(p) \in Pair /\ Whole(p)[1] = o /\ Whole(p)[2] = c BY <1>3, <1>4 DEF Pair
<1>6. Segments(Whole(p)) = Segments(p) BY <1>2, <1>3, <1>5 DEF Segments
<1>7. ASSUME NEW d PROVE /\ Minuted(Row(d, p)) = Row(d, Whole(p))
                         /\ WithinAMinute(Row(d, p)) <=> Whole(p)[1] = Whole(p)[2]
  <2>1. PICK r : r = Row(d, p) OBVIOUS
  <2>2. r = [day |-> d, opens_at |-> p[1], closes_at |-> p[2], all_day |-> FALSE] BY <2>1 DEF Row
  <2>3. /\ r.day = d /\ r.opens_at = p[1] /\ r.closes_at = p[2] /\ r.all_day = FALSE BY <2>2
  <2>4. Minuted(r) = Row(d, Whole(p)) BY <1>2, <1>5, <2>3 DEF Minuted, Row
  <2>5. WithinAMinute(r) <=> o = c BY <1>2, <2>2 DEF WithinAMinute
  <2> QED BY <1>5, <2>1, <2>4, <2>5
<1> QED BY <1>2, <1>5, <1>6, <1>7

\* Ranges that open in the same minute overlap, overlapping goes both ways, and
\* it is a matter of minutes.
LEMMA OverlapFacts ==
  ASSUME NEW a \in Pair, NEW b \in Pair
  PROVE  /\ Whole(a)[1] = Whole(b)[1] => ranges_overlap(a, b)
         /\ ranges_overlap(a, b) => ranges_overlap(b, a)
         /\ ranges_overlap(Whole(a), Whole(b)) <=> ranges_overlap(a, b)
<1>1. ASSUME NEW p \in Pair
      PROVE  \E x \in Segments(p) : x[1] = Whole(p)[1] /\ x[2] \in Int /\ x[2] > Whole(p)[1]
  <2>1. PICK o, c : o = time_value(p[1]) /\ c = time_value(p[2]) OBVIOUS
  <2>2. /\ o \in Int /\ c \in Int /\ o < DayLength /\ DayLength \in Int /\ Whole(p)[1] = o
    BY <2>1, PairFacts, MinuteFacts, WholeFacts
  <2>3. CASE c > o
    <3>1. <<o, c>> \in Segments(p) BY <2>1, <2>3 DEF Segments
    <3> QED BY <2>2, <2>3, <3>1
  <2>4. CASE ~(c > o)
    <3>1. <<o, DayLength>> \in Segments(p) BY <2>1, <2>4 DEF Segments
    <3> QED BY <2>2, <3>1
  <2> QED BY <2>3, <2>4
<1>2. ASSUME Whole(a)[1] = Whole(b)[1] PROVE ranges_overlap(a, b)
  <2>1. PICK x \in Segments(a) : x[1] = Whole(a)[1] /\ x[2] \in Int /\ x[2] > Whole(a)[1]
    BY <1>1
  <2>2. PICK y \in Segments(b) : y[1] = Whole(b)[1] /\ y[2] \in Int /\ y[2] > Whole(b)[1]
    BY <1>1
  <2>3. Whole(a)[1] \in Int BY PairFacts, WholeFacts
  <2>4. x[1] < y[2] /\ y[1] < x[2] BY <1>2, <2>1, <2>2, <2>3
  <2> QED BY <2>4 DEF ranges_overlap
<1>3. ranges_overlap(a, b) => ranges_overlap(b, a) BY DEF ranges_overlap
<1>4. ranges_overlap(Whole(a), Whole(b)) <=> ranges_overlap(a, b)
  BY WholeFacts, Zenon DEF ranges_overlap
<1> QED BY <1>2, <1>3, <1>4

\* An accepted day with ranges has one of them, or two that do not open in the
\* same minute.
LEMMA AcceptedRanges ==
  ASSUME NEW g \in DayFields, ~Refused(g), g.state = "ranges"
  PROVE  \/ \E p \in Pair : p[1] # p[2] /\ {g.r1, g.r2} \ {Blank} = {p}
         \/ \E a, b \in Pair : /\ a[1] # a[2] /\ b[1] # b[2] /\ a[1] < b[1]
                               /\ ~ranges_overlap(a, b)
                               /\ {g.r1, g.r2} \ {Blank} = {a, b}
<1>1. g.r1 \in Typed /\ g.r2 \in Typed
  BY DEF DayFields
<1>2. PICK x, y : x = g.r1 /\ y = g.r2
  OBVIOUS
<1>3. /\ ~(x = Blank /\ y = Blank)
      /\ \A r \in {x, y} \ {Blank} : r # Half /\ r[1] # r[2]
      /\ x # Blank /\ y # Blank /\ x # Half /\ y # Half => ~ranges_overlap(x, y)
  BY <1>2 DEF Refused
<1>4. x # Blank => x \in Pair /\ x # Half /\ x[1] # x[2]
  BY <1>1, <1>2, <1>3 DEF Typed, Pair
<1>5. y # Blank => y \in Pair /\ y # Half /\ y[1] # y[2]
  BY <1>1, <1>2, <1>3 DEF Typed, Pair
<1>6. CASE x = Blank
  <2>1. {x, y} \ {Blank} = {y}
    BY <1>3, <1>6
  <2> QED BY <1>2, <1>3, <1>5, <1>6, <2>1
<1>7. CASE y = Blank
  <2>1. {x, y} \ {Blank} = {x}
    BY <1>3, <1>7
  <2> QED BY <1>2, <1>3, <1>4, <1>7, <2>1
<1>8. CASE x # Blank /\ y # Blank
  <2>1. /\ x \in Pair /\ y \in Pair /\ x[1] # x[2] /\ y[1] # y[2]
        /\ ~ranges_overlap(x, y) /\ {x, y} \ {Blank} = {x, y} /\ {x, y} \ {Blank} = {y, x}
    BY <1>3, <1>4, <1>5, <1>8
  <2>2. ~ranges_overlap(y, x) /\ x[1] # y[1]
    BY <2>1, OverlapFacts, WholeFacts
  <2>3. x[1] < y[1] \/ y[1] < x[1]
    BY <2>1, <2>2, PairFacts
  <2> QED BY <1>2, <2>1, <2>2, <2>3
<1> QED BY <1>6, <1>7, <1>8

LEMMA RangesRows ==
  ASSUME NEW d, NEW g, g.state = "ranges"
  PROVE  DayRows(d, g) = {Row(d, r) : r \in {g.r1, g.r2} \ {Blank}}
  BY DEF DayRows, Row

\* One range is shown as it was typed, to the minute.
LEMMA OneRange ==
  ASSUME NEW d \in IsoDay, NEW p \in Pair, NEW rows, rows = {Row(d, p)}
  PROVE  Restores(d, DayShown(FALSE, rows), rows)
<1>1. PICK r : r = Row(d, p)
  OBVIOUS
<1>2. r.opens_at = p[1] /\ r.closes_at = p[2] /\ r.all_day = FALSE /\ rows = {r}
  BY <1>1, RowFacts
<1>3. Earlier(rows, r) = {}
  BY <1>2, PairFacts DEF Earlier
<1>4. Cardinality(Earlier(rows, r)) = 0
  BY <1>3, FS_EmptySet
<1>5. Nth(rows, 0) = {r} /\ Nth(rows, 1) = {}
  BY <1>2, <1>4 DEF Nth
<1>6. PICK q \in Pair : q = Whole(p)
  BY WholeFacts
<1>7. Cell(rows, 0) = q /\ Cell(rows, 1) = Blank
  BY <1>2, <1>5, <1>6 DEF Cell, Whole
<1>8. PICK g : g = Fields("ranges", q, Blank)
  OBVIOUS
<1>9. DayShown(FALSE, rows) = g
  BY <1>2, <1>7, <1>8 DEF DayShown
<1>10. g.state = "ranges" /\ g.r1 = q /\ g.r2 = Blank
  BY <1>8 DEF Fields
<1>11. g \in DayFields
  BY <1>8 DEF Fields, DayFields, Typed, Pair
<1>12. {g.r1, g.r2} \ {Blank} = {q}
  BY <1>10, PairFacts
<1>13. Refused(g) <=> q[1] = q[2]
  BY <1>10, <1>12, PairFacts DEF Refused
<1>14. DayRows(d, g) = {Row(d, q)}
  <2>1. DayRows(d, g) = {Row(d, x) : x \in {q}}
    BY <1>10, <1>12, RangesRows
  <2> QED BY <2>1
<1>15. Row(d, q) = Minuted(r) /\ (WithinAMinute(r) <=> q[1] = q[2])
  BY <1>1, <1>6, WholeFacts
<1>16. {Minuted(x) : x \in rows} = {Minuted(r)}
  BY <1>2
<1> QED BY <1>2, <1>9, <1>10, <1>11, <1>13, <1>14, <1>15, <1>16 DEF Restores

\* Two ranges are shown in the order that they open in.
LEMMA TwoRanges ==
  ASSUME NEW d \in IsoDay, NEW a \in Pair, NEW b \in Pair,
         a[1] < b[1], ~ranges_overlap(a, b), NEW rows, rows = {Row(d, a), Row(d, b)}
  PROVE  Restores(d, DayShown(FALSE, rows), rows)
<1>1. PICK r, s : r = Row(d, a) /\ s = Row(d, b)
  OBVIOUS
<1>2. /\ r.opens_at = a[1] /\ r.closes_at = a[2] /\ r.all_day = FALSE
      /\ s.opens_at = b[1] /\ s.closes_at = b[2] /\ s.all_day = FALSE /\ rows = {r, s}
  BY <1>1, RowFacts
<1>3. a[1] \in Int /\ b[1] \in Int /\ r # s
  BY <1>2, PairFacts
<1>4. Earlier(rows, r) = {} /\ Earlier(rows, s) = {r}
  BY <1>2, <1>3 DEF Earlier
<1>5. Cardinality(Earlier(rows, r)) = 0 /\ Cardinality(Earlier(rows, s)) = 1
  BY <1>4, FS_EmptySet, FS_Singleton
<1>6. Nth(rows, 0) = {r} /\ Nth(rows, 1) = {s}
  BY <1>2, <1>5 DEF Nth
<1>7. PICK p \in Pair, q \in Pair : p = Whole(a) /\ q = Whole(b)
  BY WholeFacts
<1>8. Cell(rows, 0) = p /\ Cell(rows, 1) = q
  BY <1>2, <1>6, <1>7 DEF Cell, Whole
<1>9. PICK g : g = Fields("ranges", p, q)
  OBVIOUS
<1>10. DayShown(FALSE, rows) = g
  BY <1>2, <1>8, <1>9 DEF DayShown
<1>11. g.state = "ranges" /\ g.r1 = p /\ g.r2 = q
  BY <1>9 DEF Fields
<1>12. g \in DayFields
  BY <1>9 DEF Fields, DayFields, Typed, Pair
<1>13. {g.r1, g.r2} \ {Blank} = {p, q}
  BY <1>11, PairFacts
<1>14. ~ranges_overlap(p, q)
  BY <1>7, OverlapFacts
<1>15. Refused(g) <=> p[1] = p[2] \/ q[1] = q[2]
  BY <1>11, <1>13, <1>14, PairFacts DEF Refused
<1>16. DayRows(d, g) = {Row(d, p), Row(d, q)}
  <2>1. DayRows(d, g) = {Row(d, x) : x \in {p, q}}
    BY <1>11, <1>13, RangesRows
  <2> QED BY <2>1
<1>17. /\ Row(d, p) = Minuted(r) /\ (WithinAMinute(r) <=> p[1] = p[2])
       /\ Row(d, q) = Minuted(s) /\ (WithinAMinute(s) <=> q[1] = q[2])
  BY <1>1, <1>7, WholeFacts
<1>18. {Minuted(x) : x \in rows} = {Minuted(r), Minuted(s)}
  BY <1>2
<1>19. (\E x \in rows : WithinAMinute(x)) <=> WithinAMinute(r) \/ WithinAMinute(s)
  BY <1>2
<1> QED BY <1>10, <1>11, <1>12, <1>15, <1>16, <1>17, <1>18, <1>19 DEF Restores

\* The rows of a day: of that day, and none of them empty.
OfItsDay(d, rows) ==
  \A r \in rows : r.day = d /\ r \in TimeRange /\ (r.all_day \/ r.opens_at # r.closes_at)

\* A day of a week that is known comes back from the form.
LEMMA DayComesBack ==
  ASSUME NEW d \in IsoDay, NEW g \in DayFields, ~Refused(g)
  PROVE  Restores(d, DayShown(FALSE, DayRows(d, g)), DayRows(d, g)) /\ OfItsDay(d, DayRows(d, g))
<1>1. g.state \in {"unknown", "closed", "all_day", "ranges"}
  BY DEF DayFields
<1>2. PICK rows : rows = DayRows(d, g)
  OBVIOUS
<1>3. CASE g.state \in {"unknown", "closed"}
  <2>1. rows = {}
    BY <1>2, <1>3 DEF DayRows
  <2>2. PICK h : h = Fields("closed", Blank, Blank)
    OBVIOUS
  <2>3. DayShown(FALSE, rows) = h /\ h.state = "closed"
    BY <2>1, <2>2 DEF DayShown, Fields
  <2>4. ~Refused(h) /\ DayRows(d, h) = {}
    BY <2>3 DEF Refused, DayRows
  <2>5. h \in DayFields
    BY <2>2 DEF Fields, DayFields, Typed
  <2>6. {Minuted(x) : x \in rows} = {}
    BY <2>1
  <2> QED BY <1>2, <2>1, <2>3, <2>4, <2>5, <2>6 DEF Restores, OfItsDay
<1>4. CASE g.state = "all_day"
  <2>1. rows = {WholeDay(d)}
    BY <1>2, <1>4 DEF DayRows, WholeDay
  <2>2. PICK h : h = Fields("all_day", Blank, Blank)
    OBVIOUS
  <2>3. PICK r : r = WholeDay(d)
    OBVIOUS
  <2>4. r.all_day = TRUE /\ r.day = d /\ r \in TimeRange
    BY <2>3, HoursConstantsOK DEF WholeDay, TimeRange, TimeOfDay
  <2>5. DayShown(FALSE, rows) = h
    BY <2>1, <2>2, <2>3, <2>4 DEF DayShown
  <2>6. h.state = "all_day" /\ h \in DayFields
    BY <2>2 DEF Fields, DayFields, Typed
  <2>7. ~Refused(h) /\ DayRows(d, h) = {WholeDay(d)}
    BY <2>6 DEF Refused, DayRows, WholeDay
  <2>8. Minuted(r) = r /\ ~WithinAMinute(r)
    BY <2>4 DEF Minuted, WithinAMinute
  <2>9. {Minuted(x) : x \in rows} = {r}
    BY <2>1, <2>3, <2>8
  <2> QED BY <1>2, <2>1, <2>3, <2>4, <2>5, <2>6, <2>7, <2>8, <2>9 DEF Restores, OfItsDay
<1>5. CASE g.state = "ranges"
  <2>1. rows = {Row(d, r) : r \in {g.r1, g.r2} \ {Blank}}
    BY <1>2, <1>5, RangesRows
  <2>2. ASSUME NEW p \in Pair, p[1] # p[2], {g.r1, g.r2} \ {Blank} = {p}
        PROVE  Restores(d, DayShown(FALSE, rows), rows) /\ OfItsDay(d, rows)
    <3>1. rows = {Row(d, p)}
      BY <2>1, <2>2
    <3>2. Restores(d, DayShown(FALSE, rows), rows)
      BY <3>1, OneRange
    <3>3. PICK r : r = Row(d, p)
      OBVIOUS
    <3>4. r.day = d /\ r \in TimeRange /\ r.opens_at # r.closes_at
      <4>1. r.day = d /\ r \in TimeRange /\ r.opens_at = p[1] /\ r.closes_at = p[2]
        BY <3>3, RowFacts
      <4> QED BY <2>2, <4>1
    <3>5. OfItsDay(d, rows)
      BY <3>1, <3>3, <3>4 DEF OfItsDay
    <3> QED BY <3>2, <3>5
  <2>3. ASSUME NEW a \in Pair, NEW b \in Pair, a[1] # a[2], b[1] # b[2], a[1] < b[1],
               ~ranges_overlap(a, b), {g.r1, g.r2} \ {Blank} = {a, b}
        PROVE  Restores(d, DayShown(FALSE, rows), rows) /\ OfItsDay(d, rows)
    <3>1. rows = {Row(d, a), Row(d, b)}
      BY <2>1, <2>3
    <3>2. Restores(d, DayShown(FALSE, rows), rows)
      BY <2>3, <3>1, TwoRanges
    <3>3. PICK r, s : r = Row(d, a) /\ s = Row(d, b)
      OBVIOUS
    <3>4. /\ r.day = d /\ r \in TimeRange /\ r.opens_at # r.closes_at
          /\ s.day = d /\ s \in TimeRange /\ s.opens_at # s.closes_at
      <4>1. r.day = d /\ r \in TimeRange /\ r.opens_at = a[1] /\ r.closes_at = a[2]
        BY <3>3, RowFacts
      <4>2. s.day = d /\ s \in TimeRange /\ s.opens_at = b[1] /\ s.closes_at = b[2]
        BY <3>3, RowFacts
      <4> QED BY <2>3, <4>1, <4>2
    <3>5. OfItsDay(d, rows)
      BY <3>1, <3>3, <3>4 DEF OfItsDay
    <3> QED BY <3>2, <3>5
  <2> QED BY <1>2, <1>5, <2>2, <2>3, AcceptedRanges
<1> QED BY <1>1, <1>3, <1>4, <1>5

\* A week that was typed into an accepted form: what the edit form makes of it.
Sound(w) ==
  /\ w = [unknown |-> w.unknown, rows |-> w.rows]
  /\ w.unknown \in BOOLEAN /\ w.rows \subseteq TimeRange /\ (w.unknown => w.rows = {})
  /\ \A r \in w.rows : r.all_day \/ r.opens_at # r.closes_at
  /\ \A d \in IsoDay : hours_fields_from(w)[d] \in DayFields
  /\ parse_hours(hours_fields_from(w)) = ToTheMinute(w)
  /\ FormAccepted(hours_fields_from(w)) = ~(\E r \in w.rows : WithinAMinute(r))

LEMMA MinutedWeek ==
  ASSUME NEW u, NEW R
  PROVE  ToTheMinute([unknown |-> u, rows |-> R]) = [unknown |-> u, rows |-> {Minuted(r) : r \in R}]
  BY DEF ToTheMinute

LEMMA WeekComesBack ==
  ASSUME NEW f, \A d \in IsoDay : f[d] \in DayFields /\ ~Refused(f[d])
  PROVE  Sound(parse_hours(f))
<1>1. PICK w, again : w = parse_hours(f) /\ again = hours_fields_from(w)
  OBVIOUS
<1>2. \A d \in IsoDay : again[d] = DayShown(w.unknown, StoredRows(w, d))
  BY <1>1 DEF hours_fields_from
<1>3. CASE AllUnknown(f)
  <2>1. w = [unknown |-> TRUE, rows |-> {}] /\ w.unknown = TRUE /\ w.rows = {}
    BY <1>1, <1>3 DEF parse_hours
  <2>2. \A d \in IsoDay : again[d] = Fields("unknown", Blank, Blank)
    BY <1>2, <2>1 DEF DayShown, StoredRows
  <2>3. \A d \in IsoDay : again[d].state = "unknown" /\ again[d] \in DayFields
    BY <2>2 DEF Fields, DayFields, Typed
  <2>4. {Minuted(r) : r \in {}} = {}
    OBVIOUS
  <2>5. parse_hours(again) = ToTheMinute(w)
    BY <2>1, <2>3, <2>4, MinutedWeek DEF parse_hours, AllUnknown
  <2>6. FormAccepted(again) = ~(\E r \in w.rows : WithinAMinute(r))
    BY <2>1, <2>3 DEF Refused, FormAccepted
  <2> QED BY <1>1, <2>1, <2>3, <2>5, <2>6 DEF Sound
<1>4. CASE ~AllUnknown(f)
  <2>1. /\ w = [unknown |-> FALSE, rows |-> UNION {DayRows(d, f[d]) : d \in IsoDay}]
        /\ w.unknown = FALSE /\ w.rows = UNION {DayRows(d, f[d]) : d \in IsoDay}
    BY <1>1, <1>4 DEF parse_hours
  <2>2. \A d \in IsoDay : /\ Restores(d, DayShown(FALSE, DayRows(d, f[d])), DayRows(d, f[d]))
                          /\ OfItsDay(d, DayRows(d, f[d]))
    BY DayComesBack
  <2>3. \A r : r \in w.rows <=> \E d \in IsoDay : r \in DayRows(d, f[d])
    BY <2>1, Zenon
  <2>4. \A d \in IsoDay : \A r \in DayRows(d, f[d]) :
          r.day = d /\ r \in TimeRange /\ (r.all_day \/ r.opens_at # r.closes_at)
    BY <2>2 DEF OfItsDay
  <2>5. ASSUME NEW d \in IsoDay PROVE StoredRows(w, d) = DayRows(d, f[d])
    <3>1. \A r : r \in StoredRows(w, d) <=> r \in w.rows /\ r.day = d
      BY Zenon DEF StoredRows
    <3>2. \A r : r \in StoredRows(w, d) <=> r \in DayRows(d, f[d])
      <4>1. ASSUME NEW r, r \in StoredRows(w, d) PROVE r \in DayRows(d, f[d])
        <5>1. r.day = d /\ r \in w.rows
          BY <3>1, <4>1
        <5>2. PICK e \in IsoDay : r \in DayRows(e, f[e])
          BY <2>3, <5>1
        <5>3. r.day = e
          BY <2>4, <5>2
        <5> QED BY <5>1, <5>2, <5>3
      <4>2. ASSUME NEW r, r \in DayRows(d, f[d]) PROVE r \in StoredRows(w, d)
        BY <2>4, <2>3, <3>1, <4>2
      <4> QED BY <4>1, <4>2
    <3> QED BY <3>2
  <2>6. \A d \in IsoDay : Restores(d, again[d], DayRows(d, f[d]))
    BY <1>2, <2>1, <2>2, <2>5
  <2>7. \A d \in IsoDay : /\ again[d] \in DayFields /\ again[d].state # "unknown"
                          /\ DayRows(d, again[d]) = {Minuted(r) : r \in DayRows(d, f[d])}
                          /\ Refused(again[d]) <=> \E r \in DayRows(d, f[d]) : WithinAMinute(r)
    BY <2>6 DEF Restores
  <2>8. ~AllUnknown(again)
    <3>1. 1 \in IsoDay
      BY HoursConstantsOK DEF IsoDay
    <3> QED BY <2>7, <3>1 DEF AllUnknown
  <2>9. UNION {DayRows(d, again[d]) : d \in IsoDay} = {Minuted(r) : r \in w.rows}
    <3>1. ASSUME NEW x, x \in UNION {DayRows(d, again[d]) : d \in IsoDay}
          PROVE  x \in {Minuted(r) : r \in w.rows}
      <4>1. PICK d \in IsoDay : x \in DayRows(d, again[d]) BY <3>1, Zenon
      <4>2. PICK r \in DayRows(d, f[d]) : x = Minuted(r) BY <2>7, <4>1
      <4> QED BY <2>3, <4>2
    <3>2. ASSUME NEW x, x \in {Minuted(r) : r \in w.rows}
          PROVE  x \in UNION {DayRows(d, again[d]) : d \in IsoDay}
      <4>1. PICK r \in w.rows : x = Minuted(r) BY <3>2
      <4>2. PICK d \in IsoDay : r \in DayRows(d, f[d]) BY <2>3, <4>1
      <4>3. x \in DayRows(d, again[d]) BY <2>7, <4>1, <4>2
      <4> QED BY <4>3, Zenon
    <3> QED BY <3>1, <3>2
  <2>10. parse_hours(again) = ToTheMinute(w)
    <3>1. ToTheMinute(w) = [unknown |-> FALSE, rows |-> {Minuted(r) : r \in w.rows}]
      BY <2>1, MinutedWeek
    <3> QED BY <2>8, <2>9, <3>1 DEF parse_hours
  <2>11. w.rows \subseteq TimeRange /\ \A r \in w.rows : r.all_day \/ r.opens_at # r.closes_at
    BY <2>3, <2>4
  <2>12. FormAccepted(again) = ~(\E r \in w.rows : WithinAMinute(r))
    <3>1. (\E r \in w.rows : WithinAMinute(r)) <=> \E d \in IsoDay : Refused(again[d])
      BY <2>3, <2>7
    <3> QED BY <3>1 DEF FormAccepted
  <2>13. w = [unknown |-> w.unknown, rows |-> w.rows]
    BY <2>1
  <2> QED BY <1>1, <2>1, <2>7, <2>10, <2>11, <2>12, <2>13 DEF Sound
<1> QED BY <1>3, <1>4

\* Hours typed in minutes have no range within one.
LEMMA WholeMinutes ==
  ASSUME NEW w, Sound(w), ToTheMinute(w) = w
  PROVE  ~(\E r \in w.rows : WithinAMinute(r))
<1> SUFFICES ASSUME NEW r \in w.rows, WithinAMinute(r) PROVE FALSE
  OBVIOUS
<1>1. PICK u, R : w = [unknown |-> u, rows |-> R] /\ R = w.rows
  BY DEF Sound
<1>2. ToTheMinute(w) = [unknown |-> u, rows |-> {Minuted(x) : x \in R}]
  BY <1>1, MinutedWeek
<1>3. R = {Minuted(x) : x \in R}
  BY <1>1, <1>2
<1>4. PICK x \in R : r = Minuted(x)
  BY <1>1, <1>3
<1>5. r \in TimeRange /\ x \in TimeRange /\ ~r.all_day /\ r.opens_at # r.closes_at
  BY <1>1, <1>4 DEF Sound, WithinAMinute
<1>6. ~x.all_day
  BY <1>4, <1>5 DEF Minuted
<1>7. /\ r.opens_at = time_value(x.opens_at) /\ r.closes_at = time_value(x.closes_at)
  BY <1>4, <1>5, <1>6 DEF Minuted, TimeRange
<1>8. x.opens_at \in TimeOfDay /\ x.closes_at \in TimeOfDay
  BY <1>5, RangeFacts
<1>9. time_value(r.opens_at) = r.opens_at /\ time_value(r.closes_at) = r.closes_at
  BY <1>7, <1>8, MinuteFacts
<1> QED BY <1>5, <1>9 DEF WithinAMinute

LEMMA OpenAgrees ==
  ASSUME Sound(week), at \in [day : IsoDay, t : TimeOfDay]
  PROVE  OpenNowAgrees
<1>1. PICK d, t : d = at.day /\ t = at.t /\ d \in IsoDay /\ t \in TimeOfDay
  OBVIOUS
<1>2. PICK rows : rows = week.rows /\ rows \subseteq TimeRange
  BY DEF Sound
<1>3. week.unknown \in BOOLEAN /\ (week.unknown => rows = {})
  BY <1>2 DEF Sound
<1>4. (\E r \in rows : OpenToday(r, d, t) \/ SpillsOver(r, d, t)) <=> Covered(rows, d, t)
  BY <1>1, <1>2, RowAgrees DEF Covered
<1>5. (\E r \in rows : OpenToday(r, d, t) \/ SpillsOver(r, d, t)) <=> is_open_at(rows, d, t)
  <2>1. ASSUME NEW r \in rows
        PROVE  OpenToday(r, d, t) \/ SpillsOver(r, d, t) <=>
                 \/ /\ r.day = d
                    /\ \/ r.all_day
                       \/ r.opens_at <= t /\ t < r.closes_at
                       \/ r.closes_at <= r.opens_at /\ r.opens_at <= t
                 \/ r.day = Yesterday(d) /\ ~r.all_day /\ r.closes_at <= r.opens_at /\ t < r.closes_at
    <3>1. /\ r.opens_at \in Int /\ r.closes_at \in Int /\ t \in Int /\ r.all_day \in BOOLEAN
      BY <1>1, <1>2, HoursConstantsOK, RangeFacts DEF TimeOfDay
    <3> QED BY <3>1 DEF OpenToday, SpillsOver, Overnight
  <2> QED BY <2>1 DEF is_open_at
<1>6. status_at(week, d, t) =
        IF week.unknown THEN "Unknown"
        ELSE IF \E r \in rows : OpenToday(r, d, t) \/ SpillsOver(r, d, t) THEN "Open" ELSE "Closed"
  BY <1>2, <1>3 DEF status_at
<1>7. Covered(rows, d, t) \in BOOLEAN /\ is_open_at(rows, d, t) \in BOOLEAN
  BY DEF Covered, is_open_at
<1>8. CASE week.unknown
  <2>1. ~Covered(rows, d, t) /\ ~is_open_at(rows, d, t) /\ status_at(week, d, t) = "Unknown"
    BY <1>3, <1>4, <1>5, <1>6, <1>8
  <2> QED BY <1>1, <1>2, <1>3, <1>7, <1>8, <2>1 DEF OpenNowAgrees
<1>9. CASE ~week.unknown
  <2>1. status_at(week, d, t) = IF Covered(rows, d, t) THEN "Open" ELSE "Closed"
    BY <1>4, <1>6, <1>9
  <2>2. Covered(rows, d, t) = is_open_at(rows, d, t)
    BY <1>4, <1>5, <1>7
  <2> QED BY <1>1, <1>2, <1>3, <1>7, <1>9, <2>1, <2>2 DEF OpenNowAgrees
<1> QED BY <1>8, <1>9

\* The inductive invariant: the week came from the form, the clock is a clock.
HoursInv == Sound(week) /\ at \in [day : IsoDay, t : TimeOfDay]

\* Every form that a week starts from is one that is accepted.
LEMMA FormsAccepted ==
  ASSUME NEW f \in HoursForms
  PROVE  \A d \in IsoDay : f[d] \in DayFields /\ ~Refused(f[d])
<1>1. PICK typed \in [IsoDay \cap FilledDays -> {g \in DayFields : ~Refused(g)}],
           rest \in [IsoDay \ FilledDays -> {Fields("unknown", Blank, Blank),
                                             Fields("closed", Blank, Blank)}] :
        f = [d \in IsoDay |-> IF d \in FilledDays THEN typed[d] ELSE rest[d]]
  BY DEF HoursForms
<1>2. \A state \in {"unknown", "closed"} :
        Fields(state, Blank, Blank) \in DayFields /\ ~Refused(Fields(state, Blank, Blank))
  BY DEF Fields, DayFields, Typed, Refused
<1> SUFFICES ASSUME NEW d \in IsoDay PROVE f[d] \in DayFields /\ ~Refused(f[d])
  OBVIOUS
<1>3. CASE d \in FilledDays
  <2>1. f[d] = typed[d] /\ typed[d] \in {g \in DayFields : ~Refused(g)} BY <1>1, <1>3
  <2> QED BY <2>1
<1>4. CASE d \notin FilledDays
  <2>1. f[d] = rest[d] /\ rest[d] \in {Fields("unknown", Blank, Blank), Fields("closed", Blank, Blank)}
    BY <1>1, <1>4
  <2> QED BY <1>2, <2>1
<1> QED BY <1>3, <1>4

\* Opening hours mean the same on the card, on the page and on the line of time,
\* at every moment of every week that the form accepts, and the edit form gives
\* them back to the minute or refuses a range that lies within one, for every
\* length of the minute, of the day and of the week.
THEOREM HoursSound == HoursSpec => []HoursAreSound
<1>1. HoursInit => HoursInv
  <2> SUFFICES ASSUME HoursInit PROVE HoursInv
    OBVIOUS
  <2>1. PICK f \in HoursForms : week = parse_hours(f)
    BY DEF HoursInit
  <2>2. Sound(week)
    <3>1. \A d \in IsoDay : f[d] \in DayFields /\ ~Refused(f[d])
      BY <2>1, FormsAccepted
    <3> QED BY <2>1, <3>1, WeekComesBack
  <2>3. 1 \in IsoDay /\ 0 \in TimeOfDay
    BY HoursConstantsOK DEF IsoDay, TimeOfDay
  <2> QED BY <2>2, <2>3 DEF HoursInit, HoursInv
<1>2. HoursInv /\ [HoursNext]_hoursVars => HoursInv'
  <2> SUFFICES ASSUME HoursInv, [HoursNext]_hoursVars PROVE HoursInv'
    OBVIOUS
  <2>1. CASE SecondPasses
    <3>1. PICK d, t : d = at.day /\ t = at.t /\ d \in IsoDay /\ t \in TimeOfDay
      BY DEF HoursInv
    <3>2. at = [day |-> d, t |-> t]
      BY <3>1 DEF HoursInv
    <3>3. at' = IF t < DayLength - 1 THEN [day |-> d, t |-> t + 1]
                ELSE [day |-> IF d = WeekDays THEN 1 ELSE d + 1, t |-> 0]
      BY <2>1, <3>1, <3>2 DEF SecondPasses
    <3>4. t < DayLength - 1 => t + 1 \in TimeOfDay
      BY <3>1, HoursConstantsOK DEF TimeOfDay
    <3>5. 0 \in TimeOfDay /\ (IF d = WeekDays THEN 1 ELSE d + 1) \in IsoDay
      BY <3>1, HoursConstantsOK DEF TimeOfDay, IsoDay
    <3>6. at' \in [day : IsoDay, t : TimeOfDay]
      BY <3>1, <3>3, <3>4, <3>5
    <3>7. Sound(week')
      BY <2>1 DEF SecondPasses, HoursInv
    <3> QED BY <3>6, <3>7 DEF HoursInv
  <2>2. CASE Resave
    <3>1. PICK again : again = hours_fields_from(week)
      OBVIOUS
    <3>2. FormAccepted(again) /\ week' = parse_hours(again) /\ at' = at
      BY <2>2, <3>1 DEF Resave
    <3>3. \A d \in IsoDay : again[d] \in DayFields /\ ~Refused(again[d])
      BY <3>1, <3>2 DEF HoursInv, Sound, FormAccepted
    <3>4. Sound(week')
      BY <3>2, <3>3, WeekComesBack
    <3> QED BY <3>2, <3>4 DEF HoursInv
  <2>3. CASE UNCHANGED hoursVars
    BY <2>3 DEF hoursVars, HoursInv
  <2> QED BY <2>1, <2>2, <2>3 DEF HoursNext
<1>3. HoursInv => HoursAreSound
  <2> SUFFICES ASSUME HoursInv PROVE HoursAreSound
    OBVIOUS
  <2>1. HoursTypeOK
    BY DEF HoursInv, Sound, HoursTypeOK
  <2>3. HoursSurviveTheForm
    <3>1. PICK again : again = hours_fields_from(week)
      OBVIOUS
    <3>2. /\ parse_hours(again) = ToTheMinute(week)
          /\ FormAccepted(again) = ~(\E r \in week.rows : WithinAMinute(r))
      BY <3>1 DEF HoursInv, Sound
    <3>3. ToTheMinute(week) = week => FormAccepted(again)
      BY <3>2, WholeMinutes DEF HoursInv
    <3> QED BY <3>1, <3>2, <3>3 DEF HoursSurviveTheForm
  <2>2. OpenNowAgrees
    BY OpenAgrees DEF HoursInv
  <2> QED BY <2>1, <2>2, <2>3 DEF HoursAreSound
<1> QED BY <1>1, <1>2, <1>3, PTL DEF HoursSpec

(***************************************************************************)
(* EditForm.                                                               *)
(***************************************************************************)

Form == [pc : {"idle", "1", "2", "3", "form", "checked", "pending"},
         version : 0..MaxMerges, parts : [Parts -> Values], touched : Parts]

\* What a form holds as long as the listing has the version it was read in.
CurrentForm(f) ==
  /\ f.version <= listing.version
  /\ f.version = listing.version => \A p \in HeldBy(f) : f.parts[p] = listing.parts[p]

LEMMA EditFacts ==
  ASSUME EditFormInv
  PROVE  /\ MaxMerges \in Nat /\ listing.version \in 0..MaxMerges
         /\ listing.active \in BOOLEAN /\ listing.parts \in [Parts -> Values]
         /\ editing \in [Editors -> Form]
         /\ \A e \in Editors : editing[e] \in Form /\ CurrentForm(editing[e])
         /\ Parts = {"row", "hours", "security"}
<1>1. MaxMerges \in Nat BY EditFormConstantsOK
<1>2. EditFormTypeOK /\ FormsAreCurrent BY DEF EditFormInv, EditsAreSound
<1>3. editing \in [Editors -> Form] BY <1>2 DEF EditFormTypeOK, Form
<1>4. /\ listing.version \in 0..MaxMerges /\ listing.active \in BOOLEAN
      /\ listing.parts \in [Parts -> Values]
  BY <1>2 DEF EditFormTypeOK
<1>5. \A e \in Editors : CurrentForm(editing[e]) BY <1>2 DEF FormsAreCurrent, CurrentForm
<1> QED BY <1>1, <1>3, <1>4, <1>5 DEF Parts

\* An empty form is typed and holds nothing.
LEMMA EmptyForms ==
  ASSUME EditFormInv, NEW pc \in {"idle", "1"}
  PROVE  /\ [NoForm EXCEPT !.pc = pc] \in Form /\ CurrentForm([NoForm EXCEPT !.pc = pc])
         /\ [NoForm EXCEPT !.pc = "idle"] = NoForm
<1>1. PICK f : f = [NoForm EXCEPT !.pc = pc] OBVIOUS
<1>2. MaxMerges \in Nat /\ listing.version \in 0..MaxMerges BY EditFacts
<1>3. 0 \in Values /\ "row" \in Parts BY <1>2 DEF Values, Parts
<1>4. f = [pc |-> pc, version |-> 0, parts |-> [p \in Parts |-> 0], touched |-> "row"]
  BY <1>1 DEF NoForm
<1>5. f \in Form BY <1>2, <1>3, <1>4 DEF Form
<1>6. HeldBy(f) = {} /\ f.version = 0 BY <1>4 DEF HeldBy
<1>7. CurrentForm(f) BY <1>2, <1>6 DEF CurrentForm
<1>8. [NoForm EXCEPT !.pc = "idle"] = NoForm BY DEF NoForm
<1> QED BY <1>1, <1>5, <1>7, <1>8

\* One form moves on while the listing stands.
LEMMA FormMoves ==
  ASSUME EditFormInv, NEW e \in Editors, NEW f \in Form, CurrentForm(f),
         editing' = [editing EXCEPT ![e] = f], UNCHANGED <<listing, merged>>
  PROVE  EditFormInv'
<1>1. editing \in [Editors -> Form] /\ \A d \in Editors : CurrentForm(editing[d]) BY EditFacts
<1>2. editing' \in [Editors -> Form] /\ \A d \in Editors : editing'[d] = IF d = e THEN f ELSE editing[d]
  BY <1>1
<1>3. EditFormTypeOK' BY <1>2 DEF EditFormInv, EditsAreSound, EditFormTypeOK, Form
<1>4. NothingElseIsUndone' BY DEF EditFormInv, EditsAreSound, NothingElseIsUndone
<1>5. FormsAreCurrent'
  <2> SUFFICES ASSUME NEW d \in Editors
               PROVE  /\ editing'[d].version <= listing'.version
                      /\ editing'[d].version = listing'.version =>
                           \A p \in HeldBy(editing'[d]) : editing'[d].parts[p] = listing'.parts[p]
    BY DEF FormsAreCurrent, HeldBy
  <2>1. CurrentForm(editing'[d]) BY <1>1, <1>2
  <2> QED BY <2>1 DEF CurrentForm
<1> QED BY <1>3, <1>4, <1>5 DEF EditFormInv, EditsAreSound

\* The version goes on: every form that is left is one of an older version.
LEMMA VersionMoves ==
  ASSUME EditFormInv, listing.version < MaxMerges,
         listing' \in [version : 0..MaxMerges, active : BOOLEAN, parts : [Parts -> Values]],
         listing'.version = listing.version + 1, editing' = Superseding,
         merged' \in [by : Parts, old : [Parts -> Values], new : [Parts -> Values]],
         NothingElseIsUndone'
  PROVE  EditFormInv'
<1>1. PICK v \in Nat : v = listing.version BY EditFacts
<1>2. \A d \in Editors : editing[d] \in Form /\ editing[d].version <= v
  BY <1>1, EditFacts DEF CurrentForm
<1>3. NoForm \in Form /\ NoForm.version = 0
  <2>1. "idle" \in {"idle", "1"} OBVIOUS
  <2> QED BY <2>1, EmptyForms DEF NoForm
<1>4. \A d \in Editors : editing'[d] = IF editing[d].pc = "pending" THEN NoForm ELSE editing[d]
  BY DEF Superseding
<1>5. editing' \in [Editors -> Form]
  <2>1. editing' = [d \in Editors |-> editing'[d]] BY DEF Superseding
  <2> QED BY <1>2, <1>3, <1>4, <2>1
<1>6. EditFormTypeOK' BY <1>5 DEF EditFormTypeOK, Form
<1>7. \A d \in Editors : editing'[d].version <= v /\ editing'[d].version \in Nat
  <2> SUFFICES ASSUME NEW d \in Editors PROVE editing'[d].version <= v /\ editing'[d].version \in Nat
    OBVIOUS
  <2>1. CASE editing[d].pc = "pending" BY <2>1, <1>3, <1>4
  <2>2. CASE editing[d].pc # "pending"
    <3>1. editing[d].version \in Nat BY <1>2, EditFacts DEF Form
    <3> QED BY <2>2, <3>1, <1>2, <1>4
  <2> QED BY <2>1, <2>2
<1>8. \A d \in Editors : editing'[d].version <= listing'.version /\ editing'[d].version # listing'.version
  BY <1>1, <1>7
<1>9. FormsAreCurrent' BY <1>8 DEF FormsAreCurrent
<1> QED BY <1>6, <1>9 DEF EditFormInv, EditsAreSound

\* A statement brings its part as it is now and leaves the others.
ReadOn(f, p, pc) == [Read(f, p) EXCEPT !.pc = pc]
OthersKept(f, g, p) == \A q \in Parts : q # p => g.parts[q] = f.parts[q]

LEMMA ReadFacts ==
  ASSUME EditFormInv, NEW f \in Form, NEW p \in Parts, NEW pc \in {"2", "3", "form"}
  PROVE  /\ ReadOn(f, p, pc) \in Form /\ ReadOn(f, p, pc).pc = pc
         /\ ReadOn(f, p, pc).version = (IF p = "row" THEN listing.version ELSE f.version)
         /\ ReadOn(f, p, pc).parts[p] = listing.parts[p]
         /\ OthersKept(f, ReadOn(f, p, pc), p)
<1>0. PICK g : g = ReadOn(f, p, pc) OBVIOUS
<1>1. /\ listing.version \in 0..MaxMerges /\ listing.parts \in [Parts -> Values] BY EditFacts
<1>2. listing.parts[p] \in Values BY <1>1
<1>3. PICK parts : parts = [f.parts EXCEPT ![p] = listing.parts[p]] OBVIOUS
<1>4. parts \in [Parts -> Values] /\ \A q \in Parts : parts[q] = IF q = p THEN listing.parts[q] ELSE f.parts[q]
  BY <1>2, <1>3 DEF Form
<1>5. PICK version : version = IF p = "row" THEN listing.version ELSE f.version OBVIOUS
<1>6. version \in 0..MaxMerges BY <1>1, <1>5 DEF Form
<1>7. g = [pc |-> pc, version |-> version, parts |-> parts, touched |-> f.touched]
  BY <1>0, <1>3, <1>5 DEF Read, ReadOn, Form
<1>8. f.touched \in Parts BY DEF Form
<1>9. g.pc = pc /\ g.version = version /\ g.parts = parts BY <1>7
<1>10. pc \in {"idle", "1", "2", "3", "form", "checked", "pending"} OBVIOUS
<1>11. g \in Form BY <1>4, <1>6, <1>7, <1>8, <1>10 DEF Form
<1> QED BY <1>0, <1>4, <1>5, <1>9, <1>11 DEF OthersKept

\* The three statements of the details, with merges in between.
LEMMA ReadPartKeeps ==
  ASSUME EditFormInv, NEW e \in Editors, ReadPart(e)
  PROVE  EditFormInv'
<1>1. PICK f : f = editing[e] OBVIOUS
<1>2. f \in Form /\ CurrentForm(f) BY <1>1, EditFacts
<1>3. PICK i \in 1..3 :
        /\ f.pc = Turns[i] /\ UNCHANGED <<listing, merged>>
        /\ editing' = [editing EXCEPT ![e] =
             IF ReadOrder[i] = "row" /\ ~listing.active THEN NoForm
             ELSE [Read(f, ReadOrder[i]) EXCEPT !.pc = IF i = 3 THEN "form" ELSE Turns[i + 1]]]
  BY <1>1 DEF ReadPart
<1>4. PICK p, pc : /\ p = ReadOrder[i] /\ pc = IF i = 3 THEN "form" ELSE Turns[i + 1] OBVIOUS
<1>5. /\ p \in Parts /\ pc \in {"2", "3", "form"}
      /\ \/ f.pc = "1" /\ p = "row" /\ pc = "2"
         \/ f.pc = "2" /\ p = "hours" /\ pc = "3"
         \/ f.pc = "3" /\ p = "security" /\ pc = "form"
  <2>1. CASE i = 1 BY <2>1, <1>3, <1>4 DEF ReadOrder, Turns, Parts
  <2>2. CASE i = 2 BY <2>2, <1>3, <1>4 DEF ReadOrder, Turns, Parts
  <2>3. CASE i = 3 BY <2>3, <1>3, <1>4 DEF ReadOrder, Turns, Parts
  <2> QED BY <2>1, <2>2, <2>3
<1>6. CASE p = "row" /\ ~listing.active
  <2>1. editing' = [editing EXCEPT ![e] = NoForm] BY <1>3, <1>4, <1>6
  <2>2. NoForm \in Form /\ CurrentForm(NoForm)
    <3>1. "idle" \in {"idle", "1"} OBVIOUS
    <3> QED BY <3>1, EmptyForms
  <2> QED BY <1>3, <2>1, <2>2, FormMoves
<1>7. CASE ~(p = "row" /\ ~listing.active)
  <2>1. PICK g : g = ReadOn(f, p, pc) OBVIOUS
  <2>2. editing' = [editing EXCEPT ![e] = g] BY <1>3, <1>4, <1>7, <2>1 DEF ReadOn
  <2>3. /\ g \in Form /\ g.pc = pc
        /\ g.version = IF p = "row" THEN listing.version ELSE f.version
        /\ g.parts[p] = listing.parts[p]
        /\ \A q \in Parts : q # p => g.parts[q] = f.parts[q]
    <3>1. f \in Form /\ p \in Parts /\ pc \in {"2", "3", "form"} BY <1>2, <1>5
    <3>2. ReadOn(f, p, pc) \in Form BY <3>1, ReadFacts
    <3>3. ReadOn(f, p, pc).pc = pc BY <3>1, ReadFacts
    <3>4. ReadOn(f, p, pc).version = IF p = "row" THEN listing.version ELSE f.version
      BY <3>1, ReadFacts
    <3>5. ReadOn(f, p, pc).parts[p] = listing.parts[p] BY <3>1, ReadFacts
    <3>6. OthersKept(f, ReadOn(f, p, pc), p) BY <3>1, ReadFacts
    <3> QED BY <2>1, <3>2, <3>3, <3>4, <3>5, <3>6 DEF OthersKept
  <2>4. CurrentForm(g)
    <3>1. g.version <= listing.version
      <4>1. listing.version \in Nat BY EditFacts
      <4> QED BY <4>1, <1>2, <2>3 DEF CurrentForm
    <3>2. ASSUME g.version = listing.version, NEW q \in HeldBy(g)
          PROVE  g.parts[q] = listing.parts[q]
      <4>1. CASE f.pc = "1"
        BY <4>1, <3>2, <1>5, <2>3 DEF HeldBy, Parts
      <4>2. CASE f.pc = "2"
        <5>1. f.parts["row"] = listing.parts["row"]
          BY <4>2, <3>2, <1>2, <1>5, <2>3 DEF CurrentForm, HeldBy
        <5> QED BY <4>2, <3>2, <1>5, <2>3, <5>1 DEF HeldBy, Parts
      <4>3. CASE f.pc = "3"
        <5>1. f.parts["row"] = listing.parts["row"] /\ f.parts["hours"] = listing.parts["hours"]
          BY <4>3, <3>2, <1>2, <1>5, <2>3 DEF CurrentForm, HeldBy
        <5> QED BY <4>3, <3>2, <1>5, <2>3, <5>1 DEF HeldBy, Parts
      <4> QED BY <4>1, <4>2, <4>3, <1>5
    <3> QED BY <3>1, <3>2 DEF CurrentForm
  <2> QED BY <1>3, <2>2, <2>3, <2>4, FormMoves
<1> QED BY <1>6, <1>7

\* The form is opened, and posted: compared without a lock.
LEMMA OpenPostKeeps ==
  ASSUME EditFormInv, NEW e \in Editors, OpenEditForm(e) \/ PostForm(e)
  PROVE  EditFormInv'
<1>1. PICK f : f = editing[e] OBVIOUS
<1>2. f \in Form /\ CurrentForm(f) BY <1>1, EditFacts
<1>3. NoForm \in Form /\ CurrentForm(NoForm)
  <2>1. "idle" \in {"idle", "1"} OBVIOUS
  <2> QED BY <2>1, EmptyForms
<1>4. PICK g : g = [NoForm EXCEPT !.pc = "1"] OBVIOUS
<1>5. g \in Form /\ CurrentForm(g)
  <2>1. "1" \in {"idle", "1"} OBVIOUS
  <2> QED BY <1>4, <2>1, EmptyForms
<1>6. PICK h : h = [f EXCEPT !.pc = "checked"] OBVIOUS
<1>7. f.pc = "form" => h \in Form /\ CurrentForm(h)
  <2> SUFFICES ASSUME f.pc = "form" PROVE h \in Form /\ CurrentForm(h) OBVIOUS
  <2>1. h \in Form /\ h.pc = "checked" /\ h.version = f.version /\ h.parts = f.parts
    BY <1>2, <1>6 DEF Form
  <2>2. HeldBy(h) = Parts /\ HeldBy(f) = Parts BY <2>1 DEF HeldBy
  <2> QED BY <1>2, <2>1, <2>2 DEF CurrentForm
<1>8. UNCHANGED <<listing, merged>> BY DEF OpenEditForm, PostForm
<1>9. CASE editing' = [editing EXCEPT ![e] = NoForm] BY <1>3, <1>8, <1>9, FormMoves
<1>10. CASE editing' = [editing EXCEPT ![e] = g] BY <1>5, <1>8, <1>10, FormMoves
<1>11. CASE f.pc = "form" /\ editing' = [editing EXCEPT ![e] = h] BY <1>7, <1>8, <1>11, FormMoves
<1> QED BY <1>1, <1>4, <1>6, <1>9, <1>10, <1>11 DEF OpenEditForm, PostForm

\* The proposal is filed under the lock of the row, with one part changed.
LEMMA FileKeeps ==
  ASSUME EditFormInv, NEW e \in Editors, NEW p \in Parts, File(e, p)
  PROVE  EditFormInv'
<1>1. PICK f : f = editing[e] OBVIOUS
<1>2. f \in Form /\ CurrentForm(f) BY <1>1, EditFacts
<1>3. NoForm \in Form /\ CurrentForm(NoForm)
  <2>1. "idle" \in {"idle", "1"} OBVIOUS
  <2> QED BY <2>1, EmptyForms
<1>4. PICK g : g = [NoForm EXCEPT !.pc = "1"] OBVIOUS
<1>5. g \in Form /\ CurrentForm(g)
  <2>1. "1" \in {"idle", "1"} OBVIOUS
  <2> QED BY <1>4, <2>1, EmptyForms
<1>6. PICK h : h = [f EXCEPT !.pc = "pending", !.version = listing.version, !.touched = p,
                             !.parts[p] = listing.version + 1]
  OBVIOUS
<1>7. ASSUME f.pc = "checked", Fileable(f) PROVE h \in Form /\ CurrentForm(h)
  <2>1. MaxMerges \in Nat /\ listing.version \in 0..MaxMerges BY EditFacts
  <2>2. listing.version + 1 \in Values BY <2>1 DEF Values
  <2>3. PICK parts : parts = [f.parts EXCEPT ![p] = listing.version + 1] OBVIOUS
  <2>4. parts \in [Parts -> Values] /\ \A q \in Parts : q # p => parts[q] = f.parts[q]
    BY <1>2, <2>2, <2>3 DEF Form
  <2>5. h = [pc |-> "pending", version |-> listing.version, parts |-> parts, touched |-> p]
    BY <1>2, <1>6, <2>3 DEF Form
  <2>6. h \in Form BY <2>1, <2>4, <2>5 DEF Form
  <2>7. HeldBy(h) = Parts \ {p} /\ h.version = listing.version /\ h.parts = parts
    BY <2>5 DEF HeldBy
  <2>8. \A q \in Parts : f.parts[q] = listing.parts[q]
    BY <1>2, <1>7 DEF CurrentForm, HeldBy, Fileable
  <2> QED BY <2>1, <2>4, <2>6, <2>7, <2>8 DEF CurrentForm
<1>8. f.pc = "checked" /\ UNCHANGED <<listing, merged>> BY <1>1 DEF File
<1>9. CASE editing' = [editing EXCEPT ![e] = NoForm] BY <1>3, <1>8, <1>9, FormMoves
<1>10. CASE editing' = [editing EXCEPT ![e] = g] BY <1>5, <1>8, <1>10, FormMoves
<1>11. CASE Fileable(f) /\ editing' = [editing EXCEPT ![e] = h] BY <1>7, <1>8, <1>11, FormMoves
<1> QED BY <1>1, <1>4, <1>6, <1>9, <1>10, <1>11 DEF File

\* A proposal of the current version replaces every part.
LEMMA MergeKeeps ==
  ASSUME EditFormInv, NEW e \in Editors, Merge(e)
  PROVE  EditFormInv'
<1>1. PICK f : f = editing[e] OBVIOUS
<1>2. f \in Form /\ CurrentForm(f) BY <1>1, EditFacts
<1>3. /\ f.pc = "pending" /\ listing.version < MaxMerges /\ f.version = listing.version
      /\ listing' = [listing EXCEPT !.version = @ + 1, !.parts = f.parts]
      /\ merged' = [by |-> f.touched, old |-> listing.parts, new |-> f.parts]
      /\ editing' = Superseding
  BY <1>1 DEF Merge
<1>4. MaxMerges \in Nat /\ listing.version \in 0..MaxMerges /\ listing.parts \in [Parts -> Values]
  BY EditFacts
<1>5. f.parts \in [Parts -> Values] /\ f.touched \in Parts BY <1>2 DEF Form
<1>6. /\ listing' \in [version : 0..MaxMerges, active : BOOLEAN, parts : [Parts -> Values]]
      /\ listing'.version = listing.version + 1
  <2>1. listing.version + 1 \in 0..MaxMerges BY <1>3, <1>4
  <2> QED BY <1>3, <1>5, <2>1 DEF EditFormInv, EditsAreSound, EditFormTypeOK
<1>7. merged' \in [by : Parts, old : [Parts -> Values], new : [Parts -> Values]]
  BY <1>3, <1>4, <1>5
<1>8. NothingElseIsUndone'
  <2>1. \A p \in Parts \ {f.touched} : f.parts[p] = listing.parts[p]
    BY <1>2, <1>3 DEF CurrentForm, HeldBy
  <2>2. merged'.by = f.touched /\ merged'.old = listing.parts /\ merged'.new = f.parts BY <1>3
  <2> QED BY <2>1, <2>2 DEF NothingElseIsUndone
<1> QED BY <1>3, <1>6, <1>7, <1>8, VersionMoves

\* The listing moves, or is taken off view or shown again.
LEMMA MoveKeeps ==
  ASSUME EditFormInv, Move \/ SetOnView
  PROVE  EditFormInv'
<1>1. MaxMerges \in Nat /\ listing.version \in 0..MaxMerges BY EditFacts
<1>2. listing.version < MaxMerges /\ editing' = Superseding /\ merged' = merged
  BY DEF Move, SetOnView
<1>3. /\ listing' \in [version : 0..MaxMerges, active : BOOLEAN, parts : [Parts -> Values]]
      /\ listing'.version = listing.version + 1
  <2>1. listing.version + 1 \in 0..MaxMerges BY <1>1, <1>2
  <2> QED BY <2>1 DEF EditFormInv, EditsAreSound, EditFormTypeOK, Move, SetOnView
<1>4. merged' \in [by : Parts, old : [Parts -> Values], new : [Parts -> Values]] /\ NothingElseIsUndone'
  BY <1>2 DEF EditFormInv, EditsAreSound, EditFormTypeOK, NothingElseIsUndone
<1> QED BY <1>2, <1>3, <1>4, VersionMoves

\* No merge undoes what another brought in, for any number of editors and
\* merges: a form read in three statements, with merges in between, changes
\* nothing but the part that its editor changed.
THEOREM EditsSound == EditFormSpec => []EditsAreSound
<1>1. EditFormInit => EditFormInv
  <2> SUFFICES ASSUME EditFormInit PROVE EditFormInv OBVIOUS
  <2>1. MaxMerges \in Nat /\ 0 \in Values /\ "row" \in Parts
    BY EditFormConstantsOK DEF Values, Parts
  <2>2. EditFormTypeOK BY <2>1 DEF EditFormInit, EditFormTypeOK, NoForm
  <2>3. NothingElseIsUndone BY DEF EditFormInit, NothingElseIsUndone
  <2>4. FormsAreCurrent
    <3>1. listing.version = 0 /\ \A e \in Editors : editing[e] = NoForm BY DEF EditFormInit
    <3>2. NoForm.version = 0 /\ HeldBy(NoForm) = {} BY DEF NoForm, HeldBy
    <3> QED BY <3>1, <3>2 DEF FormsAreCurrent
  <2> QED BY <2>2, <2>3, <2>4 DEF EditFormInv, EditsAreSound
<1>2. EditFormInv /\ [EditFormNext]_editVars => EditFormInv'
  <2> SUFFICES ASSUME EditFormInv, [EditFormNext]_editVars PROVE EditFormInv' OBVIOUS
  <2>1. CASE UNCHANGED editVars
    BY <2>1 DEF editVars, EditFormInv, EditsAreSound, EditFormTypeOK, NothingElseIsUndone,
                FormsAreCurrent, HeldBy
  <2>2. CASE EditFormNext
    BY <2>2, OpenPostKeeps, ReadPartKeeps, FileKeeps, MergeKeeps, MoveKeeps DEF EditFormNext
  <2> QED BY <2>1, <2>2
<1>3. EditFormInv => EditsAreSound BY DEF EditFormInv
<1> QED BY <1>1, <1>2, <1>3, PTL DEF EditFormSpec
=============================================================================
