------------------------------- MODULE Feeds --------------------------------
(***************************************************************************)
(* Lists that are read page by page while their rows change: favourites,   *)
(* the history of an account, the queues of reports, proposals and photos, *)
(* the proposals and versions of a listing, and the audit log.             *)
(*                                                                         *)
(* Every page is a statement of its own: the rows after a cursor, which is *)
(* the sort key of the last row of the page before.  A row's number and    *)
(* time are taken when its transaction starts and the row is seen when it  *)
(* commits, so rows appear out of order.                                   *)
(***************************************************************************)
EXTENDS Naturals, FiniteSets

CONSTANTS
  MaxPk,         \* bound: rows per table
  MaxTime,       \* bound: the clock stops here
  PageLimit      \* rows of a page

ASSUME FeedConstantsOK == MaxPk \in Nat /\ MaxTime \in Nat /\ PageLimit \in Nat \ {0}

VARIABLES
  feed,          \* which list is read
  row,           \* its rows, with what the order depends on
  reader,        \* where the reader is, and the cursor of the next page
  shown,         \* row |-> how often it was shown, up to twice
  steady,        \* rows that were in the list, unchanged, since the walk began
  clock

feedVars == <<feed, row, reader, shown, steady, clock>>

\* history and photos join tables; the others are one table
Joined == {"history", "photos"}
Feed == Joined \cup {"favourites", "reports", "proposals", "audit", "listing"}
Rows == {r \in [pk : 1..MaxPk, tag : 1..2] : r.tag = 1 \/ r.pk < MaxPk}
RowsOf(f) == IF f \in Joined THEN Rows ELSE {r \in Rows : r.tag = 1}
NoCursor == <<0, 0>>

\* Rows, the reader and the cursor have their types.
FeedsTypeOK ==
  /\ feed \in Feed
  /\ row \in [Rows -> [state : {"none", "open", "in", "out"}, at : 0..MaxTime, esc : BOOLEAN]]
  /\ reader.pc \in {"away", "walking", "ended"}
  /\ shown \in [Rows -> 0..2] /\ steady \subseteq Rows /\ clock \in 0..MaxTime
----------------------------------------------------------------------------
\* ORDER BY: the sort key of a row and its direction.
KeyOf(f, r, x) ==
  CASE f \in {"favourites", "history"} -> <<x.at + 1, r.pk * 10 + r.tag>>
    [] f = "photos"                    -> <<x.at + 1, r.pk>>
    [] f = "proposals"                 -> <<IF x.esc THEN 1 ELSE 2, r.pk>>
    [] f \in {"reports", "audit", "listing"} -> <<1, r.pk>>

Ascending == {"photos", "proposals", "reports"}

\* (a, b) > ($2, $3), or < for a list that starts with the newest
After(f, a, b) ==
  IF f \in Ascending THEN a[1] > b[1] \/ (a[1] = b[1] /\ a[2] > b[2])
                     ELSE a[1] < b[1] \/ (a[1] = b[1] /\ a[2] < b[2])

\* Mutant: the cursor compares only the first column of the key.
MutBeyond(f, a, b) == IF f \in Ascending THEN a[1] > b[1] ELSE a[1] < b[1]

\* The condition on the cursor is the order itself.
Beyond(f, a, b) == After(f, a, b)

Listed == {r \in RowsOf(feed) : row[r].state = "in"}
Key(r) == KeyOf(feed, r, row[r])

\* The queue of proposals has the id alone in its link: the flag is looked up
\* again with the page.
CursorNow ==
  IF feed = "proposals" /\ reader.cursor # NoCursor
  THEN Key([pk |-> reader.cursor[2], tag |-> 1]) ELSE reader.cursor

\* WHERE: the rows after the cursor
Rest == {r \in Listed : reader.cursor = NoCursor \/ Beyond(feed, Key(r), CursorNow)}

\* ORDER BY ... LIMIT
Page == {r \in Rest : Cardinality({q \in Rest : After(feed, Key(r), Key(q))}) < PageLimit}

\* A link to the next page: where the page is full, where a row beyond it was
\* read too (LIMIT n + 1), and in the audit log after any row at all.
HasNext(page) ==
  CASE feed = "audit"   -> page # {}
    [] feed = "listing" -> Rest \ page # {}
    [] feed \notin {"audit", "listing"} -> Cardinality(page) = PageLimit

LastOf(page) == CHOOSE r \in page : \A q \in page : q # r => After(feed, Key(r), Key(q))
----------------------------------------------------------------------------
StartWalk ==
  /\ reader.pc = "away"
  /\ reader' = [pc |-> "walking", cursor |-> NoCursor]
  /\ steady' = Listed
  /\ UNCHANGED <<feed, row, shown, clock>>

ReadPage ==
  /\ reader.pc = "walking"
  /\ shown' = [r \in Rows |-> IF r \in Page /\ shown[r] < 2 THEN shown[r] + 1 ELSE shown[r]]
  /\ reader' = IF HasNext(Page)
               THEN [pc |-> "walking", cursor |-> Key(LastOf(Page))]
               ELSE [pc |-> "ended", cursor |-> reader.cursor]
  /\ UNCHANGED <<feed, row, steady, clock>>
----------------------------------------------------------------------------
\* What other requests do to the rows.

\* A transaction takes its time and its number.  A favourite may come back
\* under the number it had; two photos of the two tables do not share number
\* and microsecond.
OpenRow(r) ==
  /\ r \in RowsOf(feed)
  /\ row[r].state = "none" \/ (feed = "favourites" /\ row[r].state = "out")
  /\ feed # "favourites" => \A q \in Rows : q.tag = r.tag /\ q.pk < r.pk => row[q].state # "none"
  /\ feed = "photos" =>
       \A q \in Rows : q.pk = r.pk /\ row[q].state # "none" => row[q].at # clock
  /\ row' = [row EXCEPT ![r] = [state |-> "open", at |-> clock, esc |-> FALSE]]
  /\ UNCHANGED <<feed, reader, shown, steady, clock>>

CommitRow(r) ==
  /\ row[r].state = "open"
  /\ row' = [row EXCEPT ![r] = [@ EXCEPT !.state = "in"]]
  /\ UNCHANGED <<feed, reader, shown, steady, clock>>

\* Removed, decided, or no longer of the state that is listed.
LeaveFeed(r) ==
  /\ row[r].state = "in" /\ feed # "audit"
  /\ row' = [row EXCEPT ![r] = [@ EXCEPT !.state = "out"]]
  /\ steady' = steady \ {r}
  /\ UNCHANGED <<feed, reader, shown, clock>>

\* A proposal is escalated to the moderators and moves to the front.
EscalateRow(r) ==
  /\ feed = "proposals" /\ row[r].state = "in" /\ ~row[r].esc
  /\ row' = [row EXCEPT ![r] = [@ EXCEPT !.esc = TRUE]]
  /\ steady' = steady \ {r}
  /\ UNCHANGED <<feed, reader, shown, clock>>

ClockMoves ==
  /\ clock < MaxTime
  /\ clock' = clock + 1
  /\ UNCHANGED <<feed, row, reader, shown, steady>>
----------------------------------------------------------------------------
FeedsInit ==
  /\ feed \in Feed
  /\ row = [r \in Rows |-> [state |-> "none", at |-> 0, esc |-> FALSE]]
  /\ reader = [pc |-> "away", cursor |-> NoCursor]
  /\ shown = [r \in Rows |-> 0] /\ steady = {} /\ clock = 0

FeedsNext ==
  \/ StartWalk \/ ReadPage \/ ClockMoves
  \/ \E r \in Rows : OpenRow(r) \/ CommitRow(r) \/ LeaveFeed(r) \/ EscalateRow(r)

FeedsSpec == FeedsInit /\ [][FeedsNext]_feedVars
----------------------------------------------------------------------------
\* Properties.

\* A reader who follows the links to the end has seen every row that was there
\* all the time, whatever was added, removed or moved around it; and no row
\* twice, except in the queue of proposals, where an escalation of the row at
\* the cursor sends the reader back.
WalkIsComplete ==
  /\ reader.pc = "ended" => \A r \in steady : shown[r] >= 1
  /\ feed # "proposals" => \A r \in Rows : shown[r] <= 1

\* The same as one formula, with the types.
FeedsAreComplete == FeedsTypeOK /\ WalkIsComplete
----------------------------------------------------------------------------
\* The inductive invariant.

\* Rows have a time that has come, and only rows of the list are ever filled.
RowsAreTimed ==
  \A r \in Rows : /\ row[r].at <= clock
                  /\ row[r].state # "none" => r \in RowsOf(feed)

\* No two rows of a list share a sort key.
KeysDiffer ==
  \A q, r \in Rows : row[q].state # "none" /\ row[r].state # "none" /\ q # r => Key(q) # Key(r)

\* A cursor is a sort key; that of the proposals names a row.
CursorIsAKey ==
  /\ reader.cursor \in Nat \X Nat
  /\ reader.pc = "away" => reader.cursor = NoCursor
  /\ feed = "proposals" /\ reader.cursor # NoCursor =>
       /\ [pk |-> reader.cursor[2], tag |-> 1] \in Rows
       /\ row[[pk |-> reader.cursor[2], tag |-> 1]].state # "none"

\* What was shown had been filled, and before the first page nothing was.
ShownWasThere ==
  /\ \A r \in Rows : shown[r] > 0 => row[r].state # "none"
  /\ reader.pc # "ended" /\ reader.cursor = NoCursor => \A r \in Rows : shown[r] = 0

\* What stayed is in the list, and ahead of the reader until it is shown.
UnshownIsAhead ==
  /\ steady \subseteq Listed
  /\ reader.pc = "walking" /\ reader.cursor # NoCursor =>
       \A r \in steady : shown[r] = 0 => Beyond(feed, Key(r), CursorNow)

\* What was shown is behind the reader.
ShownIsBehind ==
  feed # "proposals" /\ reader.pc = "walking" /\ reader.cursor # NoCursor =>
    \A r \in Rows : shown[r] > 0 => ~Beyond(feed, Key(r), reader.cursor)

FeedsInv ==
  /\ FeedsAreComplete /\ RowsAreTimed /\ KeysDiffer /\ CursorIsAKey
  /\ ShownWasThere /\ UnshownIsAhead /\ ShownIsBehind
=============================================================================
