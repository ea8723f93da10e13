------------------------------- MODULE Search -------------------------------
(***************************************************************************)
(* Finding a place: the pages of a search around a destination, and the    *)
(* map's own viewport, while listings change.                              *)
(*                                                                         *)
(* A page is two statements on two connections: how many listings match,   *)
(* and the rows after the cursor.  The link to the next page carries the   *)
(* words that were typed, the filters, the sort and the cursor: the next   *)
(* request resolves the words again and computes every key anew.           *)
(***************************************************************************)
EXTENDS Integers, FiniteSets

CONSTANTS
  Spots,         \* listings, by number
  Facts,         \* what a listing may be, as far as search can tell
  Sorts,         \* orders the reader may ask for
  PageSize,      \* rows of a page
  MarkerCap,     \* rows the map draws one by one
  MaxChanges     \* bound: changes of listings and of the provider's answer

ASSUME SearchConstantsOK ==
  /\ Spots \subseteq Nat /\ IsFiniteSet(Spots) /\ PageSize \in Nat \ {0} /\ MarkerCap \in Nat \ {0}
  /\ MaxChanges \in Nat
  /\ Sorts \subseteq {"distance", "security", "rating", "recently_verified", "recommended"}
  /\ Sorts # {}
  /\ Facts \subseteq [state : {"ACTIVE", "HIDDEN"}, near : 0..3, yes : 0..8,
                      rating2 : -1..10, age : -1..400, open : BOOLEAN]

VARIABLES
  spot,          \* listing |-> its facts
  provider,      \* where the provider puts the words that were typed
  asked,         \* the search: mode, sort, filter
  finder,        \* where the request is, its origin, cursor, total
  found,         \* listing |-> how often a page of this walk showed it, up to twice
  unmoved,       \* listings that matched all the time, with the same key
  changes        \* changes so far

searchVars == <<spot, provider, asked, finder, found, unmoved, changes>>

Radius == 2
Here == {"here", "there"}
NoKey  == [sort |-> "none", v |-> 0, id |-> 0]
NoText == [s |-> "none"]       \* no cursor in the address
Cut    == [s |-> "recomm"]     \* a cursor that lost its end

\* Listings, the request and its cursor have their types.
SearchTypeOK ==
  /\ spot \in [Spots -> Facts] /\ provider \in Here
  /\ asked \in [mode : {"radius", "browse"}, sort : Sorts, open_now : BOOLEAN]
  /\ finder \in [pc : {"idle", "resolve", "count", "rows", "clusters", "ended"}, origin : Here,
                 cursor : {NoText, Cut} \cup [s : Sorts, v : Int, id : Spots],
                 total : 0..Cardinality(Spots), drawn : SUBSET Spots, first : BOOLEAN]
  /\ found \in [Spots -> 0..2] /\ unmoved \subseteq Spots /\ changes \in 0..MaxChanges
----------------------------------------------------------------------------
\* Which listings match, and how they rank.

\* ST_Distance from the origin
Distance(o, f) == IF o = "here" THEN f.near ELSE 3 - f.near

\* FILTERS: on view, within the radius, open if that was asked.
MatchesRadius(o, q, f) ==
  /\ f.state = "ACTIVE" /\ Distance(o, f) <= Radius
  /\ q.open_now => f.open

\* BOUNDS_FILTERS: the same, with the map's box for the radius.
MatchesBounds(q, f) == f.state = "ACTIVE" /\ f.near <= Radius /\ (q.open_now => f.open)

Matches(o, q, f) == IF q.mode = "browse" THEN MatchesBounds(q, f) ELSE MatchesRadius(o, q, f)

\* Sub-scores out of 40; what is not known scores the middle.
FreshnessScore(age) ==
  CASE age < 0   -> 20
    [] age \in 0..29    -> 40
    [] age \in 30..89   -> 30
    [] age \in 90..179  -> 20
    [] age \in 180..364 -> 10
    [] age > 364 -> 4

\* RECOMMENDED_SORT_KEY with the default weights, times 4000
Score(o, f) ==
  35 * (40 - (40 * Distance(o, f)) \div Radius)
  + 25 * (IF f.yes > 0 THEN 5 * f.yes ELSE 20)
  + 20 * (IF f.rating2 < 0 THEN 20 ELSE 4 * f.rating2)
  + 15 * FreshnessScore(f.age)
  +  5 * (IF f.age < 0 THEN 20 ELSE 40)

\* sort_key_sql: ascending, the best first.  Keys are twice the value, so that
\* the odd numbers are what lies between two neighbouring values.
SortKey(sort, o, f) ==
  2 * CASE sort = "distance"          -> Distance(o, f)
        [] sort = "security"          -> -f.yes
        [] sort = "rating"            -> -(IF f.rating2 < 0 THEN 5 ELSE f.rating2)
        [] sort = "recently_verified" -> IF f.age < 0 THEN 0 ELSE f.age - 1000
        [] sort = "recommended"       -> -Score(o, f)

\* (sort_key, id): what a page is ordered by
Ranks(sort, o, s, v, id) ==
  LET k == SortKey(sort, o, spot[s]) IN k > v \/ (k = v /\ s > id)

Matching(o) == {s \in Spots : Matches(o, asked, spot[s])}

\* the first n of a set, in the order of a sort
Best(n, sort, o, S) ==
  {s \in S : Cardinality({t \in S : Ranks(sort, o, s, SortKey(sort, o, spot[t]), t)}) < n}
----------------------------------------------------------------------------
\* Cursor::encode: three JSON fields, in base64
Encode(c) == [s |-> c.sort, v |-> c.v, id |-> c.id]

\* Cursor::decode: what lacks a field or names no order is no cursor, and the
\* number is the one that was written (float_roundtrip).
Decode(text) ==
  IF DOMAIN text = {"s", "v", "id"} /\ text.s \in Sorts
  THEN [sort |-> text.s, v |-> text.v, id |-> text.id] ELSE NoKey

\* SearchRequest::new: a cursor of another order is no cursor.
Usable(sort, c) == c # NoKey /\ c.sort = sort

\* The page's condition on the cursor.
Later(o, S) ==
  LET c == Decode(finder.cursor) IN
  IF Usable(asked.sort, c) THEN {s \in S : Ranks(asked.sort, o, s, c.v, c.id)} ELSE S

\* reader.search(request, page_size + 1): one more row than is shown
PageRows(o) == Best(PageSize + 1, asked.sort, o, Later(o, Matching(o)))

\* bounds_page: nearest the centre first, LIMIT whatever was counted before
BoundsPage == Best(MarkerCap, "distance", "here", Matching("here"))

\* listings of the walk that still match, under the key they had
StillThere(old, new, o, p) ==
  {s \in unmoved : /\ Matches(p, asked, new[s])
                   /\ SortKey(asked.sort, p, new[s]) = SortKey(asked.sort, o, old[s])}

----------------------------------------------------------------------------
\* One request.

\* SearchParams::parse, is_browse: a new search, or one whose address still has
\* the cursor of another order, or a damaged one.
Ask(q, text) ==
  /\ finder.pc \in {"idle", "ended"}
  /\ text # NoText => asked.mode = "radius" /\ q.mode = "radius"
  /\ Decode(text).sort # q.sort
  /\ asked' = q
  /\ finder' = [pc |-> IF q.mode = "browse" THEN "count" ELSE "resolve", origin |-> "here",
                cursor |-> text, total |-> 0, drawn |-> {},
                first |-> TRUE]
  /\ found' = [s \in Spots |-> 0] /\ unmoved' = Spots
  /\ UNCHANGED <<spot, provider, changes>>

\* admit_search, resolve: the words go to the provider, which bills the call;
\* without budget, or without an answer, the page is only a notice.
ResolveOrigin ==
  /\ finder.pc = "resolve"
  /\ \/ /\ finder' = [finder EXCEPT !.pc = "count", !.origin = provider]
        /\ unmoved' = IF finder.first THEN Matching(provider)
                      ELSE StillThere(spot, spot, finder.origin, provider)
     \/ finder' = [finder EXCEPT !.pc = "idle", !.cursor = NoText] /\ unmoved' = {}
  /\ UNCHANGED <<spot, provider, asked, found, changes>>

\* count, bounds_count: the first statement; a crowded viewport gets clusters.
CountMatches ==
  /\ finder.pc = "count"
  /\ LET n == Cardinality(Matching(finder.origin)) IN
     finder' = [finder EXCEPT !.total = n,
                  !.pc = IF asked.mode = "browse" /\ n > MarkerCap THEN "clusters" ELSE "rows"]
  /\ unmoved' = unmoved \cap Matching(finder.origin)
  /\ UNCHANGED <<spot, provider, asked, found, changes>>

Showing(S) == [s \in Spots |-> IF s \in S /\ found[s] < 2 THEN found[s] + 1 ELSE found[s]]

\* page, SearchParking::page: the second statement, and the link to the next
\* page from the last row that is shown, with the key the statement gave it.
ReadRows ==
  /\ finder.pc = "rows" /\ asked.mode = "radius"
  /\ LET o     == finder.origin
         rows  == PageRows(o)
         items == Best(PageSize, asked.sort, o, rows)
         last  == CHOOSE s \in items : \A t \in items \ {s} :
                    Ranks(asked.sort, o, s, SortKey(asked.sort, o, spot[t]), t) IN
     /\ found' = Showing(items)
     /\ finder' = IF Cardinality(rows) > PageSize
                  THEN [finder EXCEPT !.pc = "resolve", !.drawn = items, !.first = FALSE,
                          !.cursor = Encode([sort |-> asked.sort, id |-> last,
                                             v |-> SortKey(asked.sort, o, spot[last])])]
                  ELSE [finder EXCEPT !.pc = "ended", !.drawn = items]
  /\ UNCHANGED <<spot, provider, asked, unmoved, changes>>

\* in_bounds_at: the rows of the viewport, or its grid of counts; no pages.
ReadViewport ==
  /\ finder.pc \in {"rows", "clusters"} /\ asked.mode = "browse"
  /\ LET items == IF finder.pc = "clusters" THEN {} ELSE BoundsPage IN
     /\ found' = Showing(items)
     /\ finder' = [finder EXCEPT !.pc = "ended", !.drawn = items]
  /\ UNCHANGED <<spot, provider, asked, unmoved, changes>>

\* The reader leaves the link alone and starts over.
GiveUp ==
  /\ finder.pc = "resolve" /\ ~finder.first
  /\ finder' = [finder EXCEPT !.pc = "ended", !.total = 0, !.drawn = {}]
  /\ unmoved' = {}
  /\ UNCHANGED <<spot, provider, asked, found, changes>>
----------------------------------------------------------------------------
\* What happens meanwhile.

\* A listing is published, hidden, edited, reviewed or verified, it opens or
\* closes, or the day ends.
ChangeSpot(s, f) ==
  /\ changes < MaxChanges /\ f # spot[s]
  /\ spot' = [spot EXCEPT ![s] = f] /\ changes' = changes + 1
  /\ unmoved' = StillThere(spot, spot', finder.origin, finder.origin)
  /\ UNCHANGED <<provider, asked, finder, found>>

\* The provider puts the same words elsewhere.
Relocate ==
  /\ changes < MaxChanges
  /\ provider' \in Here \ {provider} /\ changes' = changes + 1
  /\ UNCHANGED <<spot, asked, finder, found, unmoved>>
----------------------------------------------------------------------------
Requested == [mode : {"radius", "browse"}, sort : Sorts, open_now : BOOLEAN]

SearchInit ==
  /\ spot \in [Spots -> Facts] /\ provider = "here"
  /\ asked = CHOOSE q \in Requested : q.mode = "browse"
  /\ finder = [pc |-> "idle", origin |-> "here", cursor |-> NoText, total |-> 0,
               drawn |-> {}, first |-> TRUE]
  /\ found = [s \in Spots |-> 0] /\ unmoved = {} /\ changes = 0

SearchNext ==
  \/ \E q \in Requested, text \in {NoText, Cut, finder.cursor} : Ask(q, text)
  \/ ResolveOrigin \/ CountMatches \/ ReadRows \/ ReadViewport \/ GiveUp
  \/ \E s \in Spots, f \in Facts : ChangeSpot(s, f)
  \/ Relocate

SearchSpec == SearchInit /\ [][SearchNext]_searchVars
----------------------------------------------------------------------------
\* Properties.

\* A reader who follows the links of a search to its end has been shown every
\* listing that matched from first to last under one key, and none of those
\* twice: whatever was published, hidden, rated or moved around it, whichever
\* order was asked for, and although an old cursor may still be in the address.
SearchWalkIsComplete ==
  /\ finder.pc = "ended" /\ asked.mode = "radius" => \A s \in unmoved : found[s] >= 1
  /\ asked.mode = "radius" => \A s \in unmoved : found[s] <= 1

\* The map never draws more markers than its cap and a page never lists more
\* than its size, although listings appear after they were counted.
DrawnIsBounded ==
  Cardinality(finder.drawn) <= IF asked.mode = "browse" THEN MarkerCap ELSE PageSize

\* A search is complete, its pages and its map are bounded.
SearchIsSound == SearchTypeOK /\ SearchWalkIsComplete /\ DrawnIsBounded

----------------------------------------------------------------------------
\* The inductive invariant.

\* A search that has not ended yet.
Underway == finder.pc \in {"resolve", "count", "rows"} /\ asked.mode = "radius"

\* What stayed matches, once the words have a place.
UnmovedMatches ==
  Underway /\ (finder.first => finder.pc # "resolve") => unmoved \subseteq Matching(finder.origin)

\* Before the first page nothing was shown, and no cursor of another search counts.
FirstPageIsFresh ==
  Underway /\ finder.first =>
    ~Usable(asked.sort, Decode(finder.cursor)) /\ \A s \in Spots : found[s] = 0

\* After it, what stayed was shown exactly if it is behind the cursor.
LaterPagesGoOn ==
  Underway /\ ~finder.first =>
    LET c == Decode(finder.cursor) IN
    /\ Usable(asked.sort, c) /\ c.v \in Int /\ c.id \in Spots
    /\ \A s \in unmoved : IF Ranks(asked.sort, finder.origin, s, c.v, c.id)
                           THEN found[s] = 0 ELSE found[s] = 1

\* Clusters are the map's, and a search that was refused promises nothing.
NothingIsPromised ==
  /\ finder.pc = "clusters" => asked.mode = "browse"
  /\ finder.pc = "idle" => unmoved = {}

SearchInv ==
  /\ SearchIsSound /\ UnmovedMatches /\ FirstPageIsFresh /\ LaterPagesGoOn
  /\ NothingIsPromised
----------------------------------------------------------------------------
\* What the code says of its two statements: a search that fits on one page
\* lists as many places as it announces.
CountIsThePage ==
  finder.pc = "ended" /\ finder.first /\ asked.mode = "radius" =>
    finder.total = Cardinality(finder.drawn)
=============================================================================
