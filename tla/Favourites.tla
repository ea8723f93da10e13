----------------------------- MODULE Favourites -----------------------------
(***************************************************************************)
(* The heart on a listing.  A toggle is one statement, a DELETE in a CTE   *)
(* and an INSERT that runs when nothing was deleted, and still two moments *)
(* of the database: the snapshot it starts with, and the row locks and the *)
(* primary key it meets when it acts.  Double clicks and retries make two  *)
(* of them cross.                                                          *)
(***************************************************************************)
EXTENDS Naturals

CONSTANTS
  Clicks,        \* requests under way at a time
  Lovers,        \* accounts
  Tuples,        \* row versions the table can hold of one favourite
  NoTuple        \* no row

ASSUME TuplesOK == NoTuple \notin Tuples

VARIABLES
  favourite,     \* account |-> the row version that is there, or NoTuple
  left,          \* accounts that were erased
  toggling       \* what each request is doing, and what it answered last

favouriteVars == <<favourite, left, toggling>>

NotToggling == [pc |-> "none"]
Answers == {"added", "removed", "Conflict"}
FavouriteRows == Tuples \cup {NoTuple}

\* Rows and requests have their types.
FavouritesTypeOK ==
  /\ favourite \in [Lovers -> FavouriteRows] /\ left \subseteq Lovers
  /\ toggling \in [Clicks -> {NotToggling} \cup
       [pc : {"admitted"}, who : Lovers] \cup
       [pc : {"reads"}, who : Lovers, saw : FavouriteRows] \cup
       [pc : {"answered"}, who : Lovers, answer : Answers]]
----------------------------------------------------------------------------
\* The session is resolved by the middleware, and the account not asked again.
ArriveToToggle(c, u) ==
  /\ toggling[c].pc \in {"none", "answered"} /\ u \notin left
  /\ toggling' = [toggling EXCEPT ![c] = [pc |-> "admitted", who |-> u]]
  /\ UNCHANGED <<favourite, left>>

\* The statement begins: both arms see this snapshot.
BeginToggle(c) ==
  /\ toggling[c].pc = "admitted"
  /\ toggling' = [toggling EXCEPT ![c] =
       [pc |-> "reads", who |-> @.who, saw |-> favourite[@.who]]]
  /\ UNCHANGED <<favourite, left>>

\* Mutant: what was seen decides, and the DELETE may find another row or none.
MutDeletes(x) == x.saw # NoTuple

\* DELETE ... RETURNING 1: the row version of the snapshot, if it is still
\* there.  READ COMMITTED skips one that was removed meanwhile, also when
\* another with the same key has come in its place.
Deletes(x) == x.saw # NoTuple /\ favourite[x.who] = x.saw

\* A new row is a version that no statement under way has seen.
FreshTuples(u) ==
  {t \in Tuples : \A c \in Clicks :
     toggling[c].pc = "reads" /\ toggling[c].who = u => toggling[c].saw # t}

\* INSERT ... WHERE NOT EXISTS (SELECT 1 FROM del): a row that is there and was
\* not deleted is a unique violation, and an erased account still has its
\* users row.
Toggle(c) ==
  LET x == toggling[c] IN
  /\ x.pc = "reads"
  /\ \E answer \in Answers, row \in FavouriteRows :
       /\ CASE Deletes(x)                   -> answer = "removed" /\ row = NoTuple
            [] ~Deletes(x) /\ favourite[x.who] # NoTuple
                                            -> answer = "Conflict" /\ row = favourite[x.who]
            [] ~Deletes(x) /\ favourite[x.who] = NoTuple
                                            -> answer = "added" /\ row \in FreshTuples(x.who)
       /\ toggling' = [toggling EXCEPT ![c] = [pc |-> "answered", who |-> x.who, answer |-> answer]]
       /\ favourite' = [favourite EXCEPT ![x.who] = row]
  /\ UNCHANGED left

\* anonymize: DELETE FROM favorite WHERE user_id = $1
EraseLover(u) ==
  /\ u \notin left
  /\ left' = left \cup {u} /\ favourite' = [favourite EXCEPT ![u] = NoTuple]
  /\ UNCHANGED toggling
----------------------------------------------------------------------------
FavouritesInit ==
  /\ favourite = [u \in Lovers |-> NoTuple] /\ left = {}
  /\ toggling = [c \in Clicks |-> NotToggling]

FavouritesNext ==
  \/ \E c \in Clicks : (\E u \in Lovers : ArriveToToggle(c, u)) \/ BeginToggle(c) \/ Toggle(c)
  \/ \E u \in Lovers : EraseLover(u)

FavouritesSpec == FavouritesInit /\ [][FavouritesNext]_favouriteVars
----------------------------------------------------------------------------
\* Properties.

\* toggle: "a double-click cannot ... [report] the wrong result": whatever the
\* two statements saw of each other, an answer of added or removed is given by
\* the statement that turned the row over; a removal takes the very row its
\* statement saw, never one that another click put there since, and the error
\* means that such a row is there and stays.
AnswerIsTheTurn ==
  [][\A c \in Clicks :
       toggling[c].pc = "reads" /\ toggling'[c].pc = "answered" =>
         LET u == toggling[c].who  saw == toggling[c].saw IN
         CASE toggling'[c].answer = "added"    -> favourite[u] = NoTuple /\ favourite'[u] # NoTuple
           [] toggling'[c].answer = "removed"  ->
                saw # NoTuple /\ favourite[u] = saw /\ favourite'[u] = NoTuple
           [] toggling'[c].answer = "Conflict" ->
                /\ favourite[u] # NoTuple /\ favourite[u] # saw
                /\ favourite'[u] = favourite[u]]_favouriteVars

\* The row and the answers about it stay in step.
FavouritesAreSound == []FavouritesTypeOK /\ AnswerIsTheTurn
=============================================================================
