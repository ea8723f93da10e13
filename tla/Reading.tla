------------------------------ MODULE Reading -------------------------------
(***************************************************************************)
(* What a reader gets who follows the links of the site: the lists that    *)
(* are read page by page (Feeds) and the pages of a search (Search).  The  *)
(* two share no state.                                                     *)
(***************************************************************************)
EXTENDS Feeds, Search

ReadingSpec == FeedsSpec /\ SearchSpec

\* Who follows the links sees all there is to see, once, while rows come and go:
\* in the lists, and in a search, whose map is bounded as well.
ReadingIsComplete == FeedsAreComplete /\ SearchIsSound
=============================================================================
