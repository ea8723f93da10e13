----------------------------- MODULE MCListings -----------------------------
(* Listings for TLC: proposals are alike, and so are the ordinary users. *)
EXTENDS Listings, TLC

CONSTANTS m1, u1, u2, p1, p2

Alike == Permutations(Ids) \cup Permutations(Users \ Moderators)
=============================================================================
