---------------------------- MODULE MCAdminRoles ----------------------------
(* AdminRoles for TLC: transactions are alike. *)
EXTENDS AdminRoles, TLC

CONSTANTS a1, a2, a3, t1, t2, t3

Alike == Permutations(Txs)
=============================================================================
