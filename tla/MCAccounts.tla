----------------------------- MODULE MCAccounts -----------------------------
(***************************************************************************)
(* Accounts for TLC: user ids, addresses and request slots are alike.      *)
(* Nothing but LinksReachTheOwner reads the mailboxes a link is in; a run   *)
(* without that property looks at states WithoutMailboxes.                  *)
(***************************************************************************)
EXTENDS Accounts, TLC

CONSTANTS u1, u2, e1, e2, r1, r2

Alike == Permutations(Users) \cup Permutations(Emails) \cup Permutations(Requests)

WithoutMailboxes ==
  <<users, [t \in Tokens |-> [tokens[t] EXCEPT !.held = {}]], sessions, requests, mail>>
=============================================================================
