------------------------------- MODULE MCMembers -------------------------------
(***************************************************************************)
(* Three reports of one node and one of another, in every order, with       *)
(* expiries between them; the clock is three bits wide, so that a lease may *)
(* end after its last time.                                                 *)
(***************************************************************************)
EXTENDS Members, TLC

CONSTANTS n1, n2

Alike == Permutations(Endpoints)

MCMaxTold(n) == IF n = n1 THEN 3 ELSE 1
=============================================================================
