------------------------------ MODULE MCChildren ------------------------------
(***************************************************************************)
(* A handler of a node that runs its prover, undisturbed.                   *)
(***************************************************************************)
EXTENDS Children

MCPlans ==
  {[kind |-> "prover", request |-> 0, reply |-> 0, reads |-> "never", served |-> TRUE]}

=============================================================================
