-------------------------------- MODULE MCServe --------------------------------
(***************************************************************************)
(* A node with two connections, and a local run of etbd beside it: adapters *)
(* with small and large requests and replies, a prover, or nothing to run.  *)
(***************************************************************************)
EXTENDS Serve

Adapter(request, reply, reads, served) ==
  [kind |-> "adapter", request |-> request, reply |-> reply, reads |-> reads,
   served |-> served]

Quiet(kind, served) ==
  [kind |-> kind, request |-> 0, reply |-> 0, reads |-> "never", served |-> served]

MCPlans ==
  UNION {{Adapter(2, 2, reads, served), Adapter(1, 2, reads, served),
          Adapter(2, 1, reads, served), Quiet("prover", served), Quiet("nothing", served)} :
           reads \in {"first", "last", "never"}, served \in BOOLEAN}

\* One process of the three has an adapter or a prover; the handlers of the
\* node ignore SIGCHLD and a local run does not.
MCInit ==
  /\ Init
  /\ \A p \in Procs : plan[p].served = (p \in Clients)
  /\ \A p, q \in Procs : plan[p].kind # "nothing" /\ plan[q].kind # "nothing" => p = q

MCSpec == MCInit /\ [][Next]_vars /\ Fairness

=============================================================================
