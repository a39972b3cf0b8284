---------------------------- MODULE MCDelegation ----------------------------
(***************************************************************************)
(* Instances of Links for TLC: every set of up to MaxSmall links among     *)
(* three principals, and of up to MaxChain links along one chain.          *)
(***************************************************************************)
EXTENDS Links

CONSTANTS
  MaxSmall,   \* bound: links stored among three principals in general position
  MaxChain    \* bound: links stored along one long chain

MCPrincipals == {"alice", "manager", "bank", "p1", "p2", "p3", "p4", "p5"}
MCPredicates == {"approve", "audit"}
MCScopes == {"*", "app"}
MCCovers == {<<"app", "approve">>}

MCLink(who, to, scope, expires, depth) ==
  [who |-> who, to |-> to, scope |-> scope, expires |-> expires, depth |-> depth]

(* Links between distinct principals, with and without each attribute, so  *)
(* that chains meet scopes, expiry and limits in every combination.        *)
SmallLinks ==
  {MCLink(p[1], p[2], s, e, d) :
     p \in {<<"alice", "manager">>, <<"manager", "bank">>, <<"manager", "alice">>},
     s \in MCScopes, e \in {0, 1}, d \in {0, 1}}

(* A chain of four links in which any link may set the limit, and a back   *)
(* edge that makes a cycle on which a limit can be lowered or raised.      *)
ChainLinks ==
  {MCLink(p[1], p[2], "*", 0, d) :
     p \in {<<"p1", "p2">>, <<"p2", "p3">>, <<"p3", "p4">>, <<"p4", "p5">>},
     d \in {0, 1, 3}}
    \cup {MCLink("p2", "p1", "*", 0, 3)}

MCUniverses == {[links |-> SmallLinks, max |-> MaxSmall],
                [links |-> ChainLinks, max |-> MaxChain]}
=============================================================================
