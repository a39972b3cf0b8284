-------------------------------- MODULE Links --------------------------------
(***************************************************************************)
(* The delegations of one engine: its clock is fixed, and speaks_for atoms *)
(* are stored one at a time and never dropped (etb_relation_set_add_fact). *)
(* Every set of links some universe allows is reached, and in each the     *)
(* walk of src/engine/delegation.c is compared with the chains there are.  *)
(***************************************************************************)
EXTENDS Chains, FiniteSets

CONSTANTS
  Universes,     \* what may be stored: sets of links, each with a bound
  Clocks,        \* values of engine->now
  LongestLimit   \* no depth attribute exceeds it

Link == [who : Principals, to : Principals, scope : Scopes, expires : Nat, depth : Nat]
Universe == [links : SUBSET Link, max : Nat]

ASSUME LinksAssumption ==
  /\ Universes \subseteq Universe
  /\ Clocks \subseteq Nat
  /\ LongestLimit \in Nat
  /\ DefaultDepth <= LongestLimit
  /\ \A u \in Universes : \A link \in u.links : link.depth <= LongestLimit

VARIABLES universe, links, now

vars == <<universe, links, now>>

Init == universe \in Universes /\ links = {} /\ now \in Clocks

(* Bound: universe.max links are stored.                                   *)
AddLink(link) ==
  /\ Cardinality(links) < universe.max
  /\ link \notin links
  /\ links' = links \cup {link}
  /\ UNCHANGED <<universe, now>>

Next == \E link \in universe.links : AddLink(link)

Spec == Init /\ [][Next]_vars

-----------------------------------------------------------------------------
(* The questions asked: between the ends of links, about every predicate.  *)
Ends == {link.who : link \in universe.links} \cup {link.to : link \in universe.links}
Asked == Ends \X Ends \X Predicates

Granted(ls) == {q \in Asked : Allows(ls, q[1], q[2], q[3], now)}

(* The walk of etb_delegation_visit accepts a pair of principals exactly   *)
(* when a chain of usable links, each within the limit in force at its     *)
(* depth, leads from one to the other: an expired or out-of-scope link     *)
(* counts nowhere in a chain, a cycle neither traps nor helps the walk, a  *)
(* depth attribute limits every link after it and nothing else does.       *)
AllowsIffChain ==
  \A q \in Asked :
    Allows(links, q[1], q[2], q[3], now)
      <=> \E chain \in ChainsOver(links, LongestLimit) : IsChain(chain, q[1], q[2], q[3], now)

(* Adding a link never withdraws a permission: an engine that stores a new *)
(* speaks_for atom, whatever depth it carries, keeps every delegated       *)
(* reading it has already used in a derivation.                            *)
GrantsOnlyGrow == [][Granted(links) \subseteq Granted(links')]_vars
=============================================================================
