----------------------------- MODULE Delegation -----------------------------
(***************************************************************************)
(* The delegation check of the evaluator (src/engine/delegation.c).        *)
(*                                                                         *)
(* A link is a stored atom  who speaks_for to [scope, expires, depth].     *)
(* Allows answers the question the says-branch of the evaluator asks: may  *)
(* a statement of the principal speaker be read as a statement of target?  *)
(* The module has no state; Engine uses it on the stored speaks_for atoms. *)
(***************************************************************************)
EXTENDS Integers

CONSTANTS
  Principals,    \* names of principals
  Predicates,    \* predicate names; a name stands for one name/arity pair
  Scopes,        \* the scope attributes links carry
  AnyScope,      \* scope "*", or no scope attribute
  Covers,        \* <<scope, pred>> such that scope is a prefix of pred
  DefaultDepth   \* 8 in the code: the depth limit before any link sets one

ASSUME DelegationAssumption ==
  /\ DefaultDepth \in Nat
  /\ AnyScope \in Scopes
  /\ Covers \subseteq Scopes \X Predicates

(* etb_scope_allows: a scope covers the predicates it is a prefix of.      *)
ScopeAllows(scope, pred) == scope = AnyScope \/ <<scope, pred>> \in Covers

(* A link the walk may use now: not expired, and its scope covers pred.    *)
Live(link, pred, now) ==
  /\ link.expires = 0 \/ now <= link.expires
  /\ ScopeAllows(link.scope, pred)

(* The limit for the rest of a chain that follows link: the link's own     *)
(* depth attribute, if it has one, REPLACES the limit in force.            *)
LimitAfter(link, limit) == IF link.depth = 0 THEN limit ELSE link.depth

(* The links the walk may follow from who. Slip: only the first of them.   *)
UsableLinks(links, who, pred, now) ==
  {link \in links : link.who = who /\ Live(link, pred, now)}
FirstUsable(links, who, pred, now) ==
  IF UsableLinks(links, who, pred, now) = {} THEN {}
  ELSE {CHOOSE link \in UsableLinks(links, who, pred, now) : TRUE}
Choices(links, who, pred, now) == UsableLinks(links, who, pred, now)

(* The limit is met at depth = limit. Slip: one link earlier.              *)
BelowLimit(depth, limit) == depth < limit
WithinLimit(depth, limit) == depth <= limit

(* A call of etb_delegation_visit: the principal reached, and how deep.     *)
Visit == [who : Principals, depth : Nat, limit : Nat]
FirstVisit(speaker) == [who |-> speaker, depth |-> 0, limit |-> DefaultDepth]
NextVisit(at, link) ==
  [who |-> link.to, depth |-> at.depth + 1, limit |-> LimitAfter(link, at.limit)]

(* etb_delegation_visit, started at depth 0 with the default limit. The    *)
(* code first looks for a direct link to target and then recurses on every *)
(* link; a direct link is also found by the recursion (its first test is   *)
(* speaker = target), so one disjunction stands for the two loops.         *)
Allows(links, speaker, target, pred, now) ==
  LET visit[at \in Visit] ==
        \/ at.who = target
        \/ /\ WithinLimit(at.depth, at.limit)
           /\ \E link \in Choices(links, at.who, pred, now) : visit[NextVisit(at, link)]
  IN  visit[FirstVisit(speaker)]
=============================================================================
