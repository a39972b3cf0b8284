------------------------------ MODULE MCEngine ------------------------------
(***************************************************************************)
(* Instances of Engine for TLC: small programs after those of examples/    *)
(* and tests/, and the properties of an evaluator and its trace.           *)
(***************************************************************************)
EXTENDS Evidence

MCPrincipals == {"alice", "manager", "bank"}
MCPredicates == {"permit", "flagged", "denied", "allowed", "edge", "path",
                 "approve", "granted", "clearance", "usable", "badge", "anchored",
                 "subject", "concat", "message"}
MCScopes == {"*", "approve"}
MCCovers == {<<"approve", "approve">>}
MCConstants == {"a", "b", "c"}
MCVariables == {"X", "Y", "Z"}
MCCapabilities == {"concat"}

P(pred, args) == [kind |-> "pred", pred |-> pred, args |-> args, tag |-> NoTag]
Says(who, pred, args) ==
  [kind |-> "says", who |-> who, pred |-> pred, args |-> args, tag |-> NoTag]
SpeaksFor(who, to, expires, depth) ==
  [kind |-> "speaks", who |-> who, to |-> to, scope |-> "approve",
   expires |-> expires, depth |-> depth, tag |-> NoTag]
At(atom, kind, at) == [atom EXCEPT !.tag = [kind |-> kind, at |-> at]]

Yes(atom) == [neg |-> FALSE, atom |-> atom]
Not(atom) == [neg |-> TRUE, atom |-> atom]
Rule(head, body) == [head |-> head, body |-> body]

(* examples/negation/stratified_access.etb *)
Access ==
  << Given(P("permit", <<"a">>)), Given(P("permit", <<"b">>)),
     Given(P("denied", <<"b">>)),
     Rule(P("allowed", <<"X">>), <<Yes(P("permit", <<"X">>)), Not(P("denied", <<"X">>))>>) >>

(* A recursive rule, and two ways to derive one atom in one pass.          *)
Paths ==
  << Given(P("edge", <<"a", "b">>)), Given(P("edge", <<"b", "a">>)),
     Rule(P("path", <<"X", "Y">>), <<Yes(P("edge", <<"X", "Y">>))>>),
     Rule(P("path", <<"X", "Z">>),
          <<Yes(P("edge", <<"X", "Y">>)), Yes(P("path", <<"Y", "Z">>))>>) >>

TwoWays ==
  << Given(P("permit", <<"a">>)), Given(P("subject", <<"a">>)),
     Rule(P("allowed", <<"X">>), <<Yes(P("permit", <<"X">>))>>),
     Rule(P("allowed", <<"X">>), <<Yes(P("subject", <<"X">>))>>),
     Rule(P("granted", <<"X">>), <<Yes(P("allowed", <<"X">>))>>) >>

(* examples/delegation/transitive_bank.etb, with a rule over the result    *)
(* and a link that expires.                                                *)
Delegated ==
  << Given(SpeaksFor("alice", "manager", 1, 2)),
     Given(SpeaksFor("manager", "bank", 0, 2)),
     Given(Says("alice", "approve", <<"c">>)),
     Given(Says("manager", "approve", <<"b">>)),
     Rule(P("granted", <<"X">>), <<Yes(Says("bank", "approve", <<"X">>))>>) >>

(* A link that is itself the head of a rule.                               *)
Appointed ==
  << Given(Says("alice", "approve", <<"c">>)), Given(P("permit", <<"a">>)),
     Rule(SpeaksFor("alice", "bank", 0, 0), <<Yes(P("permit", <<"a">>))>>),
     Rule(P("granted", <<"X">>), <<Yes(Says("bank", "approve", <<"X">>))>>) >>

(* examples/temporal/policy_windows.etb *)
Windows ==
  << Given(At(P("clearance", <<"a">>), "expires", 1)),
     Given(At(P("badge", <<"a">>), "anchored", 7)),
     Given(P("badge", <<"b">>)),
     Rule(P("usable", <<"X">>), <<Yes(At(P("clearance", <<"X">>), "expires", 1))>>),
     Rule(P("anchored", <<"X">>), <<Yes(At(P("badge", <<"X">>), "anchored", 7))>>) >>

(* examples/tooling/tool_chain.etb: rules over an adapter's answers, one   *)
(* whose only positive literal is an adapter's, and one that has none.     *)
Tooling ==
  << Given(P("subject", <<"a">>)),
     Rule(P("message", <<"X", "Y">>),
          <<Yes(P("subject", <<"X">>)), Yes(P("concat", <<"X", "Y">>))>>),
     Rule(P("allowed", <<"Y">>), <<Yes(P("message", <<"X", "Y">>))>>) >>

Screening ==
  << Given(P("denied", <<"b">>)),
     Rule(P("allowed", <<"Y">>),
          <<Yes(P("concat", <<"a", "Y">>)), Not(P("denied", <<"Y">>))>>),
     Rule(P("usable", <<"a">>), <<Not(P("denied", <<"a">>))>>) >>

(* Rejected by validation: Y does not occur in a positive literal.         *)
Unrestricted == << Rule(P("path", <<"X", "Y">>), <<Yes(P("permit", <<"X">>))>>) >>

(* A stratified program whose negated predicate is derived by a rule.      *)
DerivedDenial ==
  << Given(P("permit", <<"a">>)), Given(P("flagged", <<"a">>)),
     Rule(P("denied", <<"X">>), <<Yes(P("flagged", <<"X">>))>>),
     Rule(P("allowed", <<"X">>), <<Yes(P("permit", <<"X">>)), Not(P("denied", <<"X">>))>>) >>

CorePrograms == {Access, Paths, TwoWays, Delegated, Appointed, Windows, Unrestricted,
                 Tooling, Screening}
NegationPrograms == {Access, DerivedDenial}

CoreGoals == {P("allowed", <<"X">>), P("path", <<"a", "X">>), P("clearance", <<"X">>),
              Says("bank", "approve", <<"X">>), SpeaksFor("alice", "manager", 0, 0),
              P("concat", <<"X", "c">>)}
MCImportable == {Says("alice", "approve", <<"c">>), SpeaksFor("bank", "alice", 0, 0),
                 P("permit", <<"c">>)}
NoAtoms == {}
MCAdapterTuples == {<<"a", "b">>, <<"b", "c">>}
NoTuples == {}
TwoClocks == {1, 2}
OneClock == {1}

-----------------------------------------------------------------------------
(* A fixpoint run or a query that has begun comes to an end.               *)
EvaluationEnds == phase \in {"pass", "query"} ~> phase \in {"idle", "failed"}
=============================================================================
