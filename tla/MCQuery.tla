------------------------------- MODULE MCQuery -------------------------------
(***************************************************************************)
(* Instances of Query after the live demos (examples/live-banking and      *)
(* live-visa) and around them, and the properties of whole answers.        *)
(***************************************************************************)
EXTENDS Query, TLC

MCNodes == {"client", "authority", "payment", "visa"}
MCPrincipals == MCNodes \cup {"audit"}
MCHome == [k \in MCPrincipals |-> IF k = "audit" THEN "payment" ELSE k]

Statements == "wish" :> "client" @@ "travel" :> "authority" @@ "cleared" :> "payment"
              @@ "alert" :> "payment" @@ "approved" :> "visa" @@ "audited" :> "audit"
              @@ "visa's travel" :> "visa"
Predicates == {"trip", "known", "blocked", "funds", "papers", "checked", "stamped",
               "visa speaks_for authority"}
MCSpeaker == Statements @@ [a \in Predicates |-> None]
MCAtoms == DOMAIN MCSpeaker

If(head, atoms) == [head |-> head, body |-> [i \in DOMAIN atoms |-> [kind |-> "atom", atom |-> atoms[i]]]]
Says1(head) == If(head, <<>>)
Lit(kind, atom) == [kind |-> kind, atom |-> atom]

Deploy(client, authority, payment, visa) ==
  [prog |-> "client" :> client @@ "authority" :> authority @@ "payment" :> payment @@ "visa" :> visa,
   reads |-> [n \in MCNodes |-> {}], routes |-> [n \in MCNodes |-> MCNodes],
   provers |-> MCNodes, replies |-> {"funds"}]

(* trip_ready: authority collects what payment and visa say.               *)
VisaDemo == Deploy(<<If("trip", <<"travel">>)>>,
                   <<Says1("known"), If("travel", <<"cleared", "approved", "known">>)>>,
                   <<Says1("cleared")>>, <<Says1("approved")>>)
(* The teller (authority) asks the customer back before it answers.        *)
Teller(facts) == facts \o <<[head |-> "travel",
  body |-> <<Lit("atom", "wish"), Lit("atom", "known"), Lit("tool", "funds"), Lit("not", "blocked")>>]>>
BankingDemo == Deploy(<<Says1("wish"), If("trip", <<"travel">>)>>, Teller(<<Says1("known")>>), <<>>, <<>>)
Denied == Deploy(<<Says1("wish"), If("trip", <<"travel">>)>>,
                 Teller(<<Says1("known"), Says1("blocked")>>), <<>>, <<>>)
(* The authority does not know the traveller.                              *)
Stranger == Deploy(<<Says1("wish"), If("trip", <<"travel">>)>>, Teller(<<>>), <<>>, <<>>)
(* Two nodes need the same statement of a third, and the client needs it   *)
(* in two places of its own.                                               *)
Shared == Deploy(<<If("trip", <<"travel", "cleared", "funds", "papers">>),
                   If("funds", <<"approved">>), If("papers", <<"approved">>)>>,
                 <<If("travel", <<"approved">>)>>, <<If("cleared", <<"approved">>)>>,
                 <<Says1("approved")>>)
(* A goal with two clauses, the first of which needs what nobody says.     *)
Either == Deploy(<<If("trip", <<"cleared">>), If("trip", <<"approved">>)>>, <<>>, <<>>, <<Says1("approved")>>)
(* Nodes that need each other's statements, without and with another way.  *)
Mutual == Deploy(<<If("trip", <<"travel">>), If("wish", <<"travel">>)>>, <<If("travel", <<"wish">>)>>, <<>>, <<>>)
MutualOrVisa ==
  Deploy(<<If("trip", <<"travel">>), If("wish", <<"travel">>)>>,
         <<If("travel", <<"wish">>), If("travel", <<"approved">>)>>, <<>>, <<Says1("approved")>>)
(* Rules of one node that need each other.                                 *)
LocalCycle == Deploy(<<If("trip", <<"funds">>), If("funds", <<"papers">>), If("papers", <<"funds">>),
                       If("papers", <<"approved">>)>>, <<>>, <<>>, <<Says1("approved")>>)
Unbound == Deploy(<<[head |-> "trip", body |-> <<Lit("open", "approved")>>]>>, <<>>, <<>>, <<Says1("approved")>>)
NoRoute == Deploy(<<If("trip", <<"audited">>)>>, <<>>, <<Says1("audited")>>, <<>>)
(* The statement that refutes a negated literal is another node's.         *)
BlockedElsewhere ==
  Deploy(<<If("trip", <<"travel">>)>>,
         <<Says1("known"), If("blocked", <<"alert">>),
           [head |-> "travel", body |-> <<Lit("atom", "known"), Lit("not", "blocked")>>]>>,
         <<Says1("alert")>>, <<>>)
(* The adapter has no funds to report.                                     *)
Unfunded == [BankingDemo EXCEPT !.replies = {}]
(* A chain of rules behind a statement that takes more passes than the two *)
(* runs after its import make.                                             *)
Long == Deploy(<<If("trip", <<"funds">>), If("funds", <<"papers">>), If("papers", <<"known">>),
                 If("known", <<"blocked">>), If("blocked", <<"checked">>),
                 If("checked", <<"stamped">>), If("stamped", <<"approved">>)>>,
               <<>>, <<>>, <<Says1("approved")>>)
(* The visa node may speak for the authority: what it says of travelling,  *)
(* derived at the authority, answers for the authority; or at the client,  *)
(* which still has to ask the authority for its own word.                  *)
Link == Says1("visa speaks_for authority")
Delegating(d, n) ==
  [d EXCEPT !.reads[n] = {If("travel", <<"visa's travel", "visa speaks_for authority">>)}]
Delegated == Delegating(
  Deploy(<<If("trip", <<"travel">>)>>, <<Link, If("visa's travel", <<>>)>>, <<>>, <<>>), "authority")
DelegatedFar == Delegating(
  Deploy(<<If("trip", <<"travel">>)>>, <<Link, If("visa's travel", <<"approved">>)>>, <<>>, <<Says1("approved")>>),
  "authority")
DelegatedHere == Delegating(
  Deploy(<<Link, If("trip", <<"visa's travel", "funds">>), If("funds", <<"travel">>)>>, <<Says1("known")>>, <<>>,
         <<Says1("visa's travel")>>), "client")
(* The authority has no prover, or the visa node, behind it, has none.     *)
HalfProved == {[VisaDemo EXCEPT !.provers = @ \ {n}] : n \in {"authority", "visa", "client"}}

MCDeployments == {VisaDemo, BankingDemo, Denied, Stranger, Shared, Either, Mutual, MutualOrVisa, LocalCycle,
                  Unbound, NoRoute, BlockedElsewhere, Unfunded, Long, Delegated, DelegatedFar,
                  DelegatedHere} \cup HalfProved
MCAsked == {"client"} \X {"trip", "wish"} \cup {<<"authority", "travel">>}

-----------------------------------------------------------------------------
(* Every query comes to an end: the walk over the rules of a node ends     *)
(* also when they need each other.                                         *)
QueryEnds == depth > 0 ~> depth = 0
=============================================================================
