---------------------------- MODULE EngineProofs ----------------------------
(***************************************************************************)
(* Proofs about Engine and Evidence, for every program, clock, importable  *)
(* answer, adapter reply and goal. First, what is stored: type correctness,*)
(* that every stored fact is supported by the trace and stored once, and   *)
(* that evidence once given is stable. Then, what facts, trace and answers *)
(* stand for: Engine implements Derivation, so that an atom is stored only *)
(* when it is a consequence of atoms stored before, or imported; every     *)
(* trace node is an instance of a clause that its premises answer, an      *)
(* adapter's reply or an imported answer; every answer of a query cites a  *)
(* node that backs it; and a run that settles stores exactly the model of  *)
(* the program. Last, why runs and queries end: each step is one down.     *)
(***************************************************************************)
EXTENDS Evidence, DelegationProofs, FiniteSetTheorems, TLAPS

-----------------------------------------------------------------------------
(* The operators of Datalog keep to their types.                           *)

Term == Constants \cup Variables

LEMMA ArgsType ==
  ASSUME NEW terms, NEW atom \in Atom(terms)
  PROVE  Args(atom) \in Seq(terms)
<1>1. CASE atom \in PredicateAtom(terms)
  BY <1>1 DEF Args, PredicateAtom
<1>2. CASE atom \in SaysAtom(terms)
  BY <1>2 DEF Args, SaysAtom
<1>3. CASE atom \in SpeaksForAtom
  BY <1>3 DEF Args, SpeaksForAtom
<1> QED
  BY <1>1, <1>2, <1>3 DEF Atom

(* A successful unification with a ground atom binds to ground terms.      *)
LEMMA BindType ==
  ASSUME NEW env \in Env, NEW pattern \in Atom(Term), NEW fact \in GroundAtom,
         NEW ignoreSpeaker, Unifies(env, pattern, fact, ignoreSpeaker)
  PROVE  Bind(env, pattern, fact) \in Env
<1> DEFINE bound == DOMAIN env \cup VariablesOf(pattern)
<1>1. Args(pattern) \in Seq(Term) /\ Args(fact) \in Seq(Constants)
  BY ArgsType DEF GroundAtom
<1>2. DOMAIN Args(pattern) = DOMAIN Args(fact)
  BY <1>1 DEF Unifies, SameRelation, Args
<1>3. DOMAIN env \subseteq Variables /\ \A v \in DOMAIN env : env[v] \in Constants
  BY DEF Env
<1>4. bound \in SUBSET Variables
  BY <1>3 DEF VariablesOf
<1>5. ASSUME NEW v \in bound
      PROVE  Bind(env, pattern, fact)[v] \in Constants
  <2>1. CASE v \in DOMAIN env
    BY <2>1, <1>3 DEF Bind
  <2>2. CASE v \notin DOMAIN env
    <3> DEFINE pos == CHOOSE i \in DOMAIN Args(pattern) : Args(pattern)[i] = v
    <3>1. \E i \in DOMAIN Args(pattern) : Args(pattern)[i] = v
      BY <2>2 DEF VariablesOf, ArgSet
    <3>2. pos \in DOMAIN Args(fact)
      BY <3>1, <1>2
    <3>3. Args(fact)[pos] \in Constants
      BY <3>2, <1>1
    <3> QED
      BY <2>2, <3>3 DEF Bind
  <2> QED
    BY <2>1, <2>2
<1>6. Bind(env, pattern, fact) \in [bound -> Constants]
  <2> DEFINE val(v) == IF v \in DOMAIN env THEN env[v]
                       ELSE Args(fact)[CHOOSE i \in DOMAIN Args(pattern) :
                                         Args(pattern)[i] = v]
  <2>1. Bind(env, pattern, fact) = [v \in bound |-> val(v)]
    BY DEF Bind
  <2>2. \A v \in bound : val(v) \in Constants
    BY <2>1, <1>5
  <2> HIDE DEF val, bound
  <2> QED
    BY <2>1, <2>2
<1> QED
  BY <1>4, <1>6 DEF Env

LEMMA InstantiateType ==
  ASSUME NEW env \in Env, NEW pattern \in Atom(Term)
  PROVE  Instantiate(pattern, env) \in Atom(Term)
<1>1. \A v \in DOMAIN env : env[v] \in Term
  BY DEF Env, Term
<1>2. ASSUME pattern.kind # "speaks"
      PROVE  [i \in DOMAIN pattern.args |->
                IF pattern.args[i] \in DOMAIN env THEN env[pattern.args[i]]
                ELSE pattern.args[i]] \in Seq(Term)
  <2>1. pattern.args \in Seq(Term)
    BY <1>2 DEF Atom, PredicateAtom, SaysAtom, SpeaksForAtom
  <2> QED
    BY <2>1, <1>1
<1>3. CASE pattern \in PredicateAtom(Term)
  BY <1>3, <1>2 DEF Instantiate, Atom, PredicateAtom
<1>4. CASE pattern \in SaysAtom(Term)
  BY <1>4, <1>2 DEF Instantiate, Atom, SaysAtom
<1>5. CASE pattern \in SpeaksForAtom
  BY <1>5 DEF Instantiate, Atom, SpeaksForAtom
<1> QED
  BY <1>3, <1>4, <1>5 DEF Atom

(* A ground atom of the program's language has only constants as terms.    *)
LEMMA GroundType ==
  ASSUME NEW atom \in Atom(Term), IsGround(atom)
  PROVE  atom \in GroundAtom
<1>1. \A i \in DOMAIN Args(atom) : Args(atom)[i] \in Constants
  BY ArgsType DEF IsGround, VariablesOf, ArgSet, Term
<1>2. Args(atom) \in Seq(Constants)
  BY <1>1, ArgsType
<1>3. CASE atom \in PredicateAtom(Term)
  BY <1>2, <1>3 DEF Args, PredicateAtom, GroundAtom, Atom
<1>4. CASE atom \in SaysAtom(Term)
  BY <1>2, <1>4 DEF Args, SaysAtom, GroundAtom, Atom
<1>5. CASE atom \in SpeaksForAtom
  BY <1>5 DEF GroundAtom, Atom
<1> QED
  BY <1>3, <1>4, <1>5 DEF Atom

LEMMA ToolAtomType ==
  ASSUME NEW literal \in Literal, IsCapability(literal), NEW tuple \in AdapterTuples
  PROVE  ToolAtom(literal, tuple) \in GroundAtom
<1>1. literal.atom.pred \in Predicates
  BY DatalogAssumption DEF IsCapability
<1>2. tuple \in Seq(Constants)
  BY EngineAssumption
<1> QED
  BY <1>1, <1>2 DEF ToolAtom, GroundAtom, Atom, PredicateAtom, Tag, NoTag

-----------------------------------------------------------------------------
(* The inductive invariant                                                 *)

(* Where the evaluator is in a body: a partial solution exists only while  *)
(* a clause or a goal is being solved, and has as many premises as it has  *)
(* advanced over when the body is a goal.                                  *)
Shape ==
  /\ todo # {} => phase \in {"pass", "query"}
  /\ phase = "pass" /\ todo # {} => clause \in 1..Len(program)
  /\ phase = "query" => goal \in Goals
  /\ \A s \in todo : s.k >= 1
  /\ phase = "query" => \A s \in todo : Len(s.prem) = s.k - 1

(* The premises collected so far are nodes of the trace.                   *)
PremisesInUse == \A s \in todo : \A j \in DOMAIN s.prem : s.prem[j] \in DOMAIN trace

(* The trace is well founded: a node cites only nodes appended before it,  *)
(* so that reading premises always ends at facts and adapter answers.      *)
PremisesEarlier ==
  \A n \in DOMAIN trace : \A j \in DOMAIN trace[n].prem : trace[n].prem[j] \in 1..(n - 1)

IInv == TypeOK /\ Shape /\ PremisesInUse /\ PremisesEarlier /\ FactsSupported

LEMMA BodyType ==
  ASSUME IInv, NEW s \in todo
  PROVE  /\ Body \in Seq(Literal)
         /\ ~ Complete(s) => s.k \in 1..Len(Body) /\ LiteralOf(s) \in Literal
         /\ Complete(s) => s.k > Len(Body)
<1>1. s.k \in Nat /\ s.k >= 1
  BY DEF IInv, TypeOK, Shape, Solution
<1>2. CASE phase = "query"
  <2>1. goal \in Atom(Constants \cup Variables)
    BY <1>2, EngineAssumption DEF IInv, Shape
  <2>2. [neg |-> FALSE, atom |-> goal] \in Literal
    BY <2>1 DEF Literal
  <2>3. Body \in Seq(Literal)
    BY <2>2, <1>2 DEF Body
  <2> QED
    BY <1>1, <2>3 DEF Complete, LiteralOf
<1>3. CASE phase = "pass"
  <2>1. clause \in 1..Len(program)
    BY <1>3 DEF IInv, Shape
  <2>2. program \in Seq(Clause)
    BY EngineAssumption DEF IInv, TypeOK
  <2>3. program[clause] \in Clause
    BY <2>1, <2>2
  <2>4. Body \in Seq(Literal)
    BY <2>3, <1>3 DEF Body, Clause
  <2> QED
    BY <1>1, <2>4 DEF Complete, LiteralOf
<1> QED
  BY <1>2, <1>3 DEF IInv, Shape

LEMMA AppendInUse ==
  ASSUME NEW prem \in Seq(Nat), NEW S, \A j \in DOMAIN prem : prem[j] \in S, NEW id \in S,
         NEW j \in DOMAIN Append(prem, id)
  PROVE  Append(prem, id)[j] \in S
<1>1. CASE j = Len(prem) + 1
  BY <1>1
<1>2. CASE j # Len(prem) + 1
  <2>1. j \in 1..Len(prem)
    BY <1>2
  <2> QED
    BY <2>1
<1> QED
  BY <1>1, <1>2

LEMMA ExtendType ==
  ASSUME IInv, NEW s \in todo, ~ Complete(s), NEW atom \in GroundAtom, NEW id \in Nat,
         NEW ignoreSpeaker, Unifies(s.env, LiteralOf(s).atom, atom, ignoreSpeaker)
  PROVE  /\ Extend(s, atom, id) \in Solution
         /\ Extend(s, atom, id).k = s.k + 1
         /\ Extend(s, atom, id).prem = Append(s.prem, id)
<1>1. s \in Solution
  BY DEF IInv, TypeOK
<1>2. LiteralOf(s).atom \in Atom(Term)
  BY BodyType DEF Literal, Term
<1>3. Bind(s.env, LiteralOf(s).atom, atom) \in Env
  BY <1>1, <1>2, BindType DEF Solution
<1>4. Append(s.prem, id) \in Seq(Nat)
  BY <1>1 DEF Solution
<1> QED
  BY <1>1, <1>3, <1>4 DEF Extend, PushPremise, Solution

-----------------------------------------------------------------------------
(* Every step preserves the invariant: one lemma for each action.          *)

LEMMA InitIInv == Init => IInv
<1> SUFFICES ASSUME Init PROVE IInv
  OBVIOUS
<1>1. TypeOK
  <2>1. program \in Seq(Clause)
    BY EngineAssumption DEF Init
  <2>2. Len(program) \in Nat /\ <<>> \in Seq(Node)
    BY <2>1
  <2>3. facts \subseteq Fact /\ derived \subseteq Fact /\ todo \subseteq Solution
        /\ answers \subseteq [atom : Atom(Constants \cup Variables), id : Nat]
        /\ imported \subseteq Importable
    BY DEF Init
  <2>4. clause \in 0..Len(program)
    BY <2>2 DEF Init
  <2> QED
    BY <2>2, <2>3, <2>4 DEF Init, TypeOK, Phases
<1>2. Shape
  BY DEF Init, Shape
<1> QED
  BY <1>1, <1>2 DEF Init, IInv, PremisesInUse, PremisesEarlier, FactsSupported

LEMMA MatchLiteralIInv ==
  ASSUME IInv, NEW s \in todo, MatchLiteral(s)
  PROVE  IInv'
<1> DEFINE next == {Extend(s, f.atom, f.id) : f \in Found(s)}
<1>1. todo' = (todo \ {s}) \cup next
  BY DEF MatchLiteral, Replace
<1>2. UNCHANGED <<program, now, facts, trace, derived, phase, clause, pass, goal,
                  answers, settled, imported, runs, imports, queries>>
  BY DEF MatchLiteral, store, history
<1>3. s \in Solution
  BY DEF IInv, TypeOK
<1>4. ASSUME NEW t \in next
      PROVE  /\ t \in Solution /\ t.k = s.k + 1
             /\ \E id \in DOMAIN trace : t.prem = Append(s.prem, id)
  <2>1. PICK f \in Found(s) : t = Extend(s, f.atom, f.id)
    OBVIOUS
  <2>2. f \in facts /\ Unifies(s.env, LiteralOf(s).atom, f.atom, TRUE)
    BY DEF Found, FactsMatching, Matches
  <2>3. f.atom \in GroundAtom /\ f.id \in Nat /\ f.id \in DOMAIN trace
    BY <2>2 DEF IInv, TypeOK, Fact, FactsSupported
  <2>4. ~ Complete(s)
    BY DEF MatchLiteral
  <2> QED
    BY <2>1, <2>2, <2>3, <2>4, ExtendType
<1> HIDE DEF next
<1>5. TypeOK'
  BY <1>1, <1>2, <1>4 DEF IInv, TypeOK
<1>6. Shape'
  BY <1>1, <1>2, <1>3, <1>4 DEF IInv, Shape, Solution
<1>7. PremisesInUse'
  <2>1. ASSUME NEW t \in next, NEW j \in DOMAIN t.prem PROVE t.prem[j] \in DOMAIN trace
    BY <2>1, <1>3, <1>4, AppendInUse DEF IInv, PremisesInUse, Solution
  <2> QED
    BY <2>1, <1>1, <1>2 DEF IInv, PremisesInUse
<1>8. PremisesEarlier' /\ FactsSupported'
  BY <1>2 DEF IInv, PremisesEarlier, FactsSupported
<1> QED
  BY <1>5, <1>6, <1>7, <1>8 DEF IInv

LEMMA NegateLiteralIInv ==
  ASSUME IInv, NEW s \in todo, NegateLiteral(s)
  PROVE  IInv'
<1>1. todo' \subseteq (todo \ {s}) \cup {Skip(s)}
  BY DEF NegateLiteral, Replace
<1>2. UNCHANGED <<program, now, facts, trace, derived, phase, clause, pass, goal,
                  answers, settled, imported, runs, imports, queries>>
  BY DEF NegateLiteral, store, history
<1>3. s \in Solution
  BY DEF IInv, TypeOK
<1>4. Skip(s) \in Solution /\ Skip(s).k = s.k + 1 /\ Skip(s).prem = s.prem
  BY <1>3 DEF Skip, Solution
<1>5. phase # "query"
  BY <1>3 DEF NegateLiteral, Complete, LiteralOf, Body, Solution, IInv, Shape
<1>6. TypeOK'
  BY <1>1, <1>2, <1>4 DEF IInv, TypeOK
<1>7. Shape'
  BY <1>1, <1>2, <1>3, <1>4, <1>5 DEF IInv, Shape, Solution
<1>8. PremisesInUse'
  BY <1>1, <1>2, <1>4 DEF IInv, PremisesInUse
<1>9. PremisesEarlier' /\ FactsSupported'
  BY <1>2 DEF IInv, PremisesEarlier, FactsSupported
<1> QED
  BY <1>6, <1>7, <1>8, <1>9 DEF IInv

(* A trace that only gets longer keeps what refers to it.                  *)
LEMMA LongerTrace ==
  ASSUME IInv, NEW new \in Seq(Node), trace' = trace \o new,
         \A i \in DOMAIN new : \A j \in DOMAIN new[i].prem :
            new[i].prem[j] \in 1..(Len(trace) + i - 1)
  PROVE  /\ trace' \in Seq(Node)
         /\ Len(trace') = Len(trace) + Len(new)
         /\ DOMAIN trace \subseteq DOMAIN trace'
         /\ \A i \in DOMAIN trace : trace'[i] = trace[i]
         /\ \A i \in DOMAIN new : trace'[Len(trace) + i] = new[i]
         /\ PremisesEarlier'
<1>1. trace \in Seq(Node)
  BY DEF IInv, TypeOK
<1>2. /\ trace' \in Seq(Node)
      /\ Len(trace') = Len(trace) + Len(new)
      /\ DOMAIN trace \subseteq DOMAIN trace'
      /\ \A i \in DOMAIN trace : trace'[i] = trace[i]
      /\ \A i \in DOMAIN new : trace'[Len(trace) + i] = new[i]
  BY <1>1
<1>3. ASSUME NEW n \in DOMAIN trace', NEW j \in DOMAIN trace'[n].prem
      PROVE  trace'[n].prem[j] \in 1..(n - 1)
  <2>1. CASE n \in DOMAIN trace
    BY <2>1, <1>2, <1>3 DEF IInv, PremisesEarlier
  <2>2. CASE n \notin DOMAIN trace
    <3>1. n - Len(trace) \in DOMAIN new /\ n = Len(trace) + (n - Len(trace))
      BY <2>2, <1>1, <1>2
    <3>2. trace'[n] = new[n - Len(trace)]
      BY <3>1, <1>2
    <3> QED
      BY <3>1, <3>2, <1>1, <1>3
  <2> QED
    BY <2>1, <2>2
<1> QED
  BY <1>2, <1>3 DEF PremisesEarlier

LEMMA InvokeAdapterIInv ==
  ASSUME IInv, NEW s \in todo, InvokeAdapter(s)
  PROVE  IInv'
<1> DEFINE tool(t) == ToolAtom(LiteralOf(s), t)
<1>1. PICK reply \in Replies(s) :
        /\ trace' = trace \o [i \in DOMAIN reply |->
                                [kind |-> "capability", rule |-> 0,
                                 fact |-> tool(reply[i]), prem |-> <<>>]]
        /\ todo' = (todo \ {s}) \cup
                    {Extend(s, tool(reply[i]), ToolId(i)) : i \in DOMAIN reply}
  BY DEF InvokeAdapter, Replace
<1> DEFINE new == [i \in DOMAIN reply |->
                     [kind |-> "capability", rule |-> 0,
                      fact |-> tool(reply[i]), prem |-> <<>>]]
           next == {Extend(s, tool(reply[i]), ToolId(i)) : i \in DOMAIN reply}
<1>2. UNCHANGED <<program, now, facts, derived, phase, clause, pass, goal,
                  answers, settled, imported, runs, imports, queries>>
  BY DEF InvokeAdapter, history
<1>3. s \in Solution /\ trace \in Seq(Node)
  BY DEF IInv, TypeOK
<1>4. ~ Complete(s) /\ LiteralOf(s) \in Literal /\ IsCapability(LiteralOf(s))
  BY BodyType DEF InvokeAdapter
<1>5. PICK n \in 0..MaxTuples : reply \in [1..n -> {t \in AdapterTuples : Accepts(s, t)}]
  BY DEF Replies
<1>6. n \in Nat /\ DOMAIN reply = 1..n
  BY <1>5, EngineAssumption
<1>7. \A i \in DOMAIN reply :
        /\ tool(reply[i]) \in GroundAtom
        /\ Unifies(s.env, LiteralOf(s).atom, tool(reply[i]), FALSE)
  BY <1>4, <1>5, ToolAtomType DEF Accepts
<1>8. new \in Seq(Node) /\ Len(new) = n
  <2>1. ASSUME NEW i \in 1..n PROVE new[i] \in Node
    <3>1. tool(reply[i]) \in GroundAtom
      BY <1>6, <1>7
    <3> HIDE DEF tool
    <3>2. new[i] = [kind |-> "capability", rule |-> 0, fact |-> tool(reply[i]), prem |-> <<>>]
      BY <1>6
    <3>3. "capability" \in NodeKinds /\ 0 \in Nat /\ <<>> \in Seq(Nat)
      BY DEF NodeKinds
    <3> HIDE DEF new
    <3> QED
      BY <3>1, <3>2, <3>3 DEF Node
  <2> QED
    BY <2>1, <1>6
<1>9. \A i \in DOMAIN new : \A j \in DOMAIN new[i].prem :
        new[i].prem[j] \in 1..(Len(trace) + i - 1)
  OBVIOUS
<1>10. ASSUME NEW t \in next
       PROVE  /\ t \in Solution /\ t.k = s.k + 1
              /\ \E id \in DOMAIN trace' : t.prem = Append(s.prem, id)
  <2>1. PICK i \in DOMAIN reply : t = Extend(s, tool(reply[i]), ToolId(i))
    OBVIOUS
  <2> HIDE DEF tool, new
  <2>2. ToolId(i) \in Nat /\ ToolId(i) \in DOMAIN trace'
    BY <1>1, <1>3, <1>6, <1>8 DEF ToolId
  <2> QED
    BY <2>1, <2>2, <1>4, <1>7, ExtendType
<1> HIDE DEF tool, new, next
<1>11. /\ trace' \in Seq(Node)
       /\ DOMAIN trace \subseteq DOMAIN trace'
       /\ \A i \in DOMAIN trace : trace'[i] = trace[i]
       /\ PremisesEarlier'
  BY <1>1, <1>8, <1>9, LongerTrace DEF new
<1>12. todo' = (todo \ {s}) \cup next
  BY <1>1 DEF next
<1>13. TypeOK'
  BY <1>2, <1>10, <1>11, <1>12 DEF IInv, TypeOK
<1>14. Shape'
  BY <1>2, <1>3, <1>10, <1>12 DEF IInv, Shape, Solution
<1>15. PremisesInUse'
  <2>1. ASSUME NEW t \in next, NEW j \in DOMAIN t.prem PROVE t.prem[j] \in DOMAIN trace'
    BY <2>1, <1>3, <1>10, <1>11, AppendInUse DEF IInv, PremisesInUse, Solution
  <2> QED
    BY <2>1, <1>11, <1>12 DEF IInv, PremisesInUse
<1>16. FactsSupported'
  BY <1>2, <1>11 DEF IInv, FactsSupported
<1> QED
  BY <1>11, <1>13, <1>14, <1>15, <1>16 DEF IInv

LEMMA AdapterFailsIInv ==
  ASSUME IInv, NEW s \in todo, AdapterFails(s)
  PROVE  IInv'
<1>1. TypeOK'
  BY DEF AdapterFails, store, history, IInv, TypeOK, Phases
<1> QED
  BY <1>1 DEF AdapterFails, store, history, IInv, Shape, PremisesInUse,
              PremisesEarlier, FactsSupported

LEMMA HeadNodeType ==
  ASSUME IInv, phase = "pass", NEW s \in todo, IsGround(HeadNode(s).fact)
  PROVE  HeadNode(s) \in Node
<1>1. clause \in 1..Len(program) /\ program \in Seq(Clause) /\ s \in Solution
  BY EngineAssumption DEF IInv, TypeOK, Shape
<1>2. program[clause].head \in Atom(Term) /\ clause \in Nat
  <2>1. program[clause] \in Clause /\ clause \in Nat
    BY <1>1
  <2> QED
    BY <2>1 DEF Clause, Term
<1>3. s.env \in Env /\ s.prem \in Seq(Nat)
  BY <1>1 DEF Solution
<1>4. Instantiate(program[clause].head, s.env) \in Atom(Term)
  BY <1>2, <1>3, InstantiateType
<1>5. HeadNode(s).fact = Instantiate(program[clause].head, s.env)
  BY DEF HeadNode
<1>6. HeadNode(s).fact \in GroundAtom
  BY <1>4, <1>5, GroundType
<1> QED
  BY <1>2, <1>3, <1>5, <1>6 DEF HeadNode, Node, NodeKinds

LEMMA DeriveIInv ==
  ASSUME IInv, NEW s \in todo, Derive(s)
  PROVE  IInv'
<1> DEFINE node == HeadNode(s)
           fresh == IsGround(node.fact) /\ node.fact \notin Stored
<1>1. todo' = todo \ {s}
  BY DEF Derive, Replace
<1>2. UNCHANGED <<program, now, facts, phase, clause, pass, goal, answers, settled,
                  imported, runs, imports, queries>>
  BY DEF Derive, history
<1>3. CASE ~ fresh
  <2>1. UNCHANGED <<trace, derived>>
    BY <1>3 DEF Derive
  <2>2. TypeOK'
    BY <1>1, <1>2, <2>1 DEF IInv, TypeOK
  <2>3. Shape'
    BY <1>1, <1>2 DEF IInv, Shape
  <2> QED
    BY <1>1, <1>2, <2>1, <2>2, <2>3
    DEF IInv, PremisesInUse, PremisesEarlier, FactsSupported
<1>4. CASE fresh
  <2>1. node \in Node
    BY <1>4, HeadNodeType DEF Derive
  <2>2. /\ trace' = Append(trace, node)
        /\ derived' = derived \cup {[atom |-> node.fact, id |-> Len(trace) + 1]}
    BY <1>4 DEF Derive
  <2>3. node.prem = s.prem /\ s \in Solution /\ trace \in Seq(Node)
    BY DEF HeadNode, IInv, TypeOK
  <2> HIDE DEF node
  <2> DEFINE new == <<node>>
  <2>4. /\ trace' = trace \o new /\ new \in Seq(Node)
        /\ Len(new) = 1 /\ 1 \in DOMAIN new /\ new[1] = node
        /\ \A i \in DOMAIN new : i = 1
    BY <2>1, <2>2, <2>3
  <2> HIDE DEF new
  <2>5. \A i \in DOMAIN new : \A j \in DOMAIN new[i].prem :
          new[i].prem[j] \in 1..(Len(trace) + i - 1)
    BY <2>3, <2>4 DEF IInv, PremisesInUse
  <2>6. /\ trace' \in Seq(Node)
        /\ Len(trace') = Len(trace) + 1
        /\ DOMAIN trace \subseteq DOMAIN trace'
        /\ \A i \in DOMAIN trace : trace'[i] = trace[i]
        /\ trace'[Len(trace) + 1] = node
        /\ PremisesEarlier'
    BY <2>4, <2>5, LongerTrace, <2>3
  <2>7. Len(trace) + 1 \in DOMAIN trace' /\ Len(trace) + 1 \in Nat
    BY <2>3, <2>6
  <2>8. TypeOK'
    <3>1. node.fact \in GroundAtom
      BY <2>1 DEF Node
    <3>2. derived' \subseteq Fact
      BY <2>2, <2>7, <3>1 DEF IInv, TypeOK, Fact
    <3> QED
      BY <1>1, <1>2, <2>6, <3>2 DEF IInv, TypeOK
  <2>9. Shape'
    BY <1>1, <1>2 DEF IInv, Shape
  <2>10. PremisesInUse'
    BY <1>1, <2>6 DEF IInv, PremisesInUse
  <2>11. FactsSupported'
    BY <1>2, <2>2, <2>6, <2>7 DEF IInv, FactsSupported
  <2> QED
    BY <2>6, <2>8, <2>9, <2>10, <2>11 DEF IInv
<1> QED
  BY <1>3, <1>4

LEMMA AnswerIInv ==
  ASSUME IInv, NEW s \in todo, Answer(s)
  PROVE  IInv'
<1>1. todo' = todo \ {s}
  BY DEF Answer, Replace
<1>2. UNCHANGED <<program, now, facts, trace, derived, phase, clause, pass, goal,
                  settled, imported, runs, imports, queries>>
  BY DEF Answer, store, history
<1>3. s \in Solution /\ phase = "query" /\ goal \in Goals /\ Complete(s)
  BY DEF Answer, IInv, TypeOK, Shape
<1>4. Instantiate(goal, s.env) \in Atom(Constants \cup Variables)
  BY <1>3, EngineAssumption, InstantiateType DEF Solution, Term
<1>5. s.prem[Len(s.prem)] \in Nat
  <2>1. Len(Body) = 1 /\ s.k > 1
    BY <1>3 DEF Body, Complete, Solution
  <2>2. Len(s.prem) = s.k - 1
    BY <1>3 DEF IInv, Shape
  <2> QED
    BY <2>1, <2>2, <1>3 DEF Solution
<1>6. answers' \subseteq [atom : Atom(Constants \cup Variables), id : Nat]
  <2> DEFINE a == [atom |-> Instantiate(goal, s.env), id |-> s.prem[Len(s.prem)]]
  <2>1. a \in [atom : Atom(Constants \cup Variables), id : Nat]
    BY <1>4, <1>5
  <2>2. answers' = answers \cup {a}
    BY DEF Answer
  <2> HIDE DEF a
  <2> QED
    BY <2>1, <2>2 DEF IInv, TypeOK
<1>7. TypeOK'
  BY <1>1, <1>2, <1>6 DEF IInv, TypeOK
<1>8. Shape'
  BY <1>1, <1>2 DEF IInv, Shape
<1> QED
  BY <1>1, <1>2, <1>7, <1>8 DEF IInv, PremisesInUse, PremisesEarlier, FactsSupported

LEMMA StartFixpointIInv == IInv /\ StartFixpoint => IInv'
<1> SUFFICES ASSUME IInv, StartFixpoint PROVE IInv'
  OBVIOUS
<1>1. UNCHANGED <<program, now, facts, trace, derived, todo, goal, answers, settled,
                  imported, imports, queries>>
  BY DEF StartFixpoint, store
<1>2. todo = {}
  BY DEF StartFixpoint, IInv, Shape
<1>3. Len(program) \in Nat
  BY EngineAssumption DEF IInv, TypeOK
<1>4. TypeOK'
  <2>1. /\ phase' \in Phases /\ pass' \in Nat /\ runs' \in Nat
        /\ clause' \in 0..Len(program)
    BY <1>3 DEF StartFixpoint, IInv, TypeOK, Phases
  <2> QED
    BY <1>1, <2>1 DEF IInv, TypeOK
<1>5. Shape'
  BY <1>1, <1>2 DEF StartFixpoint, IInv, Shape
<1> QED
  BY <1>1, <1>4, <1>5 DEF IInv, PremisesInUse, PremisesEarlier, FactsSupported

(* The partial solution every clause and every goal starts from.           *)
LEMMA StartType == Start \in Solution /\ Start.k = 1 /\ Start.prem = <<>>
<1>1. EmptyEnv \in [{} -> Constants]
  BY DEF EmptyEnv
<1>2. EmptyEnv \in Env
  BY <1>1 DEF Env
<1>3. <<>> \in Seq(Nat)
  OBVIOUS
<1> QED
  BY <1>2, <1>3 DEF Start, Solution

LEMMA NextClauseIInv == IInv /\ NextClause => IInv'
<1> SUFFICES ASSUME IInv, NextClause PROVE IInv'
  OBVIOUS
<1>1. UNCHANGED <<program, now, facts, trace, derived, phase, pass, goal, answers,
                  settled, imported, runs, imports, queries>>
  BY DEF NextClause, store, history
<1>2. phase = "pass" /\ todo' = {Start} /\ clause' \in 1..Len(program)
  BY EngineAssumption DEF NextClause, MoreClauses, IInv, TypeOK
<1>3. TypeOK'
  <2>1. Len(program) \in Nat /\ clause' \in 0..Len(program')
    BY <1>1, <1>2, EngineAssumption DEF IInv, TypeOK
  <2>2. todo' \subseteq Solution
    BY <1>2, StartType
  <2> HIDE DEF Solution
  <2> QED
    BY <1>1, <2>1, <2>2 DEF IInv, TypeOK
<1>4. Shape'
  BY <1>1, <1>2, StartType DEF IInv, Shape
<1> QED
  BY <1>1, <1>2, <1>3, <1>4, StartType
  DEF IInv, PremisesInUse, PremisesEarlier, FactsSupported

LEMMA EndPassIInv == IInv /\ EndPass => IInv'
<1> SUFFICES ASSUME IInv, EndPass PROVE IInv'
  OBVIOUS
<1>1. UNCHANGED <<program, now, trace, todo, goal, answers, imported, runs, imports,
                  queries>>
  BY DEF EndPass, history
<1>2. todo = {} /\ clause' = 0 /\ facts' = facts \cup Fresh /\ derived' = {}
  BY DEF EndPass
<1>3. Fresh \subseteq derived
  BY DEF Fresh
<1>4. TypeOK'
  <2>1. Len(program) \in Nat
    BY EngineAssumption DEF IInv, TypeOK
  <2>2. pass' \in Nat /\ phase' \in Phases /\ settled' \in BOOLEAN
    BY DEF EndPass, IInv, TypeOK, Phases
  <2>3. facts' \subseteq Fact /\ derived' \subseteq Fact
    BY <1>2, <1>3 DEF IInv, TypeOK
  <2>4. clause' \in 0..Len(program')
    BY <1>1, <1>2, <2>1
  <2> QED
    BY <1>1, <2>2, <2>3, <2>4 DEF IInv, TypeOK
<1>5. Shape'
  <2>1. phase' # "query"
    BY DEF EndPass
  <2> QED
    BY <1>1, <1>2, <2>1 DEF IInv, Shape
<1>6. FactsSupported'
  <2>1. \A f \in facts' : f.id \in DOMAIN trace /\ trace[f.id].fact = f.atom
    BY <1>2, <1>3 DEF IInv, FactsSupported
  <2>2. ASSUME NEW f \in facts', NEW g \in facts', f.atom = g.atom PROVE f = g
    <3>1. CASE f \in facts /\ g \in facts
      BY <2>2, <3>1 DEF IInv, FactsSupported
    <3>2. CASE f \in Fresh /\ g \in Fresh
      <4>1. f \in Fact /\ g \in Fact /\ f.id <= g.id /\ g.id <= f.id
        BY <2>2, <3>2, <1>3 DEF Fresh, IInv, TypeOK
      <4>2. f.id = g.id
        BY <4>1 DEF Fact
      <4> QED
        BY <2>2, <4>1, <4>2 DEF Fact
    <3>3. CASE f \in facts /\ g \in Fresh
      BY <2>2, <3>3 DEF Fresh, Stored, Atoms
    <3>4. CASE f \in Fresh /\ g \in facts
      BY <2>2, <3>4 DEF Fresh, Stored, Atoms
    <3> QED
      BY <1>2, <3>1, <3>2, <3>3, <3>4
  <2> QED
    BY <1>1, <1>2, <2>1, <2>2 DEF FactsSupported
<1> QED
  BY <1>1, <1>2, <1>4, <1>5, <1>6 DEF IInv, PremisesInUse, PremisesEarlier

LEMMA ImportIInv ==
  ASSUME IInv, NEW atom \in Importable, Import(atom)
  PROVE  IInv'
<1> DEFINE node == [kind |-> "fact", rule |-> 0, fact |-> atom, prem |-> <<>>]
           new == <<node>>
<1>1. UNCHANGED <<program, now, phase, clause, todo, derived, pass, goal, answers,
                  runs, queries>>
  BY DEF Import
<1>2. atom \in GroundAtom /\ trace \in Seq(Node)
  BY EngineAssumption DEF IInv, TypeOK
<1>3. node \in Node /\ node.fact = atom /\ node.prem = <<>>
  <2>1. "fact" \in NodeKinds /\ 0 \in Nat /\ <<>> \in Seq(Nat)
    BY DEF NodeKinds
  <2> QED
    BY <1>2, <2>1 DEF Node
<1>4. trace' = Append(trace, node)
  BY DEF Import
<1> HIDE DEF node
<1>5. /\ trace' = trace \o new /\ new \in Seq(Node)
      /\ Len(new) = 1 /\ 1 \in DOMAIN new /\ new[1] = node
      /\ \A i \in DOMAIN new : i = 1
  BY <1>2, <1>3, <1>4
<1> HIDE DEF new
<1>6. \A i \in DOMAIN new : \A j \in DOMAIN new[i].prem :
        new[i].prem[j] \in 1..(Len(trace) + i - 1)
  BY <1>3, <1>5
<1>7. /\ trace' \in Seq(Node)
      /\ Len(trace') = Len(trace) + 1
      /\ DOMAIN trace \subseteq DOMAIN trace'
      /\ \A i \in DOMAIN trace : trace'[i] = trace[i]
      /\ trace'[Len(trace) + 1] = node
      /\ PremisesEarlier'
  BY <1>5, <1>6, LongerTrace, <1>2
<1>8. Len(trace) + 1 \in DOMAIN trace' /\ Len(trace) + 1 \in Nat
  BY <1>2, <1>7
<1>9. settled' \in BOOLEAN /\ imported' \subseteq Importable /\ imports' \in Nat
  BY DEF Import, IInv, TypeOK
<1>10. CASE atom \in Stored
  <2>1. facts' = facts
    BY <1>10 DEF Import, AddFact
  <2>2. TypeOK'
    BY <1>1, <1>7, <1>9, <2>1 DEF IInv, TypeOK
  <2>3. Shape' /\ PremisesInUse' /\ FactsSupported'
    BY <1>1, <1>7, <2>1 DEF IInv, Shape, PremisesInUse, FactsSupported
  <2> QED
    BY <1>7, <2>2, <2>3 DEF IInv
<1>11. CASE atom \notin Stored
  <2> DEFINE f == [atom |-> atom, id |-> Len(trace) + 1]
  <2>1. facts' = facts \cup {f} /\ f \in Fact /\ f.atom = atom /\ f.id = Len(trace) + 1
    BY <1>2, <1>8, <1>11 DEF Import, AddFact, Fact
  <2> HIDE DEF f
  <2>2. TypeOK'
    BY <1>1, <1>7, <1>9, <2>1 DEF IInv, TypeOK
  <2>3. Shape' /\ PremisesInUse'
    BY <1>1, <1>7 DEF IInv, Shape, PremisesInUse
  <2>4. \A g \in facts : g.atom # atom
    BY <1>11 DEF Stored, Atoms
  <2>5. FactsSupported'
    BY <1>1, <1>3, <1>7, <1>8, <2>1, <2>4 DEF IInv, FactsSupported
  <2> QED
    BY <1>7, <2>2, <2>3, <2>5 DEF IInv
<1> QED
  BY <1>10, <1>11

LEMMA QueryIInv ==
  ASSUME IInv, NEW g \in Goals, Query(g)
  PROVE  IInv'
<1>1. UNCHANGED <<program, now, facts, trace, derived, clause, pass, settled,
                  imported, runs, imports>>
  BY DEF Query, store
<1>2. phase' = "query" /\ goal' = g /\ answers' = {} /\ todo' = {Start}
  BY DEF Query
<1>3. TypeOK'
  BY <1>1, <1>2, StartType DEF Query, IInv, TypeOK, Phases
<1>4. Shape'
  BY <1>1, <1>2, StartType DEF IInv, Shape
<1> QED
  BY <1>1, <1>2, <1>3, <1>4, StartType
  DEF IInv, PremisesInUse, PremisesEarlier, FactsSupported

LEMMA EndQueryIInv == IInv /\ EndQuery => IInv'
<1> SUFFICES ASSUME IInv, EndQuery PROVE IInv'
  OBVIOUS
<1>1. TypeOK'
  BY DEF EndQuery, store, history, IInv, TypeOK, Phases
<1> QED
  BY <1>1 DEF EndQuery, store, history, IInv, Shape, PremisesInUse,
              PremisesEarlier, FactsSupported

-----------------------------------------------------------------------------
(* The theorems                                                            *)

LEMMA NextIInv == IInv /\ [Next]_vars => IInv'
<1> SUFFICES ASSUME IInv, [Next]_vars PROVE IInv'
  OBVIOUS
<1>1. CASE UNCHANGED vars
  BY <1>1 DEF vars, IInv, TypeOK, Shape, PremisesInUse, PremisesEarlier, FactsSupported
<1>2. CASE Evaluate
  <2>1. CASE Solving /\ \E s \in todo : Advance(s)
    <3>1. PICK s \in todo : Advance(s)
      BY <2>1
    <3> QED
      BY <3>1, MatchLiteralIInv, NegateLiteralIInv, InvokeAdapterIInv, AdapterFailsIInv,
         DeriveIInv, AnswerIInv DEF Advance
  <2> QED
    BY <1>2, <2>1, NextClauseIInv, EndPassIInv, EndQueryIInv DEF Evaluate
<1>3. CASE StartFixpoint
  BY <1>3, StartFixpointIInv
<1>4. ASSUME NEW atom \in Importable, Import(atom) PROVE IInv'
  BY <1>4, ImportIInv
<1>5. ASSUME NEW g \in Goals, Query(g) PROVE IInv'
  BY <1>5, QueryIInv
<1> QED
  BY <1>1, <1>2, <1>3, <1>4, <1>5 DEF Next

LEMMA Inductive == Spec => []IInv
<1>1. Init => IInv
  BY InitIInv
<1>2. IInv /\ [Next]_vars => IInv'
  BY NextIInv
<1> QED
  BY <1>1, <1>2, PTL DEF Spec

(* The evaluator keeps every variable within its type, whatever programs,  *)
(* certificates, goals and adapter replies it is given.                    *)
THEOREM TypeCorrect == Spec => []TypeOK
<1>1. IInv => TypeOK
  BY DEF IInv
<1> QED
  BY <1>1, Inductive, PTL

(* Every stored or newly derived fact cites a trace node about its own     *)
(* atom, and no atom is stored under two nodes (etb_relation_set_add_fact, *)
(* the merge of etb_engine_run_fixpoint).                                  *)
THEOREM FactsAreSupported == Spec => []FactsSupported
<1>1. IInv => FactsSupported
  BY DEF IInv
<1> QED
  BY <1>1, Inductive, PTL

(* A premise id is the id of a node appended earlier (etb_trace_append and *)
(* the premise lists of etb_evaluate_clause_body): traces are well founded. *)
THEOREM TraceWellFounded == Spec => []PremisesEarlier
<1>1. IInv => PremisesEarlier
  BY DEF IInv
<1> QED
  BY <1>1, Inductive, PTL

LEMMA AppendKeeps ==
  ASSUME NEW T, NEW s \in Seq(T), NEW t \in Seq(T)
  PROVE  /\ Len(s) <= Len(s \o t)
         /\ \A i \in DOMAIN s : (s \o t)[i] = s[i]
  OBVIOUS

LEMMA StepKeepsEvidence ==
  ASSUME IInv, IInv', [Next]_vars
  PROVE  /\ facts \subseteq facts'
         /\ Len(trace) <= Len(trace')
         /\ \A i \in DOMAIN trace : trace'[i] = trace[i]
<1> DEFINE Kept == /\ Len(trace) <= Len(trace')
                   /\ \A i \in DOMAIN trace : trace'[i] = trace[i]
<1> SUFFICES facts \subseteq facts' /\ Kept
  OBVIOUS
<1>1. trace \in Seq(Node) /\ trace' \in Seq(Node)
  BY DEF IInv, TypeOK
<1>2. trace' = trace => Kept
  BY <1>1
<1>3. (\E node : trace' = Append(trace, node)) => Kept
  BY <1>1
<1>4. ASSUME NEW s \in todo, Advance(s) PROVE facts' = facts /\ Kept
  <2>1. CASE MatchLiteral(s) \/ NegateLiteral(s) \/ AdapterFails(s) \/ Answer(s)
    BY <2>1, <1>2 DEF MatchLiteral, NegateLiteral, AdapterFails, Answer, store
  <2>2. CASE InvokeAdapter(s)
    <3>1. facts' = facts
      BY <2>2 DEF InvokeAdapter
    <3>2. PICK reply \in Replies(s) :
            trace' = trace \o [i \in DOMAIN reply |->
                                 [kind |-> "capability", rule |-> 0,
                                  fact |-> ToolAtom(LiteralOf(s), reply[i]),
                                  prem |-> <<>>]]
      BY <2>2 DEF InvokeAdapter
    <3>3. PICK n \in 0..MaxTuples : DOMAIN reply = 1..n
      BY DEF Replies
    <3> DEFINE val(i) == [kind |-> "capability", rule |-> 0,
                          fact |-> ToolAtom(LiteralOf(s), reply[i]), prem |-> <<>>]
               new == [i \in 1..n |-> val(i)]
               T == Node \cup {val(i) : i \in 1..n}
    <3>4. n \in Nat /\ trace' = trace \o new
      BY <3>2, <3>3, EngineAssumption
    <3>5. new \in Seq(T)
      <4> HIDE DEF val
      <4>1. \A i \in 1..n : val(i) \in T
        OBVIOUS
      <4> HIDE DEF T
      <4> QED
        BY <3>4, <4>1
    <3>6. trace \in Seq(T)
      BY <1>1
    <3> HIDE DEF new, T
    <3> QED
      BY <3>1, <3>4, <3>5, <3>6, AppendKeeps
  <2>3. CASE Derive(s)
    BY <2>3, <1>2, <1>3 DEF Derive
  <2> QED
    BY <1>4, <2>1, <2>2, <2>3 DEF Advance
<1>5. CASE EndPass
  BY <1>5, <1>2 DEF EndPass
<1>6. CASE NextClause \/ EndQuery \/ StartFixpoint \/ UNCHANGED vars
  BY <1>6, <1>2 DEF NextClause, EndQuery, StartFixpoint, store, vars
<1>7. ASSUME NEW atom \in Importable, Import(atom) PROVE facts \subseteq facts' /\ Kept
  BY <1>7, <1>3 DEF Import, AddFact
<1>8. ASSUME NEW g \in Goals, Query(g) PROVE facts' = facts /\ Kept
  BY <1>8, <1>2 DEF Query, store
<1> HIDE DEF Kept
<1> QED
  BY <1>4, <1>5, <1>6, <1>7, <1>8 DEF Next, Evaluate

(* No step drops a fact, gives it another trace id or changes a node: what *)
(* a premise list, an answer or a certificate cites stays what it was.     *)
THEOREM EvidenceStaysStable == Spec => EvidenceIsStable
<1>1. IInv /\ IInv' /\ [Next]_vars
        => [/\ facts \subseteq facts'
            /\ Len(trace) <= Len(trace')
            /\ \A i \in DOMAIN trace : trace'[i] = trace[i]]_vars
  BY StepKeepsEvidence
<1> QED
  BY <1>1, Inductive, PTL DEF Spec, EvidenceIsStable

-----------------------------------------------------------------------------
(* Bindings that grow                                                      *)

(* ext binds what env binds, to the same terms.                            *)
Extends(env, ext) ==
  DOMAIN env \subseteq DOMAIN ext /\ \A v \in DOMAIN env : ext[v] = env[v]

LEMMA BindExtends ==
  ASSUME NEW env, NEW pattern, NEW fact
  PROVE  /\ Extends(env, Bind(env, pattern, fact))
         /\ DOMAIN Bind(env, pattern, fact) = DOMAIN env \cup VariablesOf(pattern)
BY DEF Extends, Bind

(* What a term is bound to by a successful unification is the term met.    *)
LEMMA BoundTerm ==
  ASSUME NEW env \in Env, NEW pattern \in Atom(Term), NEW fact \in GroundAtom,
         NEW ignoreSpeaker, Unifies(env, pattern, fact, ignoreSpeaker),
         NEW i \in DOMAIN Args(pattern), Args(pattern)[i] \in Variables
  PROVE  Bind(env, pattern, fact)[Args(pattern)[i]] = Args(fact)[i]
<1> DEFINE v == Args(pattern)[i]
           pos == CHOOSE j \in DOMAIN Args(pattern) : Args(pattern)[j] = v
<1>1. v \in VariablesOf(pattern)
  BY DEF VariablesOf, ArgSet
<1>2. CASE v \in DOMAIN env
  BY <1>2 DEF Bind, Unifies
<1>3. CASE v \notin DOMAIN env
  <2>1. pos \in DOMAIN Args(pattern) /\ Args(pattern)[pos] = v
    OBVIOUS
  <2>2. Bind(env, pattern, fact)[v] = Args(fact)[pos]
    BY <1>1, <1>3 DEF Bind
  <2>3. Args(fact)[pos] = Args(fact)[i]
    BY <1>3, <2>1 DEF Unifies
  <2> QED
    BY <2>2, <2>3
<1> QED
  BY <1>2, <1>3

(* A pattern still unifies after its own bindings are made.                *)
LEMMA BindUnifies ==
  ASSUME NEW env \in Env, NEW pattern \in Atom(Term), NEW fact \in GroundAtom,
         NEW ignoreSpeaker, Unifies(env, pattern, fact, ignoreSpeaker)
  PROVE  Unifies(Bind(env, pattern, fact), pattern, fact, ignoreSpeaker)
<1> DEFINE ext == Bind(env, pattern, fact)
<1>1. ASSUME NEW i \in DOMAIN Args(pattern), Args(pattern)[i] \in Variables
      PROVE  Args(pattern)[i] \in DOMAIN ext /\ ext[Args(pattern)[i]] = Args(fact)[i]
  <2>1. Args(pattern)[i] \in VariablesOf(pattern)
    BY <1>1 DEF VariablesOf, ArgSet
  <2> QED
    BY <1>1, <2>1, BoundTerm, BindExtends
<1>2. \A i \in DOMAIN Args(pattern) :
        Args(pattern)[i] \notin Variables => Args(pattern)[i] = Args(fact)[i]
  BY DEF Unifies
<1>3. SameRelation(pattern, fact, ignoreSpeaker)
  BY DEF Unifies
<1> HIDE DEF ext
<1> QED
  BY <1>1, <1>2, <1>3 DEF Unifies, ext

(* Unification under more bindings implies unification under fewer.        *)
LEMMA UnifiesUnderFewer ==
  ASSUME NEW env, NEW ext, Extends(env, ext), NEW pattern, NEW fact, NEW ignoreSpeaker,
         Unifies(ext, pattern, fact, ignoreSpeaker)
  PROVE  Unifies(env, pattern, fact, ignoreSpeaker)
BY DEF Extends, Unifies

(* When its variables are all bound, more bindings make no difference.     *)
LEMMA UnifiesUnderMore ==
  ASSUME NEW env, NEW ext, Extends(env, ext), NEW pattern, NEW fact, NEW ignoreSpeaker,
         VariablesOf(pattern) \subseteq DOMAIN env,
         Unifies(env, pattern, fact, ignoreSpeaker)
  PROVE  Unifies(ext, pattern, fact, ignoreSpeaker)
<1>1. ASSUME NEW i \in DOMAIN Args(pattern), Args(pattern)[i] \in Variables
      PROVE  Args(pattern)[i] \in DOMAIN env
  BY <1>1 DEF VariablesOf, ArgSet
<1> QED
  BY <1>1 DEF Extends, Unifies

LEMMA InstantiateUnderMore ==
  ASSUME NEW env \in Env, NEW ext \in Env, Extends(env, ext), NEW pattern \in Atom(Term),
         VariablesOf(pattern) \subseteq DOMAIN env
  PROVE  Instantiate(pattern, ext) = Instantiate(pattern, env)
<1>1. CASE pattern.kind = "speaks"
  BY <1>1 DEF Instantiate
<1>2. CASE pattern.kind # "speaks"
  <2>1. \A i \in DOMAIN pattern.args :
          pattern.args[i] \in DOMAIN env <=> pattern.args[i] \in DOMAIN ext
    <3>1. DOMAIN ext \subseteq Variables
      BY DEF Env
    <3>2. ASSUME NEW i \in DOMAIN pattern.args, pattern.args[i] \in Variables
          PROVE  pattern.args[i] \in DOMAIN env
      BY <1>2, <3>2 DEF VariablesOf, ArgSet, Args
    <3> QED
      BY <3>1, <3>2 DEF Extends
  <2>2. [i \in DOMAIN pattern.args |->
           IF pattern.args[i] \in DOMAIN ext THEN ext[pattern.args[i]] ELSE pattern.args[i]]
        = [i \in DOMAIN pattern.args |->
             IF pattern.args[i] \in DOMAIN env THEN env[pattern.args[i]] ELSE pattern.args[i]]
    BY <2>1 DEF Extends
  <2> QED
    BY <1>2, <2>2 DEF Instantiate
<1> QED
  BY <1>1, <1>2

(* The pattern instantiated after it was matched reads as what it matched. *)
LEMMA InstantiateMatched ==
  ASSUME NEW env \in Env, NEW pattern \in Atom(Term), NEW fact \in GroundAtom,
         NEW ignoreSpeaker, Unifies(env, pattern, fact, ignoreSpeaker)
  PROVE  Args(Instantiate(pattern, Bind(env, pattern, fact))) = Args(fact)
<1> DEFINE ext == Bind(env, pattern, fact)
<1>1. CASE pattern.kind = "speaks"
  BY <1>1 DEF Instantiate, Args, Unifies, SameRelation
<1>2. CASE pattern.kind # "speaks"
  <2>1. Args(pattern) \in Seq(Term) /\ Args(fact) \in Seq(Constants)
        /\ Len(Args(pattern)) = Len(Args(fact))
    BY <1>2, ArgsType DEF GroundAtom, Unifies, SameRelation, Args
  <2>2. pattern.args = Args(pattern)
    BY <1>2 DEF Args
  <2>3. DOMAIN ext = DOMAIN env \cup VariablesOf(pattern)
    BY BindExtends
  <2>4. ASSUME NEW i \in DOMAIN Args(pattern)
        PROVE  (IF Args(pattern)[i] \in DOMAIN ext THEN ext[Args(pattern)[i]]
                ELSE Args(pattern)[i]) = Args(fact)[i]
    <3>1. CASE Args(pattern)[i] \in Variables
      BY <3>1, <2>3, BoundTerm DEF VariablesOf, ArgSet
    <3>2. CASE Args(pattern)[i] \notin Variables
      <4>1. ext \in Env
        BY BindType
      <4> QED
        BY <3>2, <4>1 DEF Env, Unifies
    <3> QED
      BY <3>1, <3>2
  <2> DEFINE new == [i \in DOMAIN Args(pattern) |->
                       IF Args(pattern)[i] \in DOMAIN ext THEN ext[Args(pattern)[i]]
                       ELSE Args(pattern)[i]]
  <2>5. new = Args(fact)
    <3> HIDE DEF ext
    <3> QED
      BY <2>1, <2>4
  <2>6. Instantiate(pattern, ext) = [pattern EXCEPT !.args = new]
    BY <1>2, <2>2 DEF Instantiate
  <2>7. Instantiate(pattern, ext).args = new /\ Instantiate(pattern, ext).kind = pattern.kind
    <3> HIDE DEF ext, new
    <3> QED
      BY <1>2, <2>6 DEF Atom, PredicateAtom, SaysAtom, SpeaksForAtom
  <2> QED
    BY <1>2, <2>5, <2>7 DEF Args
<1> QED
  BY <1>1, <1>2

(* A literal that holds goes on to hold when more variables are bound: its *)
(* own, if it is positive, are bound already, and a negated one that       *)
(* nothing refutes under few bindings is refuted by nothing under more.    *)
LEMMA HoldsUnderMore ==
  ASSUME NEW env \in Env, NEW ext \in Env, Extends(env, ext), NEW literal \in Literal,
         NEW atoms, NEW tuples, NEW t, Holds(env, literal, atoms, tuples, t),
         NegationAllowed(literal),
         ~ literal.neg => VariablesOf(literal.atom) \subseteq DOMAIN env
  PROVE  Holds(ext, literal, atoms, tuples, t)
<1>1. literal.atom \in Atom(Term)
  BY DEF Literal, Term
<1>2. CASE IsCapability(literal)
  <2>1. ~ literal.neg
    BY <1>2 DEF NegationAllowed
  <2>2. Instantiate(literal.atom, ext) = Instantiate(literal.atom, env)
    BY <1>1, <2>1, InstantiateUnderMore
  <2> QED
    BY <1>2, <2>2 DEF Holds
<1>3. CASE ~ IsCapability(literal) /\ literal.neg
  <2>1. ~ Refuted(env, literal.atom, atoms, t)
    BY <1>3 DEF Holds
  <2>2. ~ Refuted(ext, literal.atom, atoms, t)
    BY <2>1, UnifiesUnderFewer DEF Refuted
  <2> QED
    BY <1>3, <2>2 DEF Holds
<1>4. CASE ~ IsCapability(literal) /\ ~ literal.neg
  <2>1. PICK fact \in Matches(env, literal.atom, atoms, t) : TRUE
    BY <1>4 DEF Holds
  <2>2. Unifies(env, literal.atom, fact, TRUE)
    BY <2>1 DEF Matches
  <2>3. Unifies(ext, literal.atom, fact, TRUE)
    BY <1>4, <2>2, UnifiesUnderMore
  <2>4. fact \in Matches(ext, literal.atom, atoms, t)
    BY <2>1, <2>3 DEF Matches
  <2> QED
    BY <1>4, <2>4 DEF Holds
<1> QED
  BY <1>2, <1>3, <1>4

-----------------------------------------------------------------------------
(* The inductive invariant of the refinement                               *)

(* A pass runs over a validated program only.                              *)
PassValidated == phase = "pass" => Validates(program)

(* The variables of the positive literals s has advanced over.             *)
BoundBy(s) == UNION {VariablesOf(Body[i].atom) : i \in {j \in DOMAIN Body : j < s.k /\ ~ Body[j].neg}}

(* A partial solution of a clause binds the variables of the positive      *)
(* literals it has advanced over and no others, and every literal it has   *)
(* advanced over holds under its bindings, in the atoms stored when the    *)
(* pass began.                                                             *)
SolutionsHold ==
  phase = "pass" =>
    \A s \in todo :
      /\ DOMAIN s.env = BoundBy(s)
      /\ \A i \in DOMAIN Body : i < s.k => Holds(s.env, Body[i], Stored, AdapterTuples, now)

(* What a pass has derived so far are consequences of what it started      *)
(* from; outside a pass nothing waits to be merged.                        *)
DerivedFollow ==
  /\ \A d \in derived : d.atom \in Consequences(program, Stored, AdapterTuples, now)
  /\ phase \in {"idle", "query"} => derived = {}

DInv == IInv /\ PassValidated /\ SolutionsHold /\ DerivedFollow

LEMMA PassBody ==
  ASSUME DInv, phase = "pass", NEW s \in todo
  PROVE  /\ clause \in DOMAIN program /\ program[clause] \in Clause
         /\ Body = program[clause].body /\ Body \in Seq(Literal)
         /\ \A i \in DOMAIN Body : Body[i] \in Literal /\ NegationAllowed(Body[i])
         /\ s.k \in Nat /\ s.k >= 1 /\ s.env \in Env
<1>1. program \in Seq(Clause) /\ clause \in 1..Len(program)
  BY EngineAssumption DEF DInv, IInv, TypeOK, Shape
<1>2. clause \in DOMAIN program /\ program[clause] \in Clause
  BY <1>1
<1>3. Body = program[clause].body /\ Body \in Seq(Literal)
  BY <1>2 DEF Body, Clause
<1>4. \A i \in DOMAIN Body : Body[i] \in Literal /\ NegationAllowed(Body[i])
  BY <1>2, <1>3 DEF DInv, PassValidated, Validates
<1>5. s.k \in Nat /\ s.k >= 1 /\ s.env \in Env
  BY DEF DInv, IInv, TypeOK, Shape, Solution
<1> QED
  BY <1>2, <1>3, <1>4, <1>5

(* s advanced to t over a literal that holds under the bindings of t.      *)
LEMMA AdvancedHolds ==
  ASSUME DInv, phase = "pass", NEW s \in todo, ~ Complete(s), NEW t,
         t.k = s.k + 1, t.env \in Env, Extends(s.env, t.env),
         DOMAIN t.env = DOMAIN s.env \cup
           (IF LiteralOf(s).neg THEN {} ELSE VariablesOf(LiteralOf(s).atom)),
         Holds(t.env, LiteralOf(s), Stored, AdapterTuples, now)
  PROVE  /\ DOMAIN t.env = BoundBy(t)
         /\ \A i \in DOMAIN Body : i < t.k => Holds(t.env, Body[i], Stored, AdapterTuples, now)
<1>1. /\ \A i \in DOMAIN Body : Body[i] \in Literal /\ NegationAllowed(Body[i])
      /\ s.k \in Nat /\ s.env \in Env /\ Body \in Seq(Literal)
  BY PassBody
<1>2. DOMAIN s.env = BoundBy(s)
      /\ \A i \in DOMAIN Body : i < s.k => Holds(s.env, Body[i], Stored, AdapterTuples, now)
  BY DEF DInv, SolutionsHold
<1>3. LiteralOf(s) = Body[s.k] /\ s.k \in DOMAIN Body
  BY BodyType, <1>1 DEF LiteralOf, DInv
<1>4. BoundBy(t) = BoundBy(s) \cup
        (IF LiteralOf(s).neg THEN {} ELSE VariablesOf(LiteralOf(s).atom))
  <2> DEFINE before == {j \in DOMAIN Body : j < s.k /\ ~ Body[j].neg}
             upTo == {j \in DOMAIN Body : j < t.k /\ ~ Body[j].neg}
  <2>1. \A j \in DOMAIN Body : j \in Nat /\ (j < t.k <=> j < s.k \/ j = s.k)
    BY <1>1
  <2>2. CASE LiteralOf(s).neg
    <3>1. upTo = before
      BY <2>1, <2>2, <1>3
    <3> QED
      BY <2>2, <3>1 DEF BoundBy
  <2>3. CASE ~ LiteralOf(s).neg
    <3>1. upTo = before \cup {s.k}
      BY <2>1, <2>3, <1>3
    <3> QED
      BY <2>3, <3>1, <1>3 DEF BoundBy
  <2> QED
    BY <2>2, <2>3
<1>5. ASSUME NEW i \in DOMAIN Body, i < t.k
      PROVE  Holds(t.env, Body[i], Stored, AdapterTuples, now)
  <2>1. CASE i = s.k
    BY <2>1, <1>3
  <2>2. CASE i # s.k
    <3>1. i < s.k
      BY <2>2, <1>1, <1>5
    <3>2. ~ Body[i].neg => VariablesOf(Body[i].atom) \subseteq DOMAIN s.env
      BY <1>2, <3>1 DEF BoundBy
    <3> QED
      BY <1>1, <1>2, <3>1, <3>2, HoldsUnderMore
  <2> QED
    BY <2>1, <2>2
<1> QED
  BY <1>2, <1>4, <1>5

-----------------------------------------------------------------------------
(* Every step preserves it                                                 *)

(* What an advanced solution leaves alone.                                 *)
LEMMA TodoOnly ==
  ASSUME DInv, NEW s \in todo, NEW next, todo' = (todo \ {s}) \cup next,
         UNCHANGED <<program, now, facts, phase, clause, goal>>,
         phase = "pass" =>
           \A t \in next :
             /\ DOMAIN t.env = BoundBy(t)
             /\ \A i \in DOMAIN Body : i < t.k => Holds(t.env, Body[i], Stored, AdapterTuples, now)
  PROVE  PassValidated' /\ SolutionsHold'
<1>1. Body' = Body /\ Stored' = Stored
  BY DEF Body, Stored, Atoms
<1>2. \A t : BoundBy(t)' = BoundBy(t)
  BY <1>1 DEF BoundBy
<1> QED
  BY <1>1, <1>2 DEF DInv, PassValidated, SolutionsHold

LEMMA MatchLiteralDInv ==
  ASSUME DInv, NEW s \in todo, MatchLiteral(s)
  PROVE  DInv'
<1> DEFINE next == {Extend(s, f.atom, f.id) : f \in Found(s)}
<1>1. todo' = (todo \ {s}) \cup next
  BY DEF MatchLiteral, Replace
<1>2. UNCHANGED <<program, now, facts, phase, clause, goal>> /\ derived' = derived
  BY DEF MatchLiteral, store
<1>3. ASSUME phase = "pass", NEW t \in next
      PROVE  /\ DOMAIN t.env = BoundBy(t)
             /\ \A i \in DOMAIN Body : i < t.k => Holds(t.env, Body[i], Stored, AdapterTuples, now)
  <2>1. PICK f \in Found(s) : t = Extend(s, f.atom, f.id)
    OBVIOUS
  <2>2. f \in facts /\ f.atom \in Matches(s.env, LiteralOf(s).atom, Stored, now)
    BY DEF Found, FactsMatching
  <2>3. f.atom \in GroundAtom /\ s.env \in Env
    BY <2>2 DEF DInv, IInv, TypeOK, Fact, Solution
  <2>4. ~ Complete(s) /\ ~ LiteralOf(s).neg /\ ~ IsCapability(LiteralOf(s))
    BY DEF MatchLiteral
  <2>5. LiteralOf(s).atom \in Atom(Term)
    BY <2>4, BodyType DEF DInv, Literal, Term
  <2>6. Unifies(s.env, LiteralOf(s).atom, f.atom, TRUE)
    BY <2>2 DEF Matches
  <2>7. t.k = s.k + 1 /\ t.env = Bind(s.env, LiteralOf(s).atom, f.atom)
    BY <2>1 DEF Extend
  <2>8. t.env \in Env /\ Unifies(t.env, LiteralOf(s).atom, f.atom, TRUE)
    BY <2>3, <2>5, <2>6, <2>7, BindType, BindUnifies
  <2>9. f.atom \in Matches(t.env, LiteralOf(s).atom, Stored, now)
    BY <2>2, <2>8 DEF Matches
  <2>10. Holds(t.env, LiteralOf(s), Stored, AdapterTuples, now)
    BY <2>4, <2>9 DEF Holds
  <2>11. Extends(s.env, t.env) /\ DOMAIN t.env = DOMAIN s.env \cup VariablesOf(LiteralOf(s).atom)
    BY <2>7, BindExtends
  <2> QED
    BY <1>3, <2>4, <2>7, <2>8, <2>10, <2>11, AdvancedHolds
<1> HIDE DEF next
<1>4. PassValidated' /\ SolutionsHold'
  BY <1>1, <1>2, <1>3, TodoOnly
<1>5. DerivedFollow'
  BY <1>2 DEF DInv, DerivedFollow, Stored, Atoms
<1> QED
  BY <1>4, <1>5, MatchLiteralIInv DEF DInv

LEMMA NegateLiteralDInv ==
  ASSUME DInv, NEW s \in todo, NegateLiteral(s)
  PROVE  DInv'
<1> DEFINE next == IF Survives(s) THEN {Skip(s)} ELSE {}
<1>1. todo' = (todo \ {s}) \cup next
  BY DEF NegateLiteral, Replace
<1>2. UNCHANGED <<program, now, facts, phase, clause, goal>> /\ derived' = derived
  BY DEF NegateLiteral, store
<1>3. ASSUME phase = "pass", NEW t \in next
      PROVE  /\ DOMAIN t.env = BoundBy(t)
             /\ \A i \in DOMAIN Body : i < t.k => Holds(t.env, Body[i], Stored, AdapterTuples, now)
  <2>1. Survives(s) /\ t = Skip(s) /\ s \in Solution
    BY DEF DInv, IInv, TypeOK
  <2>2. t.k = s.k + 1 /\ t.env = s.env /\ t.env \in Env
    BY <2>1 DEF Skip, Solution
  <2>3. ~ Complete(s) /\ LiteralOf(s).neg
    BY DEF NegateLiteral
  <2>4. LiteralOf(s) = Body[s.k] /\ s.k \in DOMAIN Body
    BY <2>3, BodyType DEF LiteralOf, DInv
  <2>5. ~ IsCapability(LiteralOf(s))
    BY <1>3, <2>3, <2>4, PassBody DEF NegationAllowed
  <2>6. Holds(t.env, LiteralOf(s), Stored, AdapterTuples, now)
    BY <2>1, <2>2, <2>3, <2>5 DEF Holds, Survives
  <2>7. Extends(s.env, t.env) /\ DOMAIN t.env = DOMAIN s.env \cup {}
    BY <2>2 DEF Extends
  <2> QED
    BY <1>3, <2>2, <2>3, <2>6, <2>7, AdvancedHolds
<1> HIDE DEF next
<1>4. PassValidated' /\ SolutionsHold'
  BY <1>1, <1>2, <1>3, TodoOnly
<1>5. DerivedFollow'
  BY <1>2 DEF DInv, DerivedFollow, Stored, Atoms
<1> QED
  BY <1>4, <1>5, NegateLiteralIInv DEF DInv

LEMMA InvokeAdapterDInv ==
  ASSUME DInv, NEW s \in todo, InvokeAdapter(s)
  PROVE  DInv'
<1> DEFINE tool(x) == ToolAtom(LiteralOf(s), x)
<1>1. PICK reply \in Replies(s) :
        todo' = (todo \ {s}) \cup {Extend(s, tool(reply[i]), ToolId(i)) : i \in DOMAIN reply}
  BY DEF InvokeAdapter, Replace
<1> DEFINE next == {Extend(s, tool(reply[i]), ToolId(i)) : i \in DOMAIN reply}
<1>2. UNCHANGED <<program, now, facts, phase, clause, goal>> /\ derived' = derived
  BY DEF InvokeAdapter
<1>3. ASSUME phase = "pass", NEW t \in next
      PROVE  /\ DOMAIN t.env = BoundBy(t)
             /\ \A i \in DOMAIN Body : i < t.k => Holds(t.env, Body[i], Stored, AdapterTuples, now)
  <2>1. PICK i \in DOMAIN reply : t = Extend(s, tool(reply[i]), ToolId(i))
    OBVIOUS
  <2>2. reply[i] \in AdapterTuples /\ Accepts(s, reply[i])
    BY DEF Replies
  <2>3. ~ Complete(s) /\ LiteralOf(s) \in Literal /\ IsCapability(LiteralOf(s))
    BY BodyType DEF InvokeAdapter, DInv
  <2>4. LiteralOf(s).atom \in Atom(Term) /\ tool(reply[i]) \in GroundAtom /\ s.env \in Env
    BY <2>2, <2>3, ToolAtomType DEF Literal, Term, DInv, IInv, TypeOK, Solution
  <2>5. Unifies(s.env, LiteralOf(s).atom, tool(reply[i]), FALSE)
    BY <2>2 DEF Accepts
  <2>6. t.k = s.k + 1 /\ t.env = Bind(s.env, LiteralOf(s).atom, tool(reply[i]))
    BY <2>1 DEF Extend
  <2>7. t.env \in Env /\ Args(Instantiate(LiteralOf(s).atom, t.env)) = Args(tool(reply[i]))
    <3> HIDE DEF tool
    <3>1. Bind(s.env, LiteralOf(s).atom, tool(reply[i])) \in Env
      BY <2>4, <2>5, BindType
    <3>2. Args(Instantiate(LiteralOf(s).atom, Bind(s.env, LiteralOf(s).atom, tool(reply[i]))))
            = Args(tool(reply[i]))
      BY <2>4, <2>5, InstantiateMatched
    <3> QED
      BY <2>6, <3>1, <3>2
  <2>8. Args(tool(reply[i])) = reply[i]
    BY DEF ToolAtom, Args
  <2>9. Instantiate(LiteralOf(s).atom, t.env).args = reply[i]
    <3>1. LiteralOf(s).atom.kind = "pred"
      BY <2>3 DEF IsCapability
    <3>2. Instantiate(LiteralOf(s).atom, t.env).kind = "pred"
      BY <3>1, <2>4 DEF Instantiate, Atom, PredicateAtom, SaysAtom, SpeaksForAtom
    <3> QED
      BY <2>7, <2>8, <3>2 DEF Args
  <2>10. Holds(t.env, LiteralOf(s), Stored, AdapterTuples, now)
    BY <2>2, <2>3, <2>9 DEF Holds
  <2>11. ~ LiteralOf(s).neg
    BY <1>3, <2>3, BodyType, PassBody DEF NegationAllowed, LiteralOf, DInv
  <2>12. Extends(s.env, t.env) /\ DOMAIN t.env = DOMAIN s.env \cup VariablesOf(LiteralOf(s).atom)
    BY <2>6, BindExtends
  <2> QED
    BY <1>3, <2>3, <2>6, <2>7, <2>10, <2>11, <2>12, AdvancedHolds
<1> HIDE DEF next
<1>4. PassValidated' /\ SolutionsHold'
  BY <1>1, <1>2, <1>3, TodoOnly DEF next
<1>5. DerivedFollow'
  BY <1>2 DEF DInv, DerivedFollow, Stored, Atoms
<1> QED
  BY <1>4, <1>5, InvokeAdapterIInv DEF DInv

LEMMA DeriveDInv ==
  ASSUME DInv, NEW s \in todo, Derive(s)
  PROVE  DInv'
<1> DEFINE node == HeadNode(s)
<1> DEFINE none == {}
<1>1. todo' = (todo \ {s}) \cup none
  BY DEF Derive, Replace
<1>2. UNCHANGED <<program, now, facts, phase, clause, goal>> /\ phase = "pass"
  BY DEF Derive
<1>3. PassValidated' /\ SolutionsHold'
  <2>1. \A t \in none : FALSE
    OBVIOUS
  <2> HIDE DEF none
  <2> QED
    BY <1>1, <1>2, <2>1, TodoOnly
<1>4. node.fact \in Consequences(program, Stored, AdapterTuples, now)
  <2>1. Complete(s)
    BY DEF Derive
  <2>2. /\ clause \in DOMAIN program /\ Body = program[clause].body
        /\ Body \in Seq(Literal) /\ s.k \in Nat /\ s.env \in Env
    BY <1>2, PassBody
  <2>3. \A i \in DOMAIN Body : i < s.k
    BY <2>1, <2>2 DEF Complete
  <2>4. BoundBy(s) = ClauseVariables(program[clause])
    BY <2>2, <2>3 DEF BoundBy, ClauseVariables, Positive
  <2>5. s.env \in [ClauseVariables(program[clause]) -> Constants]
    BY <1>2, <2>2, <2>4 DEF DInv, SolutionsHold, Env
  <2>6. \A i \in DOMAIN program[clause].body :
          Holds(s.env, program[clause].body[i], Stored, AdapterTuples, now)
    BY <1>2, <2>2, <2>3 DEF DInv, SolutionsHold
  <2>7. node.fact = Instantiate(program[clause].head, s.env)
    BY DEF HeadNode
  <2> QED
    BY <2>2, <2>5, <2>6, <2>7 DEF Consequences
<1>5. \A d \in derived' : d \in derived \/ d.atom = node.fact
  BY DEF Derive
<1>6. DerivedFollow'
  <2>1. Stored' = Stored
    BY <1>2 DEF Stored, Atoms
  <2> HIDE DEF node
  <2> QED
    BY <1>2, <1>4, <1>5, <2>1 DEF DInv, DerivedFollow
<1> QED
  BY <1>3, <1>6, DeriveIInv DEF DInv

LEMMA AnswerDInv ==
  ASSUME DInv, NEW s \in todo, Answer(s)
  PROVE  DInv'
<1> DEFINE none == {}
<1>1. todo' = (todo \ {s}) \cup none
  BY DEF Answer, Replace
<1>2. UNCHANGED <<program, now, facts, phase, clause, goal>> /\ derived' = derived
  BY DEF Answer, store
<1>3. PassValidated' /\ SolutionsHold'
  <2>1. \A t \in none : FALSE
    OBVIOUS
  <2> HIDE DEF none
  <2> QED
    BY <1>1, <1>2, <2>1, TodoOnly
<1>4. DerivedFollow'
  BY <1>2 DEF DInv, DerivedFollow, Stored, Atoms
<1> QED
  BY <1>3, <1>4, AnswerIInv DEF DInv

LEMMA NextClauseDInv == DInv /\ NextClause => DInv'
<1> SUFFICES ASSUME DInv, NextClause PROVE DInv'
  OBVIOUS
<1>1. UNCHANGED <<program, now, facts, phase, goal>> /\ derived' = derived
  BY DEF NextClause, store
<1>2. todo' = {Start}
  BY DEF NextClause
<1>3. DOMAIN Start.env = {} /\ Start.k = 1
  BY DEF Start, EmptyEnv
<1>4. NextClause => IInv'
  BY NextClauseIInv DEF DInv
<1>5. SolutionsHold'
  <2> SUFFICES ASSUME phase' = "pass"
               PROVE  /\ DOMAIN Start.env = BoundBy(Start)'
                      /\ \A i \in DOMAIN Body' : ~ (i < 1)
    BY <1>2, <1>3 DEF SolutionsHold
  <2>1. Body' \in Seq(Literal)
    <3>1. program' \in Seq(Clause) /\ clause' \in 1..Len(program')
      BY <1>2, <1>4, EngineAssumption DEF IInv, TypeOK, Shape
    <3>2. program'[clause'] \in Clause
      BY <3>1
    <3> QED
      BY <3>2 DEF Body, Clause
  <2>2. \A i \in DOMAIN Body' : ~ (i < 1)
    BY <2>1
  <2>3. BoundBy(Start)' = {}
    BY <2>2, <1>3 DEF BoundBy
  <2> QED
    BY <1>3, <2>2, <2>3
<1>6. PassValidated' /\ DerivedFollow'
  BY <1>1 DEF DInv, PassValidated, DerivedFollow, Stored, Atoms
<1> QED
  BY <1>4, <1>5, <1>6 DEF DInv

(* The steps that leave no partial solution of a clause behind.            *)
LEMMA OtherDInv ==
  ASSUME DInv,
         \/ \E s \in todo : AdapterFails(s)
         \/ EndPass \/ EndQuery \/ StartFixpoint
         \/ \E atom \in Importable : Import(atom)
         \/ \E g \in Goals : Query(g)
         \/ UNCHANGED vars
  PROVE  DInv'
<1>1. CASE UNCHANGED vars
  <2>1. Stored' = Stored /\ Body' = Body
    BY <1>1 DEF vars, Stored, Atoms, Body
  <2>2. \A t : BoundBy(t)' = BoundBy(t)
    BY <2>1 DEF BoundBy
  <2>3. IInv'
    BY <1>1, NextIInv DEF DInv
  <2> QED
    BY <1>1, <2>1, <2>2, <2>3
    DEF vars, DInv, PassValidated, SolutionsHold, DerivedFollow
<1>2. ASSUME NEW s \in todo, AdapterFails(s) PROVE DInv'
  BY <1>2, AdapterFailsIInv
  DEF AdapterFails, store, DInv, PassValidated, SolutionsHold, DerivedFollow, Stored, Atoms
<1>3. CASE EndPass
  BY <1>3, EndPassIInv DEF EndPass, DInv, PassValidated, SolutionsHold, DerivedFollow
<1>4. CASE EndQuery
  <2>1. phase' = "idle" /\ phase = "query" /\ UNCHANGED <<program, now, facts, derived>>
    BY <1>4 DEF EndQuery, store
  <2> QED
    BY <1>4, <2>1, EndQueryIInv DEF DInv, PassValidated, SolutionsHold, DerivedFollow, Stored, Atoms
<1>5. CASE StartFixpoint
  <2>1. UNCHANGED <<program, now, facts, derived, todo>> /\ phase = "idle" /\ todo = {}
        /\ (phase' = "pass" => Validates(program))
    BY <1>5 DEF StartFixpoint, store, DInv, IInv, Shape
  <2>2. PassValidated' /\ SolutionsHold'
    BY <2>1 DEF PassValidated, SolutionsHold
  <2>3. DerivedFollow'
    BY <2>1 DEF DInv, DerivedFollow
  <2> QED
    BY <1>5, <2>2, <2>3, StartFixpointIInv DEF DInv
<1>6. ASSUME NEW atom \in Importable, Import(atom) PROVE DInv'
  BY <1>6, ImportIInv DEF Import, DInv, PassValidated, SolutionsHold, DerivedFollow
<1>7. ASSUME NEW g \in Goals, Query(g) PROVE DInv'
  BY <1>7, QueryIInv
  DEF Query, store, DInv, PassValidated, SolutionsHold, DerivedFollow, Stored, Atoms
<1> QED
  BY <1>1, <1>2, <1>3, <1>4, <1>5, <1>6, <1>7

LEMMA NextDInv == DInv /\ [Next]_vars => DInv'
<1> SUFFICES ASSUME DInv, [Next]_vars PROVE DInv'
  OBVIOUS
<1>1. ASSUME NEW s \in todo, Advance(s) PROVE DInv'
  BY <1>1, MatchLiteralDInv, NegateLiteralDInv, InvokeAdapterDInv, DeriveDInv, AnswerDInv,
     OtherDInv DEF Advance
<1> QED
  BY <1>1, NextClauseDInv, OtherDInv DEF Next, Evaluate

LEMMA InductiveDInv == Spec => []DInv
<1>1. Init => DInv
  BY InitIInv DEF Init, DInv, PassValidated, SolutionsHold, DerivedFollow
<1>2. DInv /\ [Next]_vars => DInv'
  BY NextDInv
<1> QED
  BY <1>1, <1>2, PTL DEF Spec

-----------------------------------------------------------------------------
(* The refinement                                                          *)

(* The operators of Derivation, an instance, are those of Engine.          *)
LEMMA SameAllows ==
  \A links, speaker, target, pred, t :
    Abstract!Allows(links, speaker, target, pred, t) = Allows(links, speaker, target, pred, t)
BY DEF Allows, Choices, UsableLinks, Live, ScopeAllows, WithinLimit, LimitAfter,
       Visit, FirstVisit, NextVisit,
       Abstract!Allows, Abstract!Choices, Abstract!UsableLinks, Abstract!Live,
       Abstract!ScopeAllows, Abstract!WithinLimit, Abstract!LimitAfter,
       Abstract!Visit, Abstract!FirstVisit, Abstract!NextVisit

LEMMA SameUnifies ==
  \A env, pattern, fact, ignoreSpeaker :
    Abstract!Unifies(env, pattern, fact, ignoreSpeaker)
      = Unifies(env, pattern, fact, ignoreSpeaker)
BY DEF Unifies, SameRelation, Args, Abstract!Unifies, Abstract!SameRelation, Abstract!Args

LEMMA SameSpeaksAs ==
  \A fact, who, pred, atoms, t :
    Abstract!SpeaksAs(fact, who, pred, atoms, t) = SpeaksAs(fact, who, pred, atoms, t)
BY SameAllows DEF SpeaksAs, Links, Abstract!SpeaksAs, Abstract!Links

LEMMA SameMatches ==
  \A env, pattern, atoms, t :
    Abstract!Matches(env, pattern, atoms, t) = Matches(env, pattern, atoms, t)
<1> SUFFICES ASSUME NEW env, NEW pattern, NEW atoms, NEW t
             PROVE  Abstract!Matches(env, pattern, atoms, t) = Matches(env, pattern, atoms, t)
  OBVIOUS
<1>1. ASSUME NEW fact \in atoms
      PROVE  fact \in Abstract!Matches(env, pattern, atoms, t)
               <=> fact \in Matches(env, pattern, atoms, t)
  BY SameSpeaksAs, SameUnifies
  DEF Matches, ValidNow, TagMatches, Abstract!Matches, Abstract!ValidNow, Abstract!TagMatches
<1> QED
  BY <1>1 DEF Matches, Abstract!Matches

LEMMA SameRefuted ==
  \A env, pattern, atoms, t :
    Abstract!Refuted(env, pattern, atoms, t) = Refuted(env, pattern, atoms, t)
BY SameUnifies
DEF Refuted, ValidNow, TagMatches, Abstract!Refuted, Abstract!ValidNow, Abstract!TagMatches

LEMMA SameInstantiate ==
  \A pattern, env : Abstract!Instantiate(pattern, env) = Instantiate(pattern, env)
BY DEF Instantiate, Abstract!Instantiate

LEMMA SameHolds ==
  \A env, literal, atoms, tuples, t :
    Abstract!Holds(env, literal, atoms, tuples, t) = Holds(env, literal, atoms, tuples, t)
BY SameMatches, SameRefuted, SameInstantiate
DEF Holds, IsCapability, Abstract!Holds, Abstract!IsCapability

LEMMA SameConsequences ==
  \A prog, atoms, tuples, t :
    Abstract!Consequences(prog, atoms, tuples, t) = Consequences(prog, atoms, tuples, t)
<1>1. \A cl : Abstract!ClauseVariables(cl) = ClauseVariables(cl)
  BY DEF ClauseVariables, Positive, VariablesOf, ArgSet, Args,
         Abstract!ClauseVariables, Abstract!Positive, Abstract!VariablesOf, Abstract!ArgSet,
         Abstract!Args
<1> QED
  BY <1>1, SameHolds, SameInstantiate DEF Consequences, Abstract!Consequences

LEMMA InitMaps == Init => Abstract!Init
BY DEF Init, Abstract!Init, Stored, Atoms

LEMMA StepMaps ==
  DInv /\ [Next]_vars => [Abstract!Next]_<<program, now, Stored>>
<1> SUFFICES ASSUME DInv, [Next]_vars
             PROVE  Abstract!Next \/ UNCHANGED <<program, now, Stored>>
  OBVIOUS
<1>1. CASE UNCHANGED vars
  BY <1>1 DEF vars, Stored, Atoms
<1>2. ASSUME NEW s \in todo, Advance(s) PROVE UNCHANGED <<program, now, Stored>>
  BY <1>2 DEF Advance, MatchLiteral, NegateLiteral, InvokeAdapter, AdapterFails, Derive, Answer,
              store, Stored, Atoms
<1>3. CASE NextClause \/ EndQuery \/ StartFixpoint \/ \E g \in Goals : Query(g)
  BY <1>3 DEF NextClause, EndQuery, StartFixpoint, Query, store, Stored, Atoms
<1>4. CASE EndPass
  <2>1. facts' = facts \cup Fresh /\ UNCHANGED <<program, now>> /\ Fresh \subseteq derived
    BY <1>4 DEF EndPass, Fresh
  <2>2. Stored \subseteq Stored'
    BY <2>1 DEF Stored, Atoms
  <2>3. Stored' \subseteq Stored \cup Consequences(program, Stored, AdapterTuples, now)
    BY <2>1 DEF DInv, DerivedFollow, Stored, Atoms
  <2>4. Abstract!Derive
    BY <2>1, <2>2, <2>3, SameConsequences DEF Abstract!Derive
  <2> QED
    BY <2>4 DEF Abstract!Next
<1>5. ASSUME NEW atom \in Importable, Import(atom) PROVE Abstract!Next
  <2>1. UNCHANGED <<program, now>> /\ facts' = AddFact(atom, Len(trace) + 1)
    BY <1>5 DEF Import
  <2>2. Stored' = Stored \cup {atom}
    <3>1. CASE atom \in Stored
      BY <3>1, <2>1 DEF AddFact, Stored, Atoms
    <3>2. CASE atom \notin Stored
      <4> DEFINE f == [atom |-> atom, id |-> Len(trace) + 1]
      <4>1. facts' = facts \cup {f} /\ f.atom = atom
        BY <3>2, <2>1 DEF AddFact
      <4> HIDE DEF f
      <4> QED
        BY <4>1 DEF Stored, Atoms
    <3> QED
      BY <3>1, <3>2
  <2> QED
    BY <2>1, <2>2 DEF Abstract!Next, Abstract!Admit
<1> QED
  BY <1>1, <1>2, <1>3, <1>4, <1>5 DEF Next, Evaluate

(* Every behaviour of an engine (etb_engine_run_fixpoint,                  *)
(* etb_engine_import_answers, etb_engine_query) is one of Derivation: the  *)
(* stored atoms only grow, by consequences of the atoms stored before and  *)
(* by imported answers.                                                    *)
THEOREM EngineImplementsDerivation == Spec => SoundDerivation
<1>1. Init => Abstract!Init
  BY InitMaps
<1>2. DInv /\ [Next]_vars => [Abstract!Next]_<<program, now, Stored>>
  BY StepMaps
<1> QED
  BY <1>1, <1>2, InductiveDInv, PTL DEF Spec, SoundDerivation, Abstract!Spec

-----------------------------------------------------------------------------
(* Counting positive literals                                              *)

(* How many positive literals stand before position k.                     *)
CountBefore(cl, k) == Cardinality({i \in Positive(cl) : i < k})

LEMMA PositiveFinite ==
  ASSUME NEW cl \in Clause, NEW k
  PROVE  /\ IsFiniteSet(Positive(cl)) /\ IsFiniteSet({i \in Positive(cl) : i < k})
         /\ Cardinality(Positive(cl)) \in Nat /\ CountBefore(cl, k) \in Nat
<1>1. cl.body \in Seq(Literal)
  BY DEF Clause
<1>2. Positive(cl) \in SUBSET (1..Len(cl.body)) /\ Len(cl.body) \in Nat
  BY <1>1 DEF Positive
<1>3. IsFiniteSet(1..Len(cl.body))
  BY <1>2, FS_Interval
<1>4. IsFiniteSet(Positive(cl))
  BY <1>2, <1>3, FS_Subset
<1>5. {i \in Positive(cl) : i < k} \in SUBSET Positive(cl)
  OBVIOUS
<1>6. IsFiniteSet({i \in Positive(cl) : i < k})
  BY <1>4, <1>5, FS_Subset
<1> QED
  BY <1>4, <1>6, FS_CardinalityType DEF CountBefore

(* One position further there is one more, if a positive literal is there. *)
LEMMA CountStep ==
  ASSUME NEW cl \in Clause, NEW k \in Nat
  PROVE  CountBefore(cl, k + 1)
           = CountBefore(cl, k) + (IF k \in Positive(cl) THEN 1 ELSE 0)
<1> DEFINE before == {i \in Positive(cl) : i < k}
           upTo == {i \in Positive(cl) : i < k + 1}
<1>1. Positive(cl) \subseteq Nat
  BY DEF Positive, Clause
<1>2. IsFiniteSet(before) /\ Cardinality(before) \in Nat
  BY PositiveFinite DEF CountBefore
<1>3. CASE k \in Positive(cl)
  <2>1. upTo = before \cup {k} /\ k \notin before
    BY <1>1, <1>3
  <2> HIDE DEF before, upTo
  <2>2. Cardinality(upTo) = Cardinality(before) + 1
    BY <1>2, <2>1, FS_AddElement
  <2> QED
    BY <1>3, <2>2 DEF CountBefore, before, upTo
<1>4. CASE k \notin Positive(cl)
  <2>1. upTo = before
    BY <1>1, <1>4
  <2> HIDE DEF before, upTo
  <2> QED
    BY <1>2, <1>4, <2>1 DEF CountBefore, before, upTo
<1> QED
  BY <1>3, <1>4

LEMMA RankAsCount ==
  ASSUME NEW cl \in Clause, NEW j \in Nat
  PROVE  Rank(cl, j) = CountBefore(cl, j + 1)
<1>1. {i \in Positive(cl) : i <= j} = {i \in Positive(cl) : i < j + 1}
  BY DEF Positive, Clause
<1> QED
  BY <1>1 DEF Rank, CountBefore

(* The premise of a positive literal is one of those of the literals       *)
(* before any later position.                                              *)
LEMMA RankWithin ==
  ASSUME NEW cl \in Clause, NEW j \in Positive(cl), NEW k \in Nat, j < k
  PROVE  Rank(cl, j) \in 1..CountBefore(cl, k)
<1> DEFINE early == {i \in Positive(cl) : i < j + 1}
           late == {i \in Positive(cl) : i < k}
<1>1. j \in Nat
  BY DEF Positive, Clause
<1>2. early \in SUBSET late
  BY <1>1 DEF Positive, Clause
<1>3. IsFiniteSet(late) /\ Cardinality(late) \in Nat /\ Cardinality(early) \in Nat
  BY PositiveFinite DEF CountBefore
<1>4. Cardinality(early) <= Cardinality(late)
  <2> HIDE DEF early, late
  <2> QED
    BY <1>2, <1>3, FS_Subset
<1>5. CountBefore(cl, j + 1) = CountBefore(cl, j) + 1 /\ CountBefore(cl, j) \in Nat
  BY <1>1, CountStep, PositiveFinite
<1>6. Rank(cl, j) = CountBefore(cl, j + 1)
  BY <1>1, RankAsCount
<1> QED
  BY <1>3, <1>4, <1>5, <1>6 DEF CountBefore

LEMMA CountAll ==
  ASSUME NEW cl \in Clause, NEW k \in Nat, k > Len(cl.body)
  PROVE  CountBefore(cl, k) = Cardinality(Positive(cl))
<1>1. {i \in Positive(cl) : i < k} = Positive(cl)
  BY DEF Positive, Clause
<1> QED
  BY <1>1 DEF CountBefore

-----------------------------------------------------------------------------
(* The inductive invariant of the trace and the answers                    *)

(* The depth attributes of the delegations stored or derived are bounded:  *)
(* one atom at a time joins them.                                          *)
DepthsBounded ==
  \E longest \in Nat :
    /\ DefaultDepth <= longest
    /\ \A f \in facts \cup derived : f.atom.kind = "speaks" => f.atom.depth <= longest

(* A partial solution of a clause has one premise for each positive        *)
(* literal it has advanced over, in their order, that answers the literal. *)
Premised(s) ==
  LET cl == program[clause] IN
  /\ Len(s.prem) = CountBefore(cl, s.k)
  /\ \A j \in Positive(cl) : j < s.k => Answers(s.prem[Rank(cl, j)], cl.body[j], s.env)
SolutionsBacked == phase = "pass" => \A s \in todo : Premised(s)

(* A solution of the goal rests on one node, whose atom the goal was bound *)
(* to.                                                                     *)
Rests(s) ==
  LET fact == trace[s.prem[1]].fact IN
  /\ Len(s.prem) = 1
  /\ Unifies(EmptyEnv, goal, fact, TRUE) /\ s.env = Bind(EmptyEnv, goal, fact)
  /\ ValidNow(fact, now)
  /\ goal.kind = "says" => SpeaksAs(fact, goal.who, fact.pred, Stored, now)
GoalsBacked == phase = "query" => \A s \in todo : s = Start \/ Rests(s)

(* An answer cites a node and is an atom of the goal's kind.               *)
AnswersCite == \A a \in answers : a.id \in DOMAIN trace /\ a.atom.kind = goal.kind

EInv ==
  /\ DInv /\ DepthsBounded /\ SolutionsBacked /\ GoalsBacked
  /\ TraceIsAProof /\ AnswersCite /\ AnswersBacked

-----------------------------------------------------------------------------
(* What a step leaves true                                                 *)

LEMMA StoredType == ASSUME IInv PROVE Stored \subseteq GroundAtom
BY DEF IInv, TypeOK, Stored, Atoms, Fact

LEMMA StepFixed ==
  ASSUME [Next]_vars
  PROVE  UNCHANGED <<program, now>> /\ imported \subseteq imported'
BY DEF Next, Evaluate, Advance, vars, history, MatchLiteral, NegateLiteral, InvokeAdapter,
       AdapterFails, Derive, Answer, NextClause, EndPass, EndQuery, StartFixpoint, Import, Query

LEMMA StoredGrows ==
  ASSUME facts \subseteq facts'
  PROVE  Stored \subseteq Stored'
BY DEF Stored, Atoms

(* Who could speak for a principal still can: delegations are only added.  *)
LEMMA SpeaksAsStays ==
  ASSUME IInv', DepthsBounded', facts \subseteq facts', now' = now,
         NEW fact, fact.who \in Principals, NEW who, NEW pred,
         SpeaksAs(fact, who, pred, Stored, now)
  PROVE  SpeaksAs(fact, who, pred, Stored', now')
<1> DEFINE links == Links(Stored)
           more == Links(Stored')
<1>1. PICK longest \in Nat :
        /\ DefaultDepth <= longest
        /\ \A f \in facts' : f.atom.kind = "speaks" => f.atom.depth <= longest
  BY DEF DepthsBounded
<1>2. Bounded(more, longest)
  <2>1. (\A f \in facts' : f.atom.kind = "speaks" => f.atom.depth <= longest)
          => Bounded(more, longest)
    <3>1. ASSUME NEW link \in more
          PROVE  link.to \in Principals /\ link.depth \in Nat
                 /\ \E f \in facts' : link = f.atom /\ link.kind = "speaks"
      <4>1. PICK f \in facts' : link = f.atom /\ link.kind = "speaks"
        BY DEF Links, Stored, Atoms
      <4>2. link \in GroundAtom
        BY <4>1 DEF IInv, TypeOK, Fact
      <4>3. link \in SpeaksForAtom
        BY <4>1, <4>2 DEF GroundAtom, Atom, PredicateAtom, SaysAtom
      <4> QED
        BY <4>1, <4>3 DEF SpeaksForAtom
    <3> HIDE DEF more
    <3> QED
      BY <3>1 DEF Bounded
  <2> QED
    BY <1>1, <2>1
<1>3. links \subseteq more
  BY StoredGrows DEF Links
<1>4. CASE fact.who = who
  BY <1>4 DEF SpeaksAs
<1>5. CASE Allows(links, fact.who, who, pred, now)
  <2> HIDE DEF links, more
  <2>1. Allows(more, fact.who, who, pred, now)
    BY <1>1, <1>2, <1>3, <1>5, MoreLinksGrantMore
  <2> QED
    BY <2>1 DEF SpeaksAs, more
<1> QED
  BY <1>4, <1>5 DEF SpeaksAs

LEMMA NodeType ==
  ASSUME IInv, NEW id \in DOMAIN trace
  PROVE  trace[id] \in Node /\ trace[id].fact \in GroundAtom /\ trace[id].prem \in Seq(Nat)
<1>1. trace \in Seq(Node)
  BY DEF IInv, TypeOK
<1>2. trace[id] \in Node
  BY <1>1
<1> QED
  BY <1>2 DEF Node

LEMMA SaysWho ==
  ASSUME NEW fact \in GroundAtom, fact.kind = "says"
  PROVE  fact.who \in Principals
BY DEF GroundAtom, Atom, PredicateAtom, SaysAtom, SpeaksForAtom

(* What answered a literal answers it still, and under more bindings.      *)
LEMMA AnswersStays ==
  ASSUME IInv, IInv', DepthsBounded', [Next]_vars,
         NEW id \in DOMAIN trace, NEW literal, NEW env, Answers(id, literal, env)
  PROVE  Answers(id, literal, env)'
<1> DEFINE fact == trace[id].fact
<1>1. facts \subseteq facts' /\ trace'[id] = trace[id] /\ now' = now
  BY StepKeepsEvidence, StepFixed
<1>2. fact \in GroundAtom
  BY NodeType
<1>3. Unifies(env, literal.atom, fact, TRUE)
  BY DEF Answers
<1>4. ASSUME ~ IsCapability(literal)
      PROVE  /\ [atom |-> fact, id |-> id] \in facts'
             /\ ValidNow(fact, now) /\ TagMatches(literal.atom, fact)
             /\ fact.kind = "says" => SpeaksAs(fact, literal.atom.who, fact.pred, Stored', now')
  BY <1>1, <1>2, <1>4, SaysWho, SpeaksAsStays DEF Answers
<1>5. IsCapability(literal) => trace[id].kind = "capability"
  BY DEF Answers
<1> QED
  BY <1>1, <1>3, <1>4, <1>5 DEF Answers

LEMMA BackedStays ==
  ASSUME IInv, IInv', DepthsBounded', [Next]_vars, goal' = goal,
         NEW a, a.id \in DOMAIN trace, a.atom.kind = goal.kind, Backed(a)
  PROVE  Backed(a)'
<1> DEFINE fact == trace[a.id].fact
<1>1. facts \subseteq facts' /\ trace'[a.id] = trace[a.id] /\ now' = now
  BY StepKeepsEvidence, StepFixed
<1>2. fact \in GroundAtom
  BY NodeType
<1>3. goal.kind = "says" => SpeaksAs(fact, goal.who, goal.pred, Stored', now')
  BY <1>1, <1>2, SaysWho, SpeaksAsStays DEF Backed
<1> QED
  BY <1>1, <1>3 DEF Backed

(* A node that is a proof step stays one.                                  *)
LEMMA NodeStays ==
  ASSUME IInv, IInv', DepthsBounded', [Next]_vars, NEW n \in DOMAIN trace,
         ByClause(n) \/ ByAdapter(n) \/ ByImport(n)
  PROVE  (ByClause(n) \/ ByAdapter(n) \/ ByImport(n))'
<1>1. trace'[n] = trace[n] /\ program' = program /\ imported \subseteq imported'
  BY StepKeepsEvidence, StepFixed
<1>2. CASE ByAdapter(n)
  BY <1>1, <1>2 DEF ByAdapter
<1>3. CASE ByImport(n)
  BY <1>1, <1>3 DEF ByImport
<1>4. CASE ByClause(n)
  <2> DEFINE node == trace[n]
             cl == program[node.rule]
  <2>1. node.rule \in DOMAIN program /\ cl \in Clause
    BY <1>4, EngineAssumption DEF ByClause, IInv, TypeOK
  <2>2. PICK env \in [ClauseVariables(cl) -> Constants] :
          /\ Instantiate(cl.head, env) = node.fact
          /\ \A j \in Positive(cl) : Answers(node.prem[Rank(cl, j)], cl.body[j], env)
    BY <1>4 DEF ByClause
  <2>3. ASSUME NEW j \in Positive(cl)
        PROVE  Answers(node.prem[Rank(cl, j)], cl.body[j], env)'
    <3>1. Rank(cl, j) \in 1..Cardinality(Positive(cl))
      <4>1. cl.body \in Seq(Literal) /\ Len(cl.body) + 1 \in Nat /\ j < Len(cl.body) + 1
        BY <2>1 DEF Clause, Positive
      <4>2. CountBefore(cl, Len(cl.body) + 1) = Cardinality(Positive(cl))
        BY <2>1, <4>1, CountAll
      <4> HIDE DEF cl
      <4> QED
        BY <2>1, <4>1, <4>2, RankWithin
    <3>2. node.prem[Rank(cl, j)] \in DOMAIN trace
      <4>1. Len(node.prem) = Cardinality(Positive(cl))
            /\ \A i \in DOMAIN node.prem : node.prem[i] \in 1..(n - 1)
        BY <1>4 DEF ByClause
      <4>2. node.prem \in Seq(Nat)
        BY NodeType
      <4>5. trace \in Seq(Node)
        BY DEF IInv, TypeOK
      <4>3. node.prem[Rank(cl, j)] \in 1..(n - 1)
        BY <3>1, <4>1, <4>2
      <4> QED
        BY <4>3, <4>5
    <3>3. Answers(node.prem[Rank(cl, j)], cl.body[j], env)
      BY <2>2
    <3>4. \A id \in DOMAIN trace : \A literal :
            Answers(id, literal, env) => Answers(id, literal, env)'
      BY AnswersStays
    <3>5. node' = node /\ cl' = cl
      BY <1>1
    <3> QED
      BY <3>2, <3>3, <3>4, <3>5
  <2> QED
    BY <1>1, <1>4, <2>2, <2>3 DEF ByClause
<1> QED
  BY <1>2, <1>3, <1>4

-----------------------------------------------------------------------------
(* Partial solutions                                                       *)

LEMMA PremisedStays ==
  ASSUME EInv, IInv', DepthsBounded', [Next]_vars, clause' = clause, phase = "pass",
         NEW s \in todo
  PROVE  Premised(s)'
<1> DEFINE cl == program[clause]
<1>1. cl \in Clause /\ s.k \in Nat
  BY PassBody DEF EInv
<1>2. Premised(s) /\ program' = program
  BY StepFixed DEF EInv, SolutionsBacked
<1>3. ASSUME NEW j \in Positive(cl), j < s.k
      PROVE  s.prem[Rank(cl, j)] \in DOMAIN trace
  <2>1. Rank(cl, j) \in 1..CountBefore(cl, s.k)
    <3> HIDE DEF cl
    <3> QED
      BY <1>1, <1>3, RankWithin
  <2>2. Len(s.prem) = CountBefore(cl, s.k) /\ s.prem \in Seq(Nat)
    BY <1>2 DEF Premised, EInv, DInv, IInv, TypeOK, Solution
  <2>3. Rank(cl, j) \in DOMAIN s.prem
    BY <2>1, <2>2
  <2> QED
    BY <2>3 DEF EInv, DInv, IInv, PremisesInUse
<1>4. \A id \in DOMAIN trace : \A literal :
        Answers(id, literal, s.env) => Answers(id, literal, s.env)'
  BY AnswersStays DEF EInv, DInv
<1>5. cl' = cl
  BY <1>2
<1> QED
  BY <1>2, <1>3, <1>4, <1>5 DEF Premised

(* The variables of the literals passed are bound.                         *)
LEMMA PassedBound ==
  ASSUME DInv, phase = "pass", NEW s \in todo, NEW j \in Positive(program[clause]), j < s.k
  PROVE  VariablesOf(program[clause].body[j].atom) \subseteq DOMAIN s.env
<1>1. Body = program[clause].body
  BY PassBody
<1>2. DOMAIN s.env = BoundBy(s)
  BY DEF DInv, SolutionsHold
<1> QED
  BY <1>1, <1>2 DEF BoundBy, Positive

(* s advanced to t over a positive literal that node id answers.           *)
LEMMA AdvancedPremised ==
  ASSUME EInv, IInv', DepthsBounded', [Next]_vars, clause' = clause, phase = "pass",
         NEW s \in todo, ~ Complete(s), ~ LiteralOf(s).neg,
         NEW t, NEW id \in Nat, t.k = s.k + 1, t.prem = Append(s.prem, id),
         Extends(s.env, t.env),
         Unifies(t.env, LiteralOf(s).atom, trace'[id].fact, TRUE),
         IF IsCapability(LiteralOf(s)) THEN trace'[id].kind = "capability"
         ELSE LET fact == trace'[id].fact IN
              /\ [atom |-> fact, id |-> id] \in facts'
              /\ ValidNow(fact, now') /\ TagMatches(LiteralOf(s).atom, fact)
              /\ fact.kind = "says" =>
                   SpeaksAs(fact, LiteralOf(s).atom.who, fact.pred, Stored', now')
  PROVE  Premised(t)'
<1> DEFINE cl == program[clause]
<1>1. cl \in Clause /\ s.k \in Nat /\ s.k + 1 \in Nat /\ Body = cl.body
  BY PassBody DEF EInv
<1>2. Premised(s) /\ Premised(s)' /\ program' = program
  BY PremisedStays, StepFixed DEF EInv, SolutionsBacked
<1>3. cl' = cl
  BY <1>2
<1>4. LiteralOf(s) = cl.body[s.k] /\ s.k \in Positive(cl)
  BY <1>1, BodyType DEF LiteralOf, Positive, EInv, DInv
<1>5. Answers(id, cl.body[s.k], t.env)'
  BY <1>3, <1>4 DEF Answers
<1>6. /\ Len(s.prem) = CountBefore(cl, s.k) /\ s.prem \in Seq(Nat)
      /\ \A j \in Positive(cl) :
           j < s.k => Answers(s.prem[Rank(cl, j)], cl.body[j], s.env)'
  BY <1>2, <1>3 DEF Premised, EInv, DInv, IInv, TypeOK, Solution
<1>7. \A j \in Positive(cl) : j < s.k => VariablesOf(cl.body[j].atom) \subseteq DOMAIN s.env
  BY PassedBound DEF EInv
<1>8. Positive(cl) \subseteq Nat
  BY <1>1 DEF Positive, Clause
<1> HIDE DEF cl
<1>9. CountBefore(cl, s.k + 1) = CountBefore(cl, s.k) + 1 /\ CountBefore(cl, s.k) \in Nat
  BY <1>1, <1>4, CountStep, PositiveFinite
<1>10. Len(t.prem) = CountBefore(cl, t.k)
  BY <1>6, <1>9
<1>11. ASSUME NEW j \in Positive(cl), j < t.k
       PROVE  Answers(t.prem[Rank(cl, j)], cl.body[j], t.env)'
  <2>1. CASE j = s.k
    <3>1. Rank(cl, j) = Len(s.prem) + 1
      BY <2>1, <1>1, <1>6, <1>9, RankAsCount
    <3>2. t.prem[Rank(cl, j)] = id
      BY <3>1, <1>6
    <3> QED
      BY <2>1, <3>2, <1>3, <1>5
  <2>2. CASE j # s.k
    <3>1. j < s.k
      BY <2>2, <1>1, <1>8, <1>11
    <3>2. Rank(cl, j) \in 1..CountBefore(cl, s.k)
      BY <1>1, <3>1, RankWithin
    <3>3. t.prem[Rank(cl, j)] = s.prem[Rank(cl, j)]
      BY <3>2, <1>6
    <3>4. Answers(s.prem[Rank(cl, j)], cl.body[j], s.env)'
      BY <3>1, <1>6
    <3>5. Unifies(s.env, cl.body[j].atom, trace'[s.prem[Rank(cl, j)]].fact, TRUE)
          => Unifies(t.env, cl.body[j].atom, trace'[s.prem[Rank(cl, j)]].fact, TRUE)
      BY <3>1, <1>7, UnifiesUnderMore
    <3> QED
      BY <3>3, <3>4, <3>5, <1>3 DEF Answers
  <2> QED
    BY <2>1, <2>2
<1> QED
  BY <1>3, <1>10, <1>11 DEF Premised, cl
(* The partial solutions after a step that advanced s to those in next.    *)
LEMMA TodoBacked ==
  ASSUME EInv, IInv', DepthsBounded', [Next]_vars,
         UNCHANGED <<facts, phase, clause, goal>>,
         NEW s \in todo, NEW next, todo' = (todo \ {s}) \cup next,
         phase = "pass" => \A t \in next : Premised(t)',
         phase = "query" => \A t \in next : Rests(t)'
  PROVE  SolutionsBacked' /\ GoalsBacked'
<1>1. SolutionsBacked'
  BY PremisedStays DEF SolutionsBacked
<1>2. Stored' = Stored /\ now' = now
  BY StepFixed DEF Stored, Atoms
<1>3. ASSUME phase = "query", NEW t \in todo, t # Start
      PROVE  Rests(t)'
  <2>1. Rests(t) /\ 1 \in DOMAIN t.prem
    <3>1. t.prem \in Seq(Nat)
      BY DEF EInv, DInv, IInv, TypeOK, Solution
    <3>2. Rests(t) /\ Len(t.prem) = 1
      BY <1>3 DEF EInv, GoalsBacked, Rests
    <3> QED
      BY <3>1, <3>2
  <2>2. t.prem[1] \in DOMAIN trace
    BY <2>1 DEF EInv, DInv, IInv, PremisesInUse
  <2>3. trace'[t.prem[1]] = trace[t.prem[1]]
    BY <2>2, StepKeepsEvidence DEF EInv, DInv
  <2> QED
    BY <1>2, <2>1, <2>3 DEF Rests
<1>4. GoalsBacked'
  BY <1>3 DEF GoalsBacked
<1> QED
  BY <1>1, <1>4

(* The start of a clause body and of a goal.                               *)
LEMMA StartPremised ==
  ASSUME program[clause] \in Clause
  PROVE  Premised(Start)
<1> DEFINE cl == program[clause]
<1>1. Start.k = 1 /\ Start.prem = <<>>
  BY StartType
<1>2. \A j \in Positive(cl) : ~ (j < 1)
  BY DEF Positive, Clause
<1>3. {i \in Positive(cl) : i < 1} = {}
  BY <1>2
<1>4. CountBefore(cl, 1) = 0
  BY <1>3, FS_EmptySet DEF CountBefore
<1> QED
  BY <1>1, <1>2, <1>4 DEF Premised

LEMMA DepthType ==
  ASSUME NEW fact \in GroundAtom, fact.kind = "speaks"
  PROVE  fact.depth \in Nat
BY DEF GroundAtom, Atom, PredicateAtom, SaysAtom, SpeaksForAtom

(* The depths stay bounded when at most one atom joins.                    *)
LEMMA DepthsStay ==
  ASSUME IInv, DepthsBounded, NEW d, facts' \cup derived' \subseteq facts \cup derived \cup {d},
         d.atom.kind = "speaks" => d.atom.depth \in Nat
  PROVE  DepthsBounded'
<1>1. PICK longest \in Nat :
        /\ DefaultDepth <= longest
        /\ \A f \in facts \cup derived : f.atom.kind = "speaks" => f.atom.depth <= longest
  BY DEF DepthsBounded
<1>2. DefaultDepth \in Nat
  BY DelegationAssumption
<1>3. \A f \in facts \cup derived : f.atom.kind = "speaks" => f.atom.depth \in Nat
  BY DepthType DEF IInv, TypeOK, Fact
<1>4. CASE d.atom.kind = "speaks" /\ d.atom.depth > longest
  <2>1. d.atom.depth \in Nat /\ DefaultDepth <= d.atom.depth
    BY <1>1, <1>2, <1>4
  <2>2. \A f \in facts' \cup derived' :
          f.atom.kind = "speaks" => f.atom.depth <= d.atom.depth
    BY <1>1, <1>3, <1>4, <2>1
  <2> QED
    BY <2>1, <2>2 DEF DepthsBounded
<1>5. CASE ~ (d.atom.kind = "speaks" /\ d.atom.depth > longest)
  <2>1. \A f \in facts' \cup derived' : f.atom.kind = "speaks" => f.atom.depth <= longest
    BY <1>1, <1>2, <1>3, <1>5
  <2> QED
    BY <1>1, <2>1 DEF DepthsBounded
<1> QED
  BY <1>4, <1>5
(* A goal is the only literal of its body, so it is answered at the start. *)
LEMMA GoalAnswered ==
  ASSUME EInv, phase = "query", goal' = goal, NEW s \in todo, ~ Complete(s),
         NEW t, NEW id \in Nat, NEW fact, fact = trace'[id].fact,
         t.prem = Append(s.prem, id), t.env = Bind(s.env, LiteralOf(s).atom, fact),
         Unifies(s.env, LiteralOf(s).atom, fact, TRUE), ValidNow(fact, now'),
         goal.kind = "says" => SpeaksAs(fact, goal.who, fact.pred, Stored', now')
  PROVE  Rests(t)'
<1>1. Len(Body) = 1 /\ Body[1] = [neg |-> FALSE, atom |-> goal]
  BY DEF Body
<1>2. s.k \in Nat /\ s.k >= 1 /\ s.prem \in Seq(Nat) /\ Len(s.prem) = s.k - 1
  BY DEF EInv, DInv, IInv, TypeOK, Solution, Shape
<1>3. s.k = 1
  BY <1>1, <1>2 DEF Complete
<1>4. s = Start
  <2>1. s = Start \/ Rests(s)
    BY DEF EInv, GoalsBacked
  <2>2. Rests(s) => Len(s.prem) = 1
    BY DEF Rests
  <2>3. Len(s.prem) = 0
    BY <1>2, <1>3
  <2> QED
    BY <2>1, <2>2, <2>3
<1>5. s.prem = <<>> /\ s.env = EmptyEnv
  BY <1>4 DEF Start
<1>6. LiteralOf(s).atom = goal
  BY <1>1, <1>3 DEF LiteralOf
<1>7. Len(t.prem) = 1 /\ t.prem[1] = id
  BY <1>5
<1> QED
  BY <1>5, <1>6, <1>7 DEF Rests

LEMMA Carried ==
  ASSUME EInv, IInv', DepthsBounded', [Next]_vars,
         \A n \in DOMAIN trace' \ DOMAIN trace : (ByClause(n) \/ ByAdapter(n) \/ ByImport(n))'
  PROVE  TraceIsAProof'
<1>1. \A n \in DOMAIN trace : (ByClause(n) \/ ByAdapter(n) \/ ByImport(n))'
  BY NodeStays DEF EInv, DInv, TraceIsAProof
<1> QED
  BY <1>1 DEF TraceIsAProof

LEMMA AnswersCarried ==
  ASSUME EInv, IInv', DepthsBounded', [Next]_vars, goal' = goal, NEW a \in answers
  PROVE  /\ a.id \in DOMAIN trace' /\ a.atom.kind = goal'.kind
         /\ Backed(a)'
<1>1. a.id \in DOMAIN trace /\ a.atom.kind = goal.kind /\ Backed(a)
  BY DEF EInv, AnswersCite, AnswersBacked
<1>2. DOMAIN trace \subseteq DOMAIN trace'
  <2>1. trace \in Seq(Node) /\ trace' \in Seq(Node)
    BY DEF EInv, DInv, IInv, TypeOK
  <2>2. Len(trace) <= Len(trace')
    BY StepKeepsEvidence DEF EInv, DInv
  <2> QED
    BY <2>1, <2>2
<1>3. Backed(a)'
  BY <1>1, BackedStays DEF EInv, DInv
<1> QED
  BY <1>1, <1>2, <1>3

LEMMA AppendParts ==
  ASSUME NEW T, NEW s \in Seq(T), NEW t \in Seq(T)
  PROVE  /\ \A i \in 1..Len(t) : Len(s) + i \in Nat /\ (s \o t)[Len(s) + i] = t[i]
         /\ \A m \in DOMAIN (s \o t) \ DOMAIN s : m - Len(s) \in 1..Len(t) /\ m \in Nat
  OBVIOUS

LEMMA AdvanceIsStep ==
  ASSUME DInv, NEW s \in todo, Advance(s)
  PROVE  [Next]_vars /\ DInv'
<1>1. Solving
  BY DEF Solving, DInv, IInv, Shape
<1>2. [Next]_vars
  BY <1>1 DEF Next, Evaluate
<1> QED
  BY <1>2, NextDInv

-----------------------------------------------------------------------------
(* Every step preserves it: one lemma for each action.                     *)

LEMMA MatchLiteralEInv ==
  ASSUME EInv, NEW s \in todo, MatchLiteral(s)
  PROVE  EInv'
<1> DEFINE next == {Extend(s, f.atom, f.id) : f \in Found(s)}
<1>1. todo' = (todo \ {s}) \cup next
  BY DEF MatchLiteral, Replace
<1>2. UNCHANGED <<program, now, facts, trace, derived, phase, clause, goal, answers>>
  BY DEF MatchLiteral, store
<1>3. [Next]_vars /\ DInv' /\ DepthsBounded'
  BY <1>2, AdvanceIsStep DEF Advance, EInv, DepthsBounded
<1>4. ~ Complete(s) /\ ~ LiteralOf(s).neg /\ ~ IsCapability(LiteralOf(s)) /\ s \in Solution
  BY DEF MatchLiteral, EInv, DInv, IInv, TypeOK
<1>5. Stored' = Stored
  BY <1>2 DEF Stored, Atoms
<1>6. ASSUME NEW t \in next
      PROVE  /\ phase = "pass" => Premised(t)'
             /\ phase = "query" => Rests(t)'
  <2>1. PICK f \in Found(s) : t = Extend(s, f.atom, f.id)
    OBVIOUS
  <2>2. f \in facts /\ f.atom \in Matches(s.env, LiteralOf(s).atom, Stored, now)
    BY DEF Found, FactsMatching
  <2>3. f \in Fact /\ trace[f.id].fact = f.atom
    BY <2>2 DEF EInv, DInv, IInv, TypeOK, FactsSupported
  <2>4. f.atom \in GroundAtom /\ f.id \in Nat /\ f = [atom |-> f.atom, id |-> f.id]
    BY <2>3 DEF Fact
  <2>5. LiteralOf(s).atom \in Atom(Term) /\ s.env \in Env
    BY <1>4, BodyType DEF EInv, DInv, Literal, Term, Solution
  <2>6. /\ ValidNow(f.atom, now) /\ TagMatches(LiteralOf(s).atom, f.atom)
        /\ Unifies(s.env, LiteralOf(s).atom, f.atom, TRUE)
        /\ LiteralOf(s).atom.kind = "says" =>
             SpeaksAs(f.atom, LiteralOf(s).atom.who, f.atom.pred, Stored, now)
    BY <2>2 DEF Matches
  <2>7. f.atom.kind = LiteralOf(s).atom.kind
    BY <2>6 DEF Unifies, SameRelation
  <2>8. /\ t.k = s.k + 1 /\ t.prem = Append(s.prem, f.id)
        /\ t.env = Bind(s.env, LiteralOf(s).atom, f.atom)
    BY <2>1 DEF Extend, PushPremise
  <2>9. Extends(s.env, t.env) /\ Unifies(t.env, LiteralOf(s).atom, f.atom, TRUE)
    BY <2>4, <2>5, <2>6, <2>8, BindExtends, BindUnifies
  <2>10. CASE phase = "pass"
    BY <1>2, <1>3, <1>4, <1>5, <2>2, <2>3, <2>4, <2>6, <2>7, <2>8, <2>9, <2>10,
       AdvancedPremised DEF DInv
  <2>11. CASE phase = "query"
    <3>1. LiteralOf(s).atom = goal
      BY <2>11, <1>4 DEF LiteralOf, Body, Complete, Solution, EInv, DInv, IInv, Shape
    <3> QED
      BY <1>2, <1>4, <1>5, <2>3, <2>4, <2>6, <2>8, <2>11, <3>1, GoalAnswered
  <2> QED
    BY <2>10, <2>11
<1> HIDE DEF next
<1>7. SolutionsBacked' /\ GoalsBacked'
  BY <1>1, <1>2, <1>3, <1>6, TodoBacked DEF DInv
<1>8. TraceIsAProof'
  BY <1>2, <1>3, Carried DEF DInv
<1>9. AnswersCite' /\ AnswersBacked'
  BY <1>2, <1>3, AnswersCarried DEF DInv, AnswersCite, AnswersBacked
<1> QED
  BY <1>3, <1>7, <1>8, <1>9 DEF EInv
LEMMA NegateLiteralEInv ==
  ASSUME EInv, NEW s \in todo, NegateLiteral(s)
  PROVE  EInv'
<1> DEFINE next == IF Survives(s) THEN {Skip(s)} ELSE {}
<1>1. todo' = (todo \ {s}) \cup next
  BY DEF NegateLiteral, Replace
<1>2. UNCHANGED <<program, now, facts, trace, derived, phase, clause, goal, answers>>
  BY DEF NegateLiteral, store
<1>3. [Next]_vars /\ DInv' /\ DepthsBounded'
  BY <1>2, AdvanceIsStep DEF Advance, EInv, DepthsBounded
<1>4. ~ Complete(s) /\ LiteralOf(s).neg /\ s \in Solution
  BY DEF NegateLiteral, EInv, DInv, IInv, TypeOK
<1>5. phase # "query"
  BY <1>4 DEF Complete, LiteralOf, Body, Solution, EInv, DInv, IInv, Shape
<1>6. ASSUME NEW t \in next, phase = "pass"
      PROVE  Premised(t)'
  <2> DEFINE cl == program[clause]
  <2>1. t.k = s.k + 1 /\ t.env = s.env /\ t.prem = s.prem
    BY <1>4 DEF Skip, Solution
  <2>2. cl \in Clause /\ s.k \in Nat /\ s.k + 1 \in Nat /\ Body = cl.body
    BY <1>6, PassBody DEF EInv
  <2>3. cl' = cl
    BY <1>2
  <2>4. /\ Len(s.prem) = CountBefore(cl, s.k)
        /\ \A j \in Positive(cl) : j < s.k => Answers(s.prem[Rank(cl, j)], cl.body[j], s.env)'
    BY <1>2, <1>3, <1>6, <2>3, PremisedStays DEF DInv, Premised
  <2>5. s.k \notin Positive(cl) /\ Positive(cl) \subseteq Nat
    BY <1>4, <2>2 DEF LiteralOf, Positive, Clause
  <2> HIDE DEF cl
  <2>6. CountBefore(cl, t.k) = CountBefore(cl, s.k)
    <3>1. CountBefore(cl, s.k) \in Nat
      BY <2>2, PositiveFinite
    <3>2. CountBefore(cl, s.k + 1) = CountBefore(cl, s.k) + 0
      BY <2>2, <2>5, CountStep
    <3> QED
      BY <2>1, <3>1, <3>2
  <2>7. \A j \in Positive(cl) : j < t.k => j < s.k
    BY <2>1, <2>2, <2>5
  <2> QED
    BY <2>1, <2>3, <2>4, <2>6, <2>7 DEF Premised, cl
<1> HIDE DEF next
<1>7. SolutionsBacked' /\ GoalsBacked'
  BY <1>1, <1>2, <1>3, <1>5, <1>6, TodoBacked DEF DInv
<1>8. TraceIsAProof'
  BY <1>2, <1>3, Carried DEF DInv
<1>9. AnswersCite' /\ AnswersBacked'
  BY <1>2, <1>3, AnswersCarried DEF DInv, AnswersCite, AnswersBacked
<1> QED
  BY <1>3, <1>7, <1>8, <1>9 DEF EInv

LEMMA InvokeAdapterEInv ==
  ASSUME EInv, NEW s \in todo, InvokeAdapter(s)
  PROVE  EInv'
<1> DEFINE tool(x) == ToolAtom(LiteralOf(s), x)
           val(x) == [kind |-> "capability", rule |-> 0, fact |-> tool(x), prem |-> <<>>]
<1>1. PICK reply \in Replies(s) :
        /\ trace' = trace \o [i \in DOMAIN reply |-> val(reply[i])]
        /\ todo' = (todo \ {s}) \cup {Extend(s, tool(reply[i]), ToolId(i)) : i \in DOMAIN reply}
  BY DEF InvokeAdapter, Replace
<1> DEFINE next == {Extend(s, tool(reply[i]), ToolId(i)) : i \in DOMAIN reply}
           new == [i \in DOMAIN reply |-> val(reply[i])]
<1>2. UNCHANGED <<program, now, facts, derived, phase, clause, goal, answers>>
  BY DEF InvokeAdapter
<1>3. [Next]_vars /\ DInv' /\ DepthsBounded'
  BY <1>2, AdvanceIsStep DEF Advance, EInv, DepthsBounded
<1>4. ~ Complete(s) /\ IsCapability(LiteralOf(s)) /\ LiteralOf(s) \in Literal /\ s \in Solution
  BY BodyType DEF InvokeAdapter, EInv, DInv, IInv, TypeOK
<1>5. PICK n \in 0..MaxTuples : reply \in [1..n -> {t \in AdapterTuples : Accepts(s, t)}]
  BY DEF Replies
<1>6. n \in Nat /\ DOMAIN reply = 1..n /\ trace \in Seq(Node) /\ trace' \in Seq(Node)
  BY <1>3, <1>5, EngineAssumption DEF EInv, DInv, IInv, TypeOK
<1>7. /\ DOMAIN new = 1..n /\ Len(new) = n
      /\ \A i \in 1..n : new[i] = val(reply[i])
  <2> HIDE DEF val
  <2>1. DOMAIN new = 1..n
    BY <1>6
  <2>2. Len(new) = n
    BY <1>6, <2>1
  <2> QED
    BY <1>6, <2>1, <2>2
<1>8. /\ \A i \in 1..n : ToolId(i) \in Nat /\ trace'[ToolId(i)] = val(reply[i])
      /\ \A m \in DOMAIN trace' \ DOMAIN trace : \E i \in 1..n : m = ToolId(i)
  <2> DEFINE T == Node \cup {val(reply[i]) : i \in 1..n}
  <2>1. trace' = trace \o new
    BY <1>1
  <2>2. new \in Seq(T) /\ trace \in Seq(T)
    <3> HIDE DEF val
    <3>1. \A i \in 1..n : new[i] \in T
      BY <1>7
    <3>2. new = [i \in 1..n |-> new[i]]
      BY <1>6
    <3> HIDE DEF new, T
    <3>3. new \in Seq(T)
      BY <1>6, <3>1, <3>2
    <3>4. trace \in Seq(T)
      BY <1>6 DEF T
    <3> QED
      BY <3>3, <3>4
  <2> HIDE DEF new, T, val
  <2>3. /\ \A i \in 1..n : Len(trace) + i \in Nat /\ trace'[Len(trace) + i] = new[i]
        /\ \A m \in DOMAIN trace' \ DOMAIN trace : m - Len(trace) \in 1..n /\ m \in Nat
    BY <1>7, <2>1, <2>2, AppendParts
  <2>4. ASSUME NEW m \in DOMAIN trace' \ DOMAIN trace
        PROVE  \E i \in 1..n : m = ToolId(i)
    <3>1. Len(trace) \in Nat /\ m = Len(trace) + (m - Len(trace))
      BY <1>6, <2>3
    <3> QED
      BY <2>3, <3>1 DEF ToolId
  <2> QED
    BY <1>7, <2>3, <2>4 DEF ToolId
<1>9. ASSUME NEW i \in 1..n
      PROVE  trace'[ToolId(i)].kind = "capability" /\ trace'[ToolId(i)].fact = tool(reply[i])
             /\ trace'[ToolId(i)].prem = <<>>
  <2>1. trace'[ToolId(i)] = val(reply[i])
    BY <1>8
  <2> HIDE DEF tool
  <2> QED
    BY <2>1
<1>10. ASSUME NEW t \in next
       PROVE  /\ phase = "pass" => Premised(t)'
              /\ phase = "query" => Rests(t)'
  <2>1. PICK i \in 1..n : t = Extend(s, tool(reply[i]), ToolId(i))
    BY <1>6
  <2> DEFINE fact == tool(reply[i])
             id == ToolId(i)
             pattern == LiteralOf(s).atom
  <2>2. reply[i] \in AdapterTuples /\ Unifies(s.env, pattern, fact, FALSE)
    BY <1>5 DEF Accepts
  <2>3. fact \in GroundAtom /\ pattern \in Atom(Term) /\ s.env \in Env
    BY <1>4, <2>2, ToolAtomType DEF Literal, Term, Solution
  <2>4. pattern.kind = "pred" /\ ValidNow(fact, now)
    BY <1>4 DEF IsCapability, ToolAtom, ValidNow, NoTag
  <2>5. t.k = s.k + 1 /\ t.prem = Append(s.prem, id) /\ t.env = Bind(s.env, pattern, fact)
    BY <2>1 DEF Extend, PushPremise
  <2>6. id \in Nat /\ trace'[id].kind = "capability" /\ trace'[id].fact = fact
    BY <1>8, <1>9
  <2> HIDE DEF fact, id, pattern
  <2>7. Extends(s.env, t.env) /\ Unifies(t.env, pattern, fact, FALSE)
    BY <2>2, <2>3, <2>5, BindExtends, BindUnifies
  <2>8. Unifies(t.env, pattern, fact, TRUE) /\ Unifies(s.env, pattern, fact, TRUE)
    BY <2>2, <2>4, <2>7 DEF Unifies, SameRelation
  <2>9. CASE phase = "pass"
    <3>1. ~ LiteralOf(s).neg
      BY <1>4, <2>9, BodyType, PassBody DEF NegationAllowed, LiteralOf, EInv, DInv
    <3> QED
      BY <1>2, <1>3, <1>4, <2>5, <2>6, <2>7, <2>8, <2>9, <3>1, AdvancedPremised
      DEF DInv, pattern
  <2>10. CASE phase = "query"
    <3>1. pattern = goal
      BY <2>10, <1>4 DEF pattern, LiteralOf, Body, Complete, Solution, EInv, DInv, IInv, Shape
    <3> QED
      BY <1>2, <1>4, <2>4, <2>5, <2>6, <2>8, <2>10, <3>1, GoalAnswered DEF pattern
  <2> QED
    BY <2>9, <2>10
<1>11. todo' = (todo \ {s}) \cup next
  BY <1>1
<1> HIDE DEF next
<1>12. SolutionsBacked' /\ GoalsBacked'
  BY <1>2, <1>3, <1>10, <1>11, TodoBacked DEF DInv
<1>13. ASSUME NEW m \in DOMAIN trace' \ DOMAIN trace
       PROVE  ByAdapter(m)'
  <2>1. PICK i \in 1..n : m = ToolId(i)
    BY <1>8
  <2>2. tool(reply[i]).pred \in Capabilities
    BY <1>4 DEF ToolAtom, IsCapability
  <2> QED
    BY <1>9, <2>1, <2>2 DEF ByAdapter
<1>14. TraceIsAProof'
  BY <1>3, <1>13, Carried DEF DInv
<1>15. AnswersCite' /\ AnswersBacked'
  BY <1>2, <1>3, AnswersCarried DEF DInv, AnswersCite, AnswersBacked
<1> QED
  BY <1>3, <1>12, <1>14, <1>15 DEF EInv
(* The node of a derived atom: everything its clause asks for was answered. *)
LEMMA DerivedByClause ==
  ASSUME EInv, IInv', DepthsBounded', [Next]_vars, NEW s \in todo, Derive(s),
         NEW n \in Nat, n \in DOMAIN trace', trace'[n] = HeadNode(s)
  PROVE  ByClause(n)'
<1> DEFINE cl == program[clause]
           node == HeadNode(s)
<1>1. phase = "pass" /\ Complete(s) /\ program' = program /\ clause' = clause
  BY DEF Derive
<1>2. /\ clause \in DOMAIN program /\ cl \in Clause /\ Body = cl.body
      /\ Body \in Seq(Literal) /\ s.k \in Nat /\ s.env \in Env
  BY <1>1, PassBody DEF EInv
<1>3. s.k > Len(cl.body)
  BY <1>1, <1>2 DEF Complete
<1>4. s.env \in [ClauseVariables(cl) -> Constants]
  <2>1. \A i \in DOMAIN Body : i < s.k
    BY <1>2, <1>3
  <2>2. BoundBy(s) = ClauseVariables(cl)
    BY <1>2, <2>1 DEF BoundBy, ClauseVariables, Positive
  <2> QED
    BY <1>1, <1>2, <2>2 DEF EInv, DInv, SolutionsHold, Env
<1>5. /\ Len(s.prem) = Cardinality(Positive(cl))
      /\ \A j \in Positive(cl) : Answers(s.prem[Rank(cl, j)], cl.body[j], s.env)'
  <2>1. Premised(s)'
    BY <1>1, PremisedStays
  <2>2. cl' = cl
    BY <1>1
  <2>3. \A j \in Positive(cl) : j < s.k
    BY <1>2, <1>3 DEF Positive
  <2>4. CountBefore(cl, s.k) = Cardinality(Positive(cl))
    <3> HIDE DEF cl
    <3> QED
      BY <1>2, <1>3, CountAll
  <2> QED
    BY <2>1, <2>2, <2>3, <2>4 DEF Premised
<1>6. /\ node.prem = s.prem /\ node.rule = clause /\ node.fact = Instantiate(cl.head, s.env)
      /\ node.kind = IF cl.head.kind = "speaks" THEN "delegation"
                     ELSE IF cl.body = <<>> THEN "fact" ELSE "rule"
  BY DEF HeadNode
<1>7. \A j \in DOMAIN s.prem : s.prem[j] \in 1..(n - 1)
  BY <1>6 DEF IInv, PremisesEarlier
<1> HIDE DEF node
<1>8. trace'[n] = node
  BY DEF node
<1> QED
  BY <1>1, <1>2, <1>4, <1>5, <1>6, <1>7, <1>8 DEF ByClause

LEMMA DeriveEInv ==
  ASSUME EInv, NEW s \in todo, Derive(s)
  PROVE  EInv'
<1> DEFINE node == HeadNode(s)
           none == {}
<1>1. todo' = (todo \ {s}) \cup none
  BY DEF Derive, Replace
<1>2. UNCHANGED <<program, now, facts, phase, clause, goal, answers>>
  BY DEF Derive
<1>3. [Next]_vars /\ DInv'
  BY AdvanceIsStep DEF Advance, EInv
<1>4. \/ UNCHANGED <<trace, derived>>
      \/ /\ trace' = Append(trace, node)
         /\ derived' = derived \cup {[atom |-> node.fact, id |-> Len(trace) + 1]}
  BY DEF Derive
<1>5. DepthsBounded'
  <2>1. CASE UNCHANGED derived
    BY <1>2, <2>1 DEF EInv, DepthsBounded
  <2>2. CASE derived' = derived \cup {[atom |-> node.fact, id |-> Len(trace) + 1]}
    <3> DEFINE d == [atom |-> node.fact, id |-> Len(trace) + 1]
    <3>1. d \in derived' /\ d.atom = node.fact
      BY <2>2
    <3>2. facts' \cup derived' \subseteq facts \cup derived \cup {d}
      BY <1>2, <2>2
    <3> HIDE DEF d, node
    <3>3. d.atom \in GroundAtom
      BY <1>3, <3>1 DEF DInv, IInv, TypeOK, Fact
    <3> QED
      BY <3>2, <3>3, DepthType, DepthsStay DEF EInv, DInv
  <2> QED
    BY <1>4, <2>1, <2>2
<1>6. SolutionsBacked' /\ GoalsBacked'
  <2>1. \A t \in none : FALSE
    OBVIOUS
  <2> HIDE DEF none
  <2> QED
    BY <1>1, <1>2, <1>3, <1>5, <2>1, TodoBacked DEF DInv
<1>7. ASSUME NEW m \in DOMAIN trace' \ DOMAIN trace
      PROVE  ByClause(m)'
  <2>1. trace' = Append(trace, node) /\ trace \in Seq(Node)
    BY <1>4 DEF EInv, DInv, IInv, TypeOK
  <2>2. m \in Nat /\ trace'[m] = node
    <3> HIDE DEF node
    <3> QED
      BY <2>1
  <2> QED
    BY <1>3, <1>5, <2>2, DerivedByClause DEF DInv
<1>8. TraceIsAProof'
  BY <1>3, <1>5, <1>7, Carried DEF DInv
<1>9. AnswersCite' /\ AnswersBacked'
  BY <1>2, <1>3, <1>5, AnswersCarried DEF DInv, AnswersCite, AnswersBacked
<1> QED
  BY <1>3, <1>5, <1>6, <1>8, <1>9 DEF EInv

LEMMA AnswerEInv ==
  ASSUME EInv, NEW s \in todo, Answer(s)
  PROVE  EInv'
<1> DEFINE none == {}
<1>1. PICK a : /\ a.atom = Instantiate(goal, s.env) /\ a.id = s.prem[Len(s.prem)]
               /\ todo' = (todo \ {s}) \cup none /\ answers' = answers \cup {a}
  <2> DEFINE b == [atom |-> Instantiate(goal, s.env), id |-> s.prem[Len(s.prem)]]
  <2>1. /\ b.atom = Instantiate(goal, s.env) /\ b.id = s.prem[Len(s.prem)]
        /\ todo' = (todo \ {s}) \cup none /\ answers' = answers \cup {b}
    BY DEF Answer, Replace
  <2> HIDE DEF b
  <2> QED
    BY <2>1
<1> DEFINE fact == trace[a.id].fact
<1>2. UNCHANGED <<program, now, facts, trace, derived, phase, clause, goal>>
      /\ phase = "query" /\ Complete(s)
  BY DEF Answer, store
<1>3. [Next]_vars /\ DInv' /\ DepthsBounded'
  BY <1>2, AdvanceIsStep DEF Advance, EInv, DepthsBounded
<1>4. SolutionsBacked' /\ GoalsBacked'
  <2>1. \A t \in none : FALSE
    OBVIOUS
  <2> HIDE DEF none
  <2> QED
    BY <1>1, <1>2, <1>3, <2>1, TodoBacked DEF DInv
<1>5. TraceIsAProof'
  BY <1>2, <1>3, Carried DEF DInv
<1>6. Rests(s) /\ s.prem \in Seq(Nat) /\ goal \in Atom(Term)
  <2>1. Len(Body) = 1 /\ Start.k = 1
    BY <1>2 DEF Body, Start
  <2>2. s # Start
    BY <1>2, <2>1 DEF Complete
  <2>3. Rests(s)
    BY <1>2, <2>2 DEF EInv, GoalsBacked
  <2>4. s.prem \in Seq(Nat)
    BY DEF EInv, DInv, IInv, TypeOK, Solution
  <2>5. goal \in Atom(Term)
    BY <1>2, EngineAssumption DEF EInv, DInv, IInv, Shape, Term
  <2> QED
    BY <2>3, <2>4, <2>5
<1>7. a.id = s.prem[1] /\ a.atom = Instantiate(goal, s.env) /\ a.id \in DOMAIN trace
  <2>1. Len(s.prem) = 1 /\ 1 \in DOMAIN s.prem
    BY <1>6 DEF Rests
  <2>2. s.prem[1] \in DOMAIN trace
    BY <2>1 DEF EInv, DInv, IInv, PremisesInUse
  <2> QED
    BY <1>1, <2>1, <2>2
<1>8. fact \in GroundAtom /\ EmptyEnv \in Env
  <2>1. EmptyEnv \in Env
    BY StartType DEF Start, Solution
  <2> QED
    BY <1>7, <2>1, NodeType DEF EInv, DInv
<1>9. /\ Unifies(EmptyEnv, goal, fact, TRUE) /\ s.env = Bind(EmptyEnv, goal, fact)
      /\ ValidNow(fact, now)
      /\ goal.kind = "says" => SpeaksAs(fact, goal.who, fact.pred, Stored, now)
  BY <1>6, <1>7 DEF Rests
<1>10. Args(a.atom) = Args(fact)
  <2> HIDE DEF fact
  <2>1. Args(Instantiate(goal, Bind(EmptyEnv, goal, fact))) = Args(fact)
    BY <1>6, <1>8, <1>9, InstantiateMatched
  <2> QED
    BY <1>7, <1>9, <2>1
<1>11. /\ a.atom.kind = goal.kind
       /\ goal.kind # "speaks" => a.atom.tag = goal.tag
       /\ goal.kind = "speaks" => a.atom = goal
  BY <1>6, <1>7 DEF Instantiate, Atom, PredicateAtom, SaysAtom, SpeaksForAtom
<1>12. /\ goal.kind = fact.kind
       /\ goal.kind = "speaks" => goal.who = fact.who /\ goal.to = fact.to
       /\ goal.kind # "speaks" => goal.pred = fact.pred
  BY <1>9 DEF Unifies, SameRelation
<1>13. Backed(a)
  BY <1>9, <1>10, <1>11, <1>12 DEF Backed
<1>14. Backed(a)'
  BY <1>2, <1>3, <1>7, <1>11, <1>13, BackedStays DEF EInv, DInv
<1>15. AnswersCite' /\ AnswersBacked'
  BY <1>1, <1>2, <1>3, <1>7, <1>11, <1>14, AnswersCarried DEF DInv, AnswersCite, AnswersBacked
<1> QED
  BY <1>3, <1>4, <1>5, <1>15 DEF EInv
(* The steps that only move on: the trace, what is stored and the answers  *)
(* stay, and what is to be solved, if anything, starts afresh.             *)
LEMMA MoveOnEInv ==
  ASSUME EInv, \/ \E s \in todo : AdapterFails(s)
               \/ NextClause \/ EndQuery \/ StartFixpoint \/ UNCHANGED vars
  PROVE  EInv'
<1>1. UNCHANGED <<program, now, facts, trace, derived, goal, answers>>
  BY DEF AdapterFails, NextClause, EndQuery, StartFixpoint, store, vars
<1>2. [Next]_vars /\ DInv'
  <2>1. ASSUME NEW s \in todo, AdapterFails(s) PROVE [Next]_vars
    BY <2>1, AdvanceIsStep DEF Advance, EInv
  <2>2. [Next]_vars
    BY <2>1 DEF Next, Evaluate
  <2> QED
    BY <2>2, NextDInv DEF EInv
<1>3. DepthsBounded'
  BY <1>1 DEF EInv, DepthsBounded
<1>4. TraceIsAProof'
  BY <1>1, <1>2, <1>3, Carried DEF DInv
<1>5. AnswersCite' /\ AnswersBacked'
  BY <1>1, <1>2, <1>3, AnswersCarried DEF DInv, AnswersCite, AnswersBacked
<1>6. SolutionsBacked' /\ GoalsBacked'
  <2>1. CASE \E s \in todo : AdapterFails(s)
    BY <2>1 DEF AdapterFails, SolutionsBacked, GoalsBacked
  <2>2. CASE NextClause
    <3>1. phase' = "pass" /\ todo' = {Start}
      BY <2>2 DEF NextClause
    <3>2. (program[clause] \in Clause)'
      <4>1. program' \in Seq(Clause) /\ clause' \in 1..Len(program')
        BY <1>2, <3>1, EngineAssumption DEF DInv, IInv, TypeOK, Shape
      <4> QED
        BY <4>1
    <3>3. (program[clause] \in Clause => Premised(Start))'
      BY StartPremised, PTL
    <3> QED
      BY <3>1, <3>2, <3>3 DEF SolutionsBacked, GoalsBacked
  <2>3. CASE EndQuery
    BY <2>3 DEF EndQuery, SolutionsBacked, GoalsBacked
  <2>4. CASE StartFixpoint
    <3>1. todo = {} /\ todo' = todo
      BY <2>4 DEF StartFixpoint, EInv, DInv, IInv, Shape
    <3> QED
      BY <3>1 DEF SolutionsBacked, GoalsBacked
  <2>5. CASE UNCHANGED vars
    <3>1. /\ Stored' = Stored /\ todo' = todo /\ phase' = phase /\ goal' = goal
          /\ program' = program /\ clause' = clause /\ now' = now /\ facts' = facts
          /\ trace' = trace
      BY <2>5 DEF vars, Stored, Atoms
    <3>2. \A id, literal, env : Answers(id, literal, env)' <=> Answers(id, literal, env)
      BY <3>1 DEF Answers
    <3>3. \A t : Premised(t) => Premised(t)'
      BY <3>1, <3>2 DEF Premised
    <3>4. \A t : Rests(t) => Rests(t)'
      BY <3>1 DEF Rests
    <3> QED
      BY <3>1, <3>3, <3>4 DEF EInv, SolutionsBacked, GoalsBacked
  <2> QED
    BY <2>1, <2>2, <2>3, <2>4, <2>5
<1> QED
  BY <1>2, <1>3, <1>4, <1>5, <1>6 DEF EInv

LEMMA EndPassEInv == EInv /\ EndPass => EInv'
<1> SUFFICES ASSUME EInv, EndPass PROVE EInv'
  OBVIOUS
<1>1. UNCHANGED <<program, now, trace, todo, goal, answers>> /\ todo = {}
  BY DEF EndPass
<1>2. [Next]_vars /\ DInv'
  <2>1. [Next]_vars
    BY DEF Next, Evaluate
  <2> QED
    BY <2>1, NextDInv DEF EInv
<1>3. facts' \subseteq facts \cup derived /\ derived' = {}
  BY DEF EndPass, Fresh
<1>4. DepthsBounded'
  BY <1>3 DEF EInv, DepthsBounded
<1>5. SolutionsBacked' /\ GoalsBacked'
  BY <1>1 DEF SolutionsBacked, GoalsBacked
<1>6. TraceIsAProof'
  BY <1>1, <1>2, <1>4, Carried DEF DInv
<1>7. AnswersCite' /\ AnswersBacked'
  BY <1>1, <1>2, <1>4, AnswersCarried DEF DInv, AnswersCite, AnswersBacked
<1> QED
  BY <1>2, <1>4, <1>5, <1>6, <1>7 DEF EInv

LEMMA ImportEInv ==
  ASSUME EInv, NEW atom \in Importable, Import(atom)
  PROVE  EInv'
<1> DEFINE node == [kind |-> "fact", rule |-> 0, fact |-> atom, prem |-> <<>>]
           d == [atom |-> atom, id |-> Len(trace) + 1]
<1>1. UNCHANGED <<program, now, phase, todo, derived, goal, answers>> /\ todo = {}
  BY DEF Import, EInv, DInv, IInv, Shape
<1>2. [Next]_vars /\ DInv'
  <2>1. [Next]_vars
    BY DEF Next
  <2> QED
    BY <2>1, NextDInv DEF EInv
<1>3. facts' \cup derived' \subseteq facts \cup derived \cup {d}
  BY <1>1 DEF Import, AddFact
<1>4. DepthsBounded'
  <2>1. d.atom \in GroundAtom
    BY EngineAssumption
  <2> HIDE DEF d
  <2> QED
    BY <1>3, <2>1, DepthType, DepthsStay DEF EInv, DInv
<1>5. SolutionsBacked' /\ GoalsBacked'
  BY <1>1 DEF SolutionsBacked, GoalsBacked
<1>6. ASSUME NEW m \in DOMAIN trace' \ DOMAIN trace
      PROVE  ByImport(m)'
  <2>1. trace' = Append(trace, node) /\ trace \in Seq(Node) /\ atom \in imported'
    BY DEF Import, EInv, DInv, IInv, TypeOK
  <2>2. trace'[m] = node
    <3> HIDE DEF node
    <3> QED
      BY <2>1
  <2> QED
    BY <2>1, <2>2 DEF ByImport
<1>7. TraceIsAProof'
  BY <1>2, <1>4, <1>6, Carried DEF DInv
<1>8. AnswersCite' /\ AnswersBacked'
  BY <1>1, <1>2, <1>4, AnswersCarried DEF DInv, AnswersCite, AnswersBacked
<1> QED
  BY <1>2, <1>4, <1>5, <1>7, <1>8 DEF EInv

LEMMA QueryEInv ==
  ASSUME EInv, NEW g \in Goals, Query(g)
  PROVE  EInv'
<1>1. UNCHANGED <<facts, trace, derived>> /\ phase' = "query" /\ todo' = {Start} /\ answers' = {}
  BY DEF Query, store
<1>2. [Next]_vars /\ DInv'
  <2>1. [Next]_vars
    BY DEF Next
  <2> QED
    BY <2>1, NextDInv DEF EInv
<1>3. DepthsBounded'
  BY <1>1 DEF EInv, DepthsBounded
<1>4. SolutionsBacked' /\ GoalsBacked' /\ AnswersCite' /\ AnswersBacked'
  BY <1>1 DEF SolutionsBacked, GoalsBacked, AnswersCite, AnswersBacked
<1>5. TraceIsAProof'
  BY <1>1, <1>2, <1>3, Carried DEF DInv
<1> QED
  BY <1>2, <1>3, <1>4, <1>5 DEF EInv

LEMMA NextEInv == EInv /\ [Next]_vars => EInv'
<1> SUFFICES ASSUME EInv, [Next]_vars PROVE EInv'
  OBVIOUS
<1>1. ASSUME NEW s \in todo, Advance(s) PROVE EInv'
  BY <1>1, MatchLiteralEInv, NegateLiteralEInv, InvokeAdapterEInv, DeriveEInv, AnswerEInv,
     MoveOnEInv DEF Advance
<1>2. ASSUME NEW atom \in Importable, Import(atom) PROVE EInv'
  BY <1>2, ImportEInv
<1>3. ASSUME NEW g \in Goals, Query(g) PROVE EInv'
  BY <1>3, QueryEInv
<1> QED
  BY <1>1, <1>2, <1>3, MoveOnEInv, EndPassEInv DEF Next, Evaluate

LEMMA InitEInv == Init => EInv
<1> SUFFICES ASSUME Init PROVE EInv
  OBVIOUS
<1>1. DInv
  BY InitIInv DEF Init, DInv, PassValidated, SolutionsHold, DerivedFollow
<1>2. DepthsBounded
  BY DelegationAssumption DEF Init, DepthsBounded
<1>3. TraceIsAProof
  BY DEF Init, TraceIsAProof
<1> QED
  BY <1>1, <1>2, <1>3
  DEF Init, EInv, SolutionsBacked, GoalsBacked, AnswersCite, AnswersBacked

LEMMA InductiveEInv == Spec => []EInv
<1>1. Init => EInv
  BY InitEInv
<1>2. EInv /\ [Next]_vars => EInv'
  BY NextEInv
<1> QED
  BY <1>1, <1>2, PTL DEF Spec

-----------------------------------------------------------------------------
(* What the trace and the answers stand for                                *)

(* Every node of the trace (etb_trace_append) is the instance of a clause  *)
(* whose premises answer its positive literals, one each and in order, and *)
(* answer them still however the evaluator went on; or an adapter's reply; *)
(* or an imported answer.                                                  *)
THEOREM EveryNodeIsAStep == Spec => []TraceIsAProof
<1>1. EInv => TraceIsAProof
  BY DEF EInv
<1> QED
  BY <1>1, InductiveEInv, PTL

(* Every answer of etb_engine_query reads as the goal does, and cites a    *)
(* node about the same relation and terms, valid now, said by the goal's   *)
(* principal or by one the stored delegations let speak for it.            *)
THEOREM EveryAnswerIsBacked == Spec => []AnswersBacked
<1>1. EInv => AnswersBacked
  BY DEF EInv
<1> QED
  BY <1>1, InductiveEInv, PTL

-----------------------------------------------------------------------------
(* The inductive invariant of the stored model                             *)

(* The programs and imports ExactModel is about.                           *)
Plain == NegatesGivenFacts /\ UsesNoTool

(* Every assignment under which a clause begun in this pass holds is dealt *)
(* with: its head is known, or a partial solution leads to it.             *)
Covered ==
  phase = "pass" =>
    \A c \in 1..clause : \A env \in [ClauseVariables(program[c]) -> Constants] :
      (\A i \in DOMAIN program[c].body : Holds(env, program[c].body[i], Stored, AdapterTuples, now))
      => \/ Instantiate(program[c].head, env) \in Stored \cup Atoms(derived)
         \/ c = clause /\ \E s \in todo : Extends(s.env, env)

(* What a pass derives is new, and has later trace nodes than what is      *)
(* stored.                                                                 *)
DerivedLater ==
  phase = "pass" =>
    \A d \in derived : d.atom \notin Stored /\ \A f \in facts : f.id < d.id

(* Once anything is stored, and once a run has ended, the program's facts  *)
(* are stored.                                                             *)
FactsOfProgram == \A c \in DOMAIN program : program[c].body = <<>> => program[c].head \in Stored
FactsFirst ==
  facts # {} \/ (phase \in {"idle", "query"} /\ runs > 0) => FactsOfProgram

(* A stored atom was imported, or the clauses yield it from what was       *)
(* stored under earlier trace nodes.                                       *)
Earlier(f) == Atoms({g \in facts : g.id < f.id})
Founded == \A f \in facts : f.atom \in imported \/ f.atom \in Yields(Earlier(f), Stored)

SettledClosed == settled => Yields(Stored, Stored) \subseteq Stored

MInv ==
  /\ EInv /\ imported \subseteq Stored /\ DerivedLater
  /\ Plain => Covered /\ FactsFirst /\ Founded /\ SettledClosed

-----------------------------------------------------------------------------
(* What holds under an assignment to all variables of a clause             *)

LEMMA ClauseType ==
  ASSUME IInv, NEW c \in DOMAIN program
  PROVE  /\ program[c] \in Clause /\ program[c].head \in Atom(Term)
         /\ program[c].body \in Seq(Literal) /\ c \in Nat
         /\ \A i \in DOMAIN program[c].body :
              i \in Nat /\ program[c].body[i] \in Literal /\ program[c].body[i].atom \in Atom(Term)
<1>1. program \in Seq(Clause)
  BY EngineAssumption DEF IInv, TypeOK
<1>2. program[c] \in Clause /\ c \in Nat
  BY <1>1
<1>3. program[c].body \in Seq(Literal) /\ program[c].head \in Atom(Term)
  BY <1>2 DEF Clause, Term
<1>4. \A i \in DOMAIN program[c].body : i \in Nat /\ program[c].body[i] \in Literal
  BY <1>3
<1>5. \A literal \in Literal : literal.atom \in Atom(Term)
  BY DEF Literal, Term
<1> QED
  BY <1>2, <1>3, <1>4, <1>5

LEMMA TotalEnv ==
  ASSUME NEW cl, NEW env \in [ClauseVariables(cl) -> Constants]
  PROVE  env \in Env /\ DOMAIN env = ClauseVariables(cl)
<1>1. ClauseVariables(cl) \in SUBSET Variables
  BY DEF ClauseVariables, VariablesOf
<1> QED
  BY <1>1 DEF Env

(* A head under an assignment to all variables of its clause is ground.    *)
LEMMA TotalGround ==
  ASSUME NEW pattern \in Atom(Term), NEW env \in Env, VariablesOf(pattern) \subseteq DOMAIN env
  PROVE  IsGround(Instantiate(pattern, env))
<1>1. CASE pattern.kind = "speaks"
  BY <1>1 DEF Instantiate, IsGround, VariablesOf, ArgSet, Args
<1>2. CASE pattern.kind # "speaks"
  <2> DEFINE new == [i \in DOMAIN pattern.args |->
                       IF pattern.args[i] \in DOMAIN env THEN env[pattern.args[i]]
                       ELSE pattern.args[i]]
  <2>1. Instantiate(pattern, env) = [pattern EXCEPT !.args = new]
    BY <1>2 DEF Instantiate
  <2>2. Instantiate(pattern, env).args = new /\ Instantiate(pattern, env).kind # "speaks"
    <3> HIDE DEF new
    <3> QED
      BY <1>2, <2>1 DEF Atom, PredicateAtom, SaysAtom, SpeaksForAtom
  <2>3. ASSUME NEW i \in DOMAIN new PROVE new[i] \notin Variables
    <3>1. CASE pattern.args[i] \in DOMAIN env
      <4>1. env[pattern.args[i]] \in Constants
        BY <3>1 DEF Env
      <4> QED
        BY <3>1, <4>1, DatalogAssumption
    <3>2. CASE pattern.args[i] \notin DOMAIN env
      <4>1. pattern.args[i] \notin Variables
        BY <1>2, <3>2 DEF VariablesOf, ArgSet, Args
      <4> QED
        BY <3>2, <4>1
    <3> QED
      BY <3>1, <3>2
  <2> HIDE DEF new
  <2> QED
    BY <2>2, <2>3 DEF IsGround, VariablesOf, ArgSet, Args
<1> QED
  BY <1>1, <1>2

(* A fact of the program reads the same under any assignment.              *)
LEMMA GivenHead ==
  ASSUME IInv, NEW c \in DOMAIN program, program[c].body = <<>>,
         NEW env \in [ClauseVariables(program[c]) -> Constants]
  PROVE  Instantiate(program[c].head, env) = program[c].head
<1> DEFINE head == program[c].head
<1>1. DOMAIN env = {}
  BY DEF ClauseVariables, Positive
<1>2. head \in Atom(Term)
  BY ClauseType
<1>3. CASE head.kind = "speaks"
  BY <1>3 DEF Instantiate
<1>4. CASE head.kind # "speaks"
  <2>1. [i \in DOMAIN head.args |->
           IF head.args[i] \in DOMAIN env THEN env[head.args[i]] ELSE head.args[i]] = head.args
    <3>1. head.args \in Seq(Term)
      BY <1>2, <1>4 DEF Atom, PredicateAtom, SaysAtom, SpeaksForAtom
    <3>2. \A i \in DOMAIN head.args :
            (IF head.args[i] \in DOMAIN env THEN env[head.args[i]] ELSE head.args[i]) = head.args[i]
      BY <1>1
    <3> HIDE DEF head
    <3> QED
      BY <3>1, <3>2
  <2>2. Instantiate(head, env) = [head EXCEPT !.args = head.args]
    BY <1>4, <2>1 DEF Instantiate
  <2> HIDE DEF head
  <2>3. [head EXCEPT !.args = head.args] = head
    <3>1. CASE head \in PredicateAtom(Term)
      BY <3>1 DEF PredicateAtom
    <3>2. CASE head \in SaysAtom(Term)
      BY <3>2 DEF SaysAtom
    <3>3. head \notin SpeaksForAtom
      BY <1>4 DEF SpeaksForAtom
    <3> QED
      BY <1>2, <3>1, <3>2, <3>3 DEF Atom
  <2> QED
    BY <2>2, <2>3 DEF head
<1> QED
  BY <1>3, <1>4

LEMMA YieldsConsequences ==
  \A A : Yields(A, A) = Consequences(program, A, AdapterTuples, now)
BY DEF Yields, Fires, Consequences

LEMMA PlainBefore ==
  ASSUME [Next]_vars, Plain'
  PROVE  Plain
BY StepFixed DEF Plain, NegatesGivenFacts, UsesNoTool

-----------------------------------------------------------------------------
(* Nothing is missed                                                       *)

LEMMA AtLiteral ==
  ASSUME DInv, phase = "pass", NEW s \in todo, ~ Complete(s)
  PROVE  /\ clause \in DOMAIN program /\ Body = program[clause].body
         /\ s.k \in DOMAIN program[clause].body /\ LiteralOf(s) = program[clause].body[s.k]
         /\ LiteralOf(s).atom \in Atom(Term)
         /\ s \in Solution /\ s.env \in Env /\ s.k \in Nat
<1>1. clause \in DOMAIN program /\ Body = program[clause].body /\ s.env \in Env /\ s.k \in Nat
  BY PassBody
<1>2. Body \in Seq(Literal) /\ s.k \in 1..Len(Body) /\ LiteralOf(s) \in Literal
  BY BodyType DEF DInv
<1>3. s.k \in DOMAIN Body /\ LiteralOf(s) = Body[s.k]
  BY <1>2 DEF LiteralOf
<1>4. LiteralOf(s).atom \in Atom(Term)
  BY <1>2 DEF Literal, Term
<1>5. s \in Solution
  BY DEF DInv, IInv, TypeOK
<1> QED
  BY <1>1, <1>3, <1>4, <1>5

(* The partial solutions that lead to an assignment still do when one is   *)
(* advanced over a positive literal that holds of stored atoms.            *)
LEMMA MatchLeadsOn ==
  ASSUME DInv, phase = "pass", NEW s \in todo, MatchLiteral(s),
         NEW env \in [ClauseVariables(program[clause]) -> Constants], Extends(s.env, env),
         \A i \in DOMAIN program[clause].body :
           Holds(env, program[clause].body[i], Stored, AdapterTuples, now)
  PROVE  \E t \in todo' : Extends(t.env, env)
<1> DEFINE literal == LiteralOf(s)
<1>1. ~ Complete(s) /\ ~ literal.neg /\ ~ IsCapability(literal)
      /\ todo' = (todo \ {s}) \cup {Extend(s, f.atom, f.id) : f \in Found(s)}
  BY DEF MatchLiteral, Replace
<1>2. /\ Body = program[clause].body /\ s.env \in Env
      /\ s.k \in DOMAIN Body /\ literal = Body[s.k] /\ literal.atom \in Atom(Term)
  BY <1>1, AtLiteral
<1>3. Holds(env, literal, Stored, AdapterTuples, now)
  BY <1>2
<1>4. PICK fact \in Matches(env, literal.atom, Stored, now) : TRUE
  BY <1>1, <1>3 DEF Holds
<1>5. fact \in Stored /\ Unifies(env, literal.atom, fact, TRUE)
      /\ fact \in Matches(s.env, literal.atom, Stored, now)
  BY <1>4, UnifiesUnderFewer DEF Matches
<1>6. PICK f \in facts : f.atom = fact
  BY <1>5 DEF Stored, Atoms
<1>7. f \in Found(s)
  BY <1>5, <1>6 DEF Found, FactsMatching
<1> DEFINE t == Extend(s, f.atom, f.id)
<1>8. t \in todo' /\ t.env = Bind(s.env, literal.atom, fact)
  BY <1>1, <1>6, <1>7 DEF Extend
<1>9. fact \in GroundAtom
  BY <1>5, StoredType DEF DInv
<1>10. VariablesOf(literal.atom) \subseteq DOMAIN env
  BY <1>1, <1>2 DEF ClauseVariables, Positive
<1> HIDE DEF t, literal
<1>11. ASSUME NEW v \in DOMAIN t.env
       PROVE  v \in DOMAIN env /\ env[v] = t.env[v]
  <2>1. v \in DOMAIN s.env \cup VariablesOf(literal.atom)
    BY <1>8, BindExtends
  <2>2. CASE v \in DOMAIN s.env
    <3>1. Extends(s.env, t.env)
      BY <1>8, BindExtends
    <3>2. t.env[v] = s.env[v] /\ v \in DOMAIN env /\ env[v] = s.env[v]
      BY <2>2, <3>1 DEF Extends
    <3> QED
      BY <3>2
  <2>3. CASE v \in VariablesOf(literal.atom)
    <3>1. PICK i \in DOMAIN Args(literal.atom) : v = Args(literal.atom)[i] /\ v \in Variables
      BY <2>3 DEF VariablesOf, ArgSet
    <3>2. v \in DOMAIN env
      BY <2>3, <1>10
    <3>3. env[v] = Args(fact)[i]
      BY <1>5, <3>1, <3>2 DEF Unifies
    <3>4. Unifies(s.env, literal.atom, fact, TRUE)
      BY <1>5 DEF Matches
    <3>5. Bind(s.env, literal.atom, fact)[Args(literal.atom)[i]] = Args(fact)[i]
      BY <1>2, <1>9, <3>1, <3>4, BoundTerm
    <3>6. t.env[v] = Args(fact)[i]
      BY <1>8, <3>1, <3>5
    <3> QED
      BY <3>2, <3>3, <3>6
  <2> QED
    BY <2>1, <2>2, <2>3
<1>12. Extends(t.env, env)
  BY <1>11 DEF Extends
<1> QED
  BY <1>8, <1>12

(* A negated literal stops no partial solution it should not stop: the     *)
(* variables of the literal are bound when it is tested.                   *)
LEMMA NegationLeadsOn ==
  ASSUME DInv, Plain, phase = "pass", NEW s \in todo, NegateLiteral(s),
         NEW env \in [ClauseVariables(program[clause]) -> Constants], Extends(s.env, env),
         \A i \in DOMAIN program[clause].body :
           Holds(env, program[clause].body[i], Stored, AdapterTuples, now)
  PROVE  \E t \in todo' : Extends(t.env, env)
<1> DEFINE literal == LiteralOf(s)
           before == Positive(program[clause]) \cap 1..(s.k - 1)
<1>1. ~ Complete(s) /\ literal.neg
      /\ todo' = (todo \ {s}) \cup (IF Survives(s) THEN {Skip(s)} ELSE {})
  BY DEF NegateLiteral, Replace
<1>2. /\ Body = program[clause].body /\ clause \in DOMAIN program /\ s \in Solution
      /\ s.k \in DOMAIN Body /\ literal = Body[s.k] /\ s.k \in Nat
  BY <1>1, AtLiteral
<1>3. ~ IsCapability(literal)
  BY <1>2 DEF Plain, UsesNoTool
<1>4. ~ Refuted(env, literal.atom, Stored, now)
  <2>1. Holds(env, literal, Stored, AdapterTuples, now)
    BY <1>2
  <2> QED
    BY <2>1, <1>1, <1>3 DEF Holds
<1>5. VariablesOf(literal.atom) \subseteq DOMAIN s.env
  <2>1. VariablesOf(literal.atom) \subseteq
          UNION {VariablesOf(program[clause].body[j].atom) : j \in before}
    BY <1>1, <1>2 DEF Plain, NegatesGivenFacts
  <2>2. ASSUME NEW j \in before
        PROVE  VariablesOf(program[clause].body[j].atom) \subseteq DOMAIN s.env
    <3>1. j \in Positive(program[clause]) /\ j < s.k
      BY <1>2
    <3> QED
      BY <3>1, PassedBound
  <2> HIDE DEF before, literal
  <2> QED
    BY <2>1, <2>2
<1>6. Survives(s)
  BY <1>4, <1>5, UnifiesUnderMore DEF Refuted, Survives
<1>7. Skip(s) \in todo' /\ Skip(s).env = s.env
  BY <1>1, <1>2, <1>6 DEF Skip, Solution
<1> QED
  BY <1>7

(* A complete solution that leads to an assignment is the assignment, and  *)
(* its head is stored or derived after the step.                           *)
LEMMA CompleteKnown ==
  ASSUME DInv, phase = "pass", NEW s \in todo, Derive(s),
         NEW env \in [ClauseVariables(program[clause]) -> Constants], Extends(s.env, env)
  PROVE  Instantiate(program[clause].head, env) \in Stored \cup Atoms(derived')
<1>1. Complete(s)
  BY DEF Derive
<1>2. /\ clause \in DOMAIN program /\ Body = program[clause].body
      /\ Body \in Seq(Literal) /\ s.k \in Nat /\ s.env \in Env
  BY PassBody
<1>3. \A i \in DOMAIN Body : i < s.k
  BY <1>1, <1>2 DEF Complete
<1>4. BoundBy(s) = ClauseVariables(program[clause])
  BY <1>2, <1>3 DEF BoundBy, ClauseVariables, Positive
<1>5. s.env \in [ClauseVariables(program[clause]) -> Constants]
  BY <1>2, <1>4 DEF DInv, SolutionsHold, Env
<1>6. s.env = env
  BY <1>5 DEF Extends
<1> DEFINE fact == Instantiate(program[clause].head, env)
<1>7. IsGround(fact)
  <2>1. VariablesOf(program[clause].head) \subseteq ClauseVariables(program[clause])
    BY <1>2 DEF DInv, PassValidated, Validates, RangeRestricted, ClauseVariables
  <2>2. env \in Env /\ DOMAIN env = ClauseVariables(program[clause])
    BY TotalEnv
  <2> QED
    BY <1>2, <2>1, <2>2, ClauseType, TotalGround DEF DInv
<1>8. HeadNode(s).fact = fact
  BY <1>6 DEF HeadNode
<1>9. CASE fact \in Stored
  BY <1>9
<1>10. CASE fact \notin Stored
  <2> DEFINE d == [atom |-> fact, id |-> Len(trace) + 1]
  <2>1. derived' = derived \cup {d}
    BY <1>7, <1>8, <1>10 DEF Derive
  <2>2. d.atom = fact
    OBVIOUS
  <2> HIDE DEF d, fact
  <2> QED
    BY <2>1, <2>2 DEF Atoms, fact
<1> QED
  BY <1>9, <1>10

LEMMA AdvanceCovered ==
  ASSUME DInv, Plain, Covered, NEW s \in todo, Advance(s)
  PROVE  Covered'
<1> SUFFICES ASSUME phase' = "pass",
                    NEW c \in (1..clause)', NEW env \in [ClauseVariables(program'[c]) -> Constants],
                    \A i \in DOMAIN program'[c].body :
                      Holds(env, program'[c].body[i], Stored', AdapterTuples, now')
             PROVE  \/ Instantiate(program'[c].head, env) \in Stored' \cup Atoms(derived')
                    \/ c = clause' /\ \E t \in todo' : Extends(t.env, env)
  BY DEF Covered
<1>1. /\ UNCHANGED <<program, now, facts, clause>> /\ phase = "pass"
      /\ derived \subseteq derived' /\ todo \ {s} \subseteq todo'
  BY DEF Advance, MatchLiteral, NegateLiteral, InvokeAdapter, AdapterFails, Derive, Answer,
         Replace, store
<1>2. Stored' = Stored /\ Atoms(derived) \subseteq Atoms(derived')
  BY <1>1 DEF Stored, Atoms
<1>3. \/ Instantiate(program[c].head, env) \in Stored \cup Atoms(derived)
      \/ c = clause /\ \E t \in todo : Extends(t.env, env)
  BY <1>1, <1>2 DEF Covered
<1>4. CASE Instantiate(program[c].head, env) \in Stored \cup Atoms(derived)
  BY <1>1, <1>2, <1>4
<1>5. ASSUME c = clause, NEW t \in todo, Extends(t.env, env), t # s
      PROVE  \E u \in todo' : Extends(u.env, env)
  BY <1>1, <1>5
<1>6. ASSUME c = clause, Extends(s.env, env)
      PROVE  \/ Instantiate(program[c].head, env) \in Stored \cup Atoms(derived')
             \/ \E u \in todo' : Extends(u.env, env)
  <2>1. \A i \in DOMAIN program[clause].body :
          Holds(env, program[clause].body[i], Stored, AdapterTuples, now)
    BY <1>1, <1>2, <1>6
  <2>2. CASE MatchLiteral(s)
    BY <1>1, <1>6, <2>1, <2>2, MatchLeadsOn
  <2>3. CASE NegateLiteral(s)
    BY <1>1, <1>6, <2>1, <2>3, NegationLeadsOn
  <2>4. CASE Derive(s)
    BY <1>1, <1>6, <2>4, CompleteKnown
  <2>5. ~ InvokeAdapter(s)
    <3>1. ASSUME ~ Complete(s) PROVE ~ IsCapability(LiteralOf(s))
      BY <1>1, <3>1, PassBody, BodyType DEF LiteralOf, Plain, UsesNoTool, DInv
    <3> QED
      BY <3>1 DEF InvokeAdapter
  <2>6. ~ AdapterFails(s) /\ ~ Answer(s)
    BY <1>1 DEF AdapterFails, Answer
  <2> QED
    BY <2>2, <2>3, <2>4, <2>5, <2>6 DEF Advance
<1> QED
  BY <1>1, <1>2, <1>3, <1>4, <1>5, <1>6

LEMMA NextClauseCovered == DInv /\ Covered /\ NextClause => Covered'
<1> SUFFICES ASSUME DInv, Covered, NextClause,
                    NEW c \in (1..clause)', NEW env \in [ClauseVariables(program'[c]) -> Constants],
                    \A i \in DOMAIN program'[c].body :
                      Holds(env, program'[c].body[i], Stored', AdapterTuples, now')
             PROVE  \/ Instantiate(program'[c].head, env) \in Stored' \cup Atoms(derived')
                    \/ c = clause' /\ \E t \in todo' : Extends(t.env, env)
  BY DEF Covered
<1>1. /\ UNCHANGED <<program, now, facts, derived>> /\ phase = "pass"
      /\ todo = {} /\ todo' = {Start} /\ clause' = clause + 1 /\ clause \in Nat
  BY DEF NextClause, store, DInv, IInv, TypeOK
<1>2. Stored' = Stored
  BY <1>1 DEF Stored, Atoms
<1>3. CASE c \in 1..clause
  BY <1>1, <1>2, <1>3 DEF Covered
<1>4. CASE c = clause + 1
  <2>1. Extends(Start.env, env)
    BY DEF Start, EmptyEnv, Extends
  <2> QED
    BY <1>1, <1>4, <2>1
<1> QED
  BY <1>1, <1>3, <1>4

(* At the end of a pass whatever the clauses yield is stored or derived.   *)
LEMMA PassComplete ==
  ASSUME DInv, Covered, EndPass
  PROVE  Yields(Stored, Stored) \subseteq Stored \cup Atoms(derived)
<1>1. phase = "pass" /\ todo = {} /\ clause = Len(program) /\ program \in Seq(Clause)
  BY EngineAssumption DEF EndPass, DInv, IInv, TypeOK
<1>2. ASSUME NEW c \in DOMAIN program, NEW env \in [ClauseVariables(program[c]) -> Constants],
             Fires(program[c], env, Stored, Stored)
      PROVE  Instantiate(program[c].head, env) \in Stored \cup Atoms(derived)
  <2>1. c \in 1..clause
    BY <1>1
  <2>2. \A i \in DOMAIN program[c].body :
          Holds(env, program[c].body[i], Stored, AdapterTuples, now)
    BY <1>2 DEF Fires
  <2> QED
    BY <1>1, <2>1, <2>2 DEF Covered
<1> QED
  BY <1>2 DEF Yields

(* The merge leaves no derived atom out.                                   *)
LEMMA Merged ==
  ASSUME IInv, EndPass
  PROVE  Stored' = Stored \cup Atoms(derived)
<1>1. facts' = facts \cup Fresh /\ Fresh \subseteq derived
  BY DEF EndPass, Fresh
<1>2. ASSUME NEW d \in derived, d.atom \notin Stored
      PROVE  \E f \in Fresh : f.atom = d.atom
  <2> DEFINE ids == {g.id : g \in {h \in derived : h.atom = d.atom}}
  <2>1. ids \in SUBSET Nat /\ d.id \in ids
    BY DEF IInv, TypeOK, Fact
  <2>2. PICK m \in ids : \A k \in ids : m <= k
    <3> HIDE DEF ids
    <3> QED
      BY <2>1, LeastNumber
  <2>3. PICK f \in derived : f.atom = d.atom /\ f.id = m
    OBVIOUS
  <2>4. \A g \in derived : g.atom = f.atom => f.id <= g.id
    BY <2>2, <2>3
  <2>5. f \in Fresh
    BY <1>2, <2>3, <2>4 DEF Fresh
  <2> QED
    BY <2>3, <2>5
<1> QED
  BY <1>1, <1>2 DEF Stored, Atoms

(* The facts of the program follow from anything.                          *)
LEMMA FactYielded ==
  ASSUME IInv, NEW c \in DOMAIN program, program[c].body = <<>>, NEW M, NEW N
  PROVE  program[c].head \in Yields(M, N)
<1>1. ClauseVariables(program[c]) = {}
  BY DEF ClauseVariables, Positive
<1>2. EmptyEnv \in [ClauseVariables(program[c]) -> Constants]
  BY <1>1 DEF EmptyEnv
<1>3. Fires(program[c], EmptyEnv, M, N)
  BY DEF Fires
<1>4. Instantiate(program[c].head, EmptyEnv) = program[c].head
  BY <1>2, GivenHead
<1> QED
  BY <1>2, <1>3, <1>4 DEF Yields

LEMMA EndPassKnows ==
  ASSUME DInv, Covered, EndPass
  PROVE  FactsOfProgram' /\ SettledClosed'
<1>1. Yields(Stored, Stored) \subseteq Stored'
  BY PassComplete, Merged DEF DInv
<1>2. UNCHANGED <<program, now>>
  BY DEF EndPass
<1>3. FactsOfProgram'
  BY <1>1, <1>2, FactYielded DEF FactsOfProgram, DInv
<1>4. ASSUME settled' PROVE Yields(Stored, Stored)' \subseteq Stored'
  <2>1. facts' = facts
    BY <1>4 DEF EndPass
  <2>2. Stored' = Stored
    BY <2>1 DEF Stored, Atoms
  <2>3. Yields(Stored, Stored)' = Yields(Stored, Stored)
    BY <1>2, <2>2 DEF Yields, Fires
  <2> QED
    BY <1>1, <2>3
<1> QED
  BY <1>3, <1>4 DEF SettledClosed

-----------------------------------------------------------------------------
(* Nothing supports itself                                                 *)

(* A principal who may be spoken for over few stored atoms may be over     *)
(* more, and a positive literal that holds goes on to hold.                *)
LEMMA SpeaksInMore ==
  ASSUME NEW A, NEW B \in SUBSET GroundAtom, A \subseteq B,
         NEW longest \in Nat, DefaultDepth <= longest,
         \A a \in B : a.kind = "speaks" => a.depth <= longest,
         NEW fact, fact.who \in Principals, NEW who, NEW pred, NEW t,
         SpeaksAs(fact, who, pred, A, t)
  PROVE  SpeaksAs(fact, who, pred, B, t)
<1> DEFINE links == Links(A)
           more == Links(B)
<1>1. Bounded(more, longest)
  <2>1. ASSUME NEW link \in more
        PROVE  link.to \in Principals /\ link.depth \in Nat /\ link.depth <= longest
    <3>1. link \in B /\ link \in GroundAtom /\ link.kind = "speaks"
      BY DEF Links
    <3>2. link \in SpeaksForAtom
      BY <3>1 DEF GroundAtom, Atom, PredicateAtom, SaysAtom
    <3> QED
      BY <3>1, <3>2 DEF SpeaksForAtom
  <2> HIDE DEF more
  <2> QED
    BY <2>1 DEF Bounded
<1>2. links \subseteq more
  BY DEF Links
<1>3. CASE fact.who = who
  BY <1>3 DEF SpeaksAs
<1>4. CASE Allows(links, fact.who, who, pred, t)
  <2> HIDE DEF links, more
  <2>1. Allows(more, fact.who, who, pred, t)
    BY <1>1, <1>2, <1>4, MoreLinksGrantMore
  <2> QED
    BY <2>1 DEF SpeaksAs, more
<1> QED
  BY <1>3, <1>4 DEF SpeaksAs

LEMMA HoldsInMore ==
  ASSUME NEW A, NEW B \in SUBSET GroundAtom, A \subseteq B,
         NEW longest \in Nat, DefaultDepth <= longest,
         \A a \in B : a.kind = "speaks" => a.depth <= longest,
         NEW env, NEW literal, ~ literal.neg, NEW tuples, NEW t, Holds(env, literal, A, tuples, t)
  PROVE  Holds(env, literal, B, tuples, t)
<1>1. CASE IsCapability(literal)
  BY <1>1 DEF Holds
<1>2. CASE ~ IsCapability(literal)
  <2>1. PICK fact \in Matches(env, literal.atom, A, t) : TRUE
    BY <1>2 DEF Holds
  <2>2. fact \in B /\ fact \in GroundAtom /\ fact.kind = literal.atom.kind
    BY <2>1 DEF Matches, Unifies, SameRelation
  <2>3. literal.atom.kind = "says" => SpeaksAs(fact, literal.atom.who, fact.pred, B, t)
    <3>1. SUFFICES ASSUME literal.atom.kind = "says"
                   PROVE  SpeaksAs(fact, literal.atom.who, fact.pred, B, t)
      OBVIOUS
    <3>2. fact.who \in Principals /\ SpeaksAs(fact, literal.atom.who, fact.pred, A, t)
      BY <2>1, <2>2, <3>1, SaysWho DEF Matches
    <3> QED
      BY <3>2, SpeaksInMore
  <2>4. fact \in Matches(env, literal.atom, B, t)
    BY <2>1, <2>2, <2>3 DEF Matches
  <2> QED
    BY <1>2, <2>4 DEF Holds
<1> QED
  BY <1>1, <1>2

(* Depths are bounded in what is stored.                                   *)
LEMMA StoredDepths ==
  ASSUME DepthsBounded
  PROVE  \E longest \in Nat :
           /\ DefaultDepth <= longest
           /\ \A a \in Stored : a.kind = "speaks" => a.depth <= longest
BY DEF DepthsBounded, Stored, Atoms

(* A negated literal of the program that nothing stored refuted is refuted *)
(* by nothing that joins it: the facts it is about are stored.             *)
LEMMA NegationReadOn ==
  ASSUME IInv, Plain', UNCHANGED <<program, now>>, FactsOfProgram,
         Stored' \subseteq Stored \cup Consequences(program, Stored, AdapterTuples, now) \cup imported',
         NEW c \in DOMAIN program, NEW i \in DOMAIN program[c].body, program[c].body[i].neg,
         NEW env, ~ Refuted(env, program[c].body[i].atom, Stored, now)
  PROVE  ~ Refuted(env, program[c].body[i].atom, Stored', now)
<1> DEFINE negated == program[c].body[i].atom
<1> SUFFICES ASSUME NEW fact \in Stored', ValidNow(fact, now), TagMatches(negated, fact),
                    Unifies(env, negated, fact, FALSE)
             PROVE  FALSE
  BY DEF Refuted
<1>1. SameKey(fact, negated)
  BY DEF Unifies, SameRelation, SameKey
<1>2. /\ \A d \in DOMAIN program : SameKey(program[d].head, negated) => program[d].body = <<>>
      /\ \A atom \in imported' : ~ SameKey(atom, negated)
  BY DEF Plain, NegatesGivenFacts
<1>3. fact \notin Stored
  BY DEF Refuted
<1>4. fact \in Consequences(program, Stored, AdapterTuples, now)
  BY <1>1, <1>2, <1>3
<1>5. PICK d \in DOMAIN program : \E e \in [ClauseVariables(program[d]) -> Constants] :
        fact = Instantiate(program[d].head, e)
  BY <1>4 DEF Consequences
<1>6. PICK e \in [ClauseVariables(program[d]) -> Constants] :
        fact = Instantiate(program[d].head, e)
  BY <1>5
<1>7. program[d].head \in Atom(Term)
  BY ClauseType
<1>8. SameKey(program[d].head, negated)
  BY <1>1, <1>6, <1>7 DEF SameKey, Instantiate, Atom, PredicateAtom, SaysAtom, SpeaksForAtom
<1>9. program[d].body = <<>>
  BY <1>2, <1>8
<1>10. fact = program[d].head
  BY <1>6, <1>9, GivenHead
<1> QED
  BY <1>3, <1>9, <1>10 DEF FactsOfProgram

(* A clause that fired over M and what was stored fires over more and what *)
(* is stored after a step.                                                 *)
LEMMA FiresOn ==
  ASSUME IInv, IInv', DepthsBounded', Plain', UNCHANGED <<program, now>>,
         Stored' \subseteq Stored \cup Consequences(program, Stored, AdapterTuples, now) \cup imported',
         NEW c \in DOMAIN program, NEW env,
         (\E i \in DOMAIN program[c].body : program[c].body[i].neg) => FactsOfProgram,
         NEW M, NEW more, M \subseteq more, more \subseteq Stored',
         Fires(program[c], env, M, Stored)
  PROVE  Fires(program[c], env, more, Stored')
<1>1. PICK longest \in Nat :
        /\ DefaultDepth <= longest
        /\ \A a \in Stored' : a.kind = "speaks" => a.depth <= longest
  <2>1. (DepthsBounded => \E longest \in Nat :
           /\ DefaultDepth <= longest
           /\ \A a \in Stored : a.kind = "speaks" => a.depth <= longest)'
    BY StoredDepths, PTL
  <2> QED
    BY <2>1
<1>2. more \in SUBSET GroundAtom
  <2>1. Stored' \subseteq GroundAtom
    BY DEF IInv, TypeOK, Stored, Atoms, Fact
  <2> QED
    BY <2>1
<1>3. ASSUME NEW i \in DOMAIN program[c].body
      PROVE  Holds(env, program[c].body[i],
                   IF program[c].body[i].neg THEN Stored' ELSE more, AdapterTuples, now)
  <2> DEFINE literal == program[c].body[i]
  <2>1. Holds(env, literal, IF literal.neg THEN Stored ELSE M, AdapterTuples, now)
    BY DEF Fires
  <2>2. CASE ~ literal.neg
    <3>1. Holds(env, literal, M, AdapterTuples, now)
      BY <2>1, <2>2
    <3> HIDE DEF literal
    <3>2. Holds(env, literal, more, AdapterTuples, now)
      BY <1>1, <1>2, <2>2, <3>1, HoldsInMore
    <3> QED
      BY <2>2, <3>2 DEF literal
  <2>3. CASE literal.neg
    <3>1. ~ IsCapability(literal)
      BY DEF Plain, UsesNoTool
    <3>2. ~ Refuted(env, literal.atom, Stored, now)
      BY <2>1, <2>3, <3>1 DEF Holds
    <3>3. ~ Refuted(env, literal.atom, Stored', now)
      BY <2>3, <3>2, NegationReadOn
    <3> QED
      BY <2>3, <3>1, <3>3 DEF Holds
  <2> QED
    BY <2>2, <2>3
<1> QED
  BY <1>3 DEF Fires

(* The steps after which everything stored before is founded still.        *)
LEMMA FoundedStays ==
  ASSUME IInv, IInv', DepthsBounded', Plain', UNCHANGED <<program, now>>,
         imported \subseteq imported', facts \subseteq facts', FactsFirst, Founded,
         Stored' \subseteq Stored \cup Consequences(program, Stored, AdapterTuples, now) \cup imported',
         NEW f \in facts
  PROVE  (f.atom \in imported \/ f.atom \in Yields(Earlier(f), Stored))'
<1>1. CASE f.atom \in imported
  BY <1>1
<1>2. CASE f.atom \in Yields(Earlier(f), Stored)
  <2>1. PICK c \in DOMAIN program : \E env \in [ClauseVariables(program[c]) -> Constants] :
          f.atom = Instantiate(program[c].head, env) /\ Fires(program[c], env, Earlier(f), Stored)
    BY <1>2 DEF Yields
  <2>2. PICK env \in [ClauseVariables(program[c]) -> Constants] :
          f.atom = Instantiate(program[c].head, env) /\ Fires(program[c], env, Earlier(f), Stored)
    BY <2>1
  <2>3. FactsOfProgram
    BY DEF FactsFirst
  <2>4. Earlier(f) \subseteq Earlier(f)' /\ Earlier(f)' \subseteq Stored'
    BY DEF Earlier, Stored, Atoms
  <2>5. Fires(program[c], env, Earlier(f)', Stored')
    BY <2>2, <2>3, <2>4, FiresOn
  <2> QED
    BY <2>2, <2>5 DEF Yields, Fires
<1> QED
  BY <1>1, <1>2 DEF Founded

LEMMA EndPassFounded ==
  ASSUME EInv, EInv', Plain', DerivedLater, FactsFirst, Founded, EndPass
  PROVE  Founded'
<1>1. /\ UNCHANGED <<program, now, imported>> /\ phase = "pass"
      /\ facts' = facts \cup Fresh /\ Fresh \subseteq derived
  BY DEF EndPass, Fresh, history
<1>2. Stored' = Stored \cup Atoms(derived)
  BY Merged DEF EInv, DInv
<1>3. Stored' \subseteq Stored \cup Consequences(program, Stored, AdapterTuples, now) \cup imported'
  BY <1>2 DEF EInv, DInv, DerivedFollow, Atoms
<1>4. ASSUME NEW f \in Fresh
      PROVE  f.atom \in Yields(Earlier(f), Stored)'
  <2>1. f.atom \in Yields(Stored, Stored)
    BY <1>1, YieldsConsequences DEF EInv, DInv, DerivedFollow
  <2>2. PICK c \in DOMAIN program : \E env \in [ClauseVariables(program[c]) -> Constants] :
          f.atom = Instantiate(program[c].head, env) /\ Fires(program[c], env, Stored, Stored)
    BY <2>1 DEF Yields
  <2>3. PICK env \in [ClauseVariables(program[c]) -> Constants] :
          f.atom = Instantiate(program[c].head, env) /\ Fires(program[c], env, Stored, Stored)
    BY <2>2
  <2>4. ASSUME NEW i \in DOMAIN program[c].body, program[c].body[i].neg
        PROVE  FactsOfProgram
    <3>1. PICK j \in DOMAIN program[c].body :
            ~ program[c].body[j].neg /\ ~ IsCapability(program[c].body[j])
      BY <1>1, <2>4 DEF Plain, NegatesGivenFacts, Positive
    <3>2. Matches(env, program[c].body[j].atom, Stored, now) # {}
      BY <2>3, <3>1 DEF Fires, Holds
    <3>3. facts # {}
      BY <3>2 DEF Matches, Stored, Atoms
    <3> QED
      BY <3>3 DEF FactsFirst
  <2>5. Stored \subseteq Earlier(f)' /\ Earlier(f)' \subseteq Stored'
    BY <1>1 DEF DerivedLater, Earlier, Stored, Atoms
  <2>6. Fires(program[c], env, Earlier(f)', Stored')
    BY <1>1, <1>3, <2>3, <2>4, <2>5, FiresOn DEF EInv, DInv
  <2> QED
    BY <1>1, <2>3, <2>6 DEF Yields, Fires
<1> QED
  BY <1>1, <1>3, <1>4, FoundedStays DEF Founded, EInv, DInv

LEMMA ImportStored ==
  ASSUME NEW atom, Import(atom)
  PROVE  Stored' = Stored \cup {atom} /\ imported' = imported \cup {atom}
         /\ facts \subseteq facts' /\ \A f \in facts' \ facts : f.atom = atom
<1>1. facts' = AddFact(atom, Len(trace) + 1) /\ imported' = imported \cup {atom}
  BY DEF Import
<1>2. CASE atom \in Stored
  BY <1>1, <1>2 DEF AddFact, Stored, Atoms
<1>3. CASE atom \notin Stored
  <2> DEFINE f == [atom |-> atom, id |-> Len(trace) + 1]
  <2>1. facts' = facts \cup {f} /\ f.atom = atom
    BY <1>1, <1>3 DEF AddFact
  <2> HIDE DEF f
  <2> QED
    BY <1>1, <2>1 DEF Stored, Atoms
<1> QED
  BY <1>2, <1>3

-----------------------------------------------------------------------------
(* Every step preserves it                                                 *)

LEMMA ImportMInv ==
  ASSUME MInv, EInv', NEW atom \in Importable, Import(atom)
  PROVE  MInv'
<1>1. /\ UNCHANGED <<program, now, phase, derived>> /\ phase = "idle" /\ runs > 0
      /\ settled' = (settled /\ atom \in Stored) /\ runs' = runs
  BY DEF Import
<1>2. /\ Stored' = Stored \cup {atom} /\ imported' = imported \cup {atom}
      /\ facts \subseteq facts' /\ \A f \in facts' \ facts : f.atom = atom
  BY ImportStored
<1>3. imported' \subseteq Stored' /\ DerivedLater' /\ Covered'
  BY <1>1, <1>2 DEF MInv, DerivedLater, Covered
<1>4. ASSUME Plain' PROVE FactsFirst' /\ Founded' /\ SettledClosed'
  <2>1. Plain
    <3>1. [Next]_vars
      BY DEF Next
    <3> QED
      BY <1>4, <3>1, PlainBefore
  <2>2. FactsOfProgram
    BY <1>1, <2>1 DEF MInv, FactsFirst
  <2>3. FactsFirst'
    BY <1>1, <1>2, <2>2 DEF FactsFirst, FactsOfProgram
  <2>4. Founded'
    <3>1. \A f \in facts : (f.atom \in imported \/ f.atom \in Yields(Earlier(f), Stored))'
      BY <1>1, <1>2, <1>4, <2>1, FoundedStays DEF MInv, EInv, DInv
    <3> QED
      BY <1>2, <3>1 DEF Founded
  <2>5. ASSUME settled' PROVE Yields(Stored, Stored)' \subseteq Stored'
    <3>1. settled /\ Stored' = Stored
      BY <1>1, <1>2, <2>5
    <3>2. Yields(Stored, Stored)' = Yields(Stored, Stored)
      BY <1>1, <3>1 DEF Yields, Fires
    <3> QED
      BY <2>1, <3>1, <3>2 DEF MInv, SettledClosed
  <2> QED
    BY <2>3, <2>4, <2>5 DEF SettledClosed
<1> QED
  BY <1>3, <1>4 DEF MInv

LEMMA EndPassMInv ==
  ASSUME MInv, EInv', EndPass
  PROVE  MInv'
<1>1. /\ UNCHANGED <<program, now, imported, todo, runs>> /\ clause' = 0 /\ derived' = {}
      /\ facts \subseteq facts'
  BY DEF EndPass, history
<1>2. imported' \subseteq Stored' /\ DerivedLater'
  BY <1>1 DEF MInv, DerivedLater, Stored, Atoms
<1>3. Covered'
  BY <1>1 DEF Covered
<1>4. ASSUME Plain' PROVE FactsFirst' /\ Founded' /\ SettledClosed'
  <2>1. Plain
    <3>1. [Next]_vars
      BY DEF Next, Evaluate
    <3> QED
      BY <1>4, <3>1, PlainBefore
  <2>2. FactsOfProgram' /\ SettledClosed'
    BY <2>1, EndPassKnows DEF MInv, EInv
  <2>3. Founded'
    BY <1>4, <2>1, EndPassFounded DEF MInv
  <2> QED
    BY <2>2, <2>3 DEF FactsFirst
<1> QED
  BY <1>2, <1>3, <1>4 DEF MInv

(* The steps that store nothing.                                           *)
LEMMA StoringNothing ==
  ASSUME MInv, EInv', [Next]_vars, UNCHANGED <<facts, imported>>,
         settled' => settled,
         phase' \in {"idle", "query"} /\ runs' > 0 => phase \in {"idle", "query"} /\ runs > 0,
         DerivedLater', Plain => Covered'
  PROVE  MInv'
<1>1. UNCHANGED <<program, now>> /\ Stored' = Stored
  BY StepFixed DEF Stored, Atoms
<1>2. ASSUME Plain' PROVE Covered' /\ FactsFirst' /\ Founded' /\ SettledClosed'
  <2>1. Plain
    BY <1>2, PlainBefore
  <2>2. FactsFirst'
    BY <1>1, <2>1 DEF MInv, FactsFirst, FactsOfProgram
  <2>3. ASSUME NEW f \in facts
        PROVE  (f.atom \in imported \/ f.atom \in Yields(Earlier(f), Stored))'
    <3>1. Earlier(f)' = Earlier(f)
      BY DEF Earlier, Atoms
    <3>2. Yields(Earlier(f), Stored)' = Yields(Earlier(f), Stored)
      BY <1>1, <3>1 DEF Yields, Fires
    <3> QED
      BY <2>1, <3>2 DEF MInv, Founded
  <2>4. Founded'
    BY <2>3 DEF Founded
  <2>5. SettledClosed'
    BY <1>1, <2>1 DEF MInv, SettledClosed, Yields, Fires
  <2> QED
    BY <2>1, <2>2, <2>4, <2>5
<1> QED
  BY <1>1, <1>2 DEF MInv

LEMMA AdvanceMInv ==
  ASSUME MInv, EInv', NEW s \in todo, Advance(s)
  PROVE  MInv'
<1>1. /\ UNCHANGED <<facts, imported, settled, runs>> /\ phase' \in {phase, "failed"}
  BY DEF Advance, MatchLiteral, NegateLiteral, InvokeAdapter, AdapterFails, Derive, Answer,
         store, history
<1>2. [Next]_vars
  BY AdvanceIsStep DEF MInv, EInv
<1>3. Plain => Covered'
  BY AdvanceCovered DEF MInv, EInv
<1>4. DerivedLater'
  <2>1. CASE derived' = derived
    BY <1>1, <2>1 DEF MInv, DerivedLater, Stored, Atoms
  <2>2. CASE derived' # derived
    <3> DEFINE d == [atom |-> HeadNode(s).fact, id |-> Len(trace) + 1]
    <3>1. derived' = derived \cup {d} /\ d.atom \notin Stored /\ phase = "pass"
      BY <2>2 DEF Advance, MatchLiteral, NegateLiteral, InvokeAdapter, AdapterFails, Derive,
                  Answer, store
    <3>2. \A f \in facts : f.id < d.id
      <4>1. trace \in Seq(Node) /\ \A f \in facts : f.id \in DOMAIN trace
        BY DEF MInv, EInv, DInv, IInv, TypeOK, FactsSupported
      <4> QED
        BY <4>1
    <3> HIDE DEF d
    <3> QED
      BY <1>1, <3>1, <3>2 DEF MInv, DerivedLater, Stored, Atoms
  <2> QED
    BY <2>1, <2>2
<1> QED
  BY <1>1, <1>2, <1>3, <1>4, StoringNothing

LEMMA NextMInv == MInv /\ [Next]_vars => MInv'
<1> SUFFICES ASSUME MInv, [Next]_vars PROVE MInv'
  OBVIOUS
<1>1. EInv'
  BY NextEInv DEF MInv
<1>2. ASSUME NEW s \in todo, Advance(s) PROVE MInv'
  BY <1>1, <1>2, AdvanceMInv
<1>3. ASSUME NEW atom \in Importable, Import(atom) PROVE MInv'
  BY <1>1, <1>3, ImportMInv
<1>4. CASE EndPass
  BY <1>1, <1>4, EndPassMInv
<1>5. CASE NextClause
  <2>1. UNCHANGED <<facts, imported, settled, derived, phase, runs>>
    BY <1>5 DEF NextClause, store, history
  <2>2. DerivedLater'
    BY <2>1 DEF MInv, DerivedLater, Stored, Atoms
  <2>3. Plain => Covered'
    BY <1>5, NextClauseCovered DEF MInv, EInv
  <2> QED
    BY <1>1, <2>1, <2>2, <2>3, StoringNothing
<1>6. CASE EndQuery \/ \E g \in Goals : Query(g)
  <2>1. /\ UNCHANGED <<facts, imported, settled, derived, runs>>
        /\ phase \in {"idle", "query"} /\ phase' \in {"idle", "query"}
        /\ phase' = "query" => phase = "idle"
    BY <1>6 DEF EndQuery, Query, store, history
  <2>2. DerivedLater' /\ Covered'
    BY <2>1 DEF DerivedLater, Covered
  <2> QED
    BY <1>1, <2>1, <2>2, StoringNothing
<1>7. CASE StartFixpoint
  <2>1. /\ UNCHANGED <<facts, imported, settled, derived>> /\ phase' \in {"pass", "failed"}
        /\ phase = "idle"
    BY <1>7 DEF StartFixpoint, store
  <2>2. derived = {}
    BY <1>7 DEF StartFixpoint, MInv, EInv, DInv, DerivedFollow
  <2>3. DerivedLater' /\ Covered'
    BY <2>1, <2>2, <1>7 DEF DerivedLater, Covered, StartFixpoint
  <2> QED
    BY <1>1, <2>1, <2>3, StoringNothing
<1>8. CASE UNCHANGED vars
  <2>1. UNCHANGED <<program, now, facts, imported, settled, derived, phase, runs, clause, todo>>
    BY <1>8 DEF vars
  <2>2. Stored' = Stored
    BY <2>1 DEF Stored, Atoms
  <2>3. DerivedLater'
    BY <2>1, <2>2 DEF MInv, DerivedLater
  <2>4. Plain => Covered'
    BY <2>1, <2>2 DEF MInv, Covered
  <2> QED
    BY <1>1, <2>1, <2>3, <2>4, StoringNothing
<1> QED
  BY <1>2, <1>3, <1>4, <1>5, <1>6, <1>7, <1>8 DEF Next, Evaluate

LEMMA InductiveMInv == Spec => []MInv
<1>1. Init => MInv
  <2> SUFFICES ASSUME Init PROVE MInv
    OBVIOUS
  <2>1. EInv
    BY InitEInv
  <2>2. facts = {} /\ imported = {} /\ derived = {} /\ phase = "idle" /\ settled = FALSE
        /\ ~ (runs > 0)
    BY DEF Init
  <2> QED
    BY <2>1, <2>2 DEF MInv, DerivedLater, Covered, FactsFirst, Founded, SettledClosed
<1>2. MInv /\ [Next]_vars => MInv'
  BY NextMInv
<1> QED
  BY <1>1, <1>2, PTL DEF Spec

-----------------------------------------------------------------------------
(* What is stored                                                          *)

(* Founded atoms are in every set that contains the imported ones and is   *)
(* closed under the clauses: of the atoms outside, the one stored first    *)
(* would follow from atoms inside.                                         *)
LEMMA FoundedIsLeast ==
  ASSUME IInv, DepthsBounded, Founded, NEW M \in SUBSET Stored, Closed(M, Stored)
  PROVE  M = Stored
<1> SUFFICES ASSUME NEW f \in facts, f.atom \notin M
             PROVE  FALSE
  BY DEF Stored, Atoms
<1> DEFINE ids == {g.id : g \in {h \in facts : h.atom \notin M}}
<1>1. ids \in SUBSET Nat /\ f.id \in ids
  BY DEF IInv, TypeOK, Fact
<1>2. PICK m \in ids : \A k \in ids : m <= k
  <2> HIDE DEF ids
  <2> QED
    BY <1>1, LeastNumber
<1>3. PICK g \in facts : g.atom \notin M /\ g.id = m
  OBVIOUS
<1>4. Earlier(g) \subseteq M
  <2>1. ASSUME NEW h \in facts, h.id < g.id, h.atom \notin M PROVE FALSE
    <3>1. m <= h.id /\ h.id \in Nat /\ g.id \in Nat
      BY <1>1, <1>2, <1>3, <2>1
    <3> QED
      BY <1>3, <2>1, <3>1
  <2> QED
    BY <2>1 DEF Earlier, Atoms
<1>5. g.atom \in Yields(Earlier(g), Stored)
  BY <1>3 DEF Founded, Closed
<1>6. PICK c \in DOMAIN program : \E env \in [ClauseVariables(program[c]) -> Constants] :
        g.atom = Instantiate(program[c].head, env) /\ Fires(program[c], env, Earlier(g), Stored)
  BY <1>5 DEF Yields
<1>7. PICK env \in [ClauseVariables(program[c]) -> Constants] :
        g.atom = Instantiate(program[c].head, env) /\ Fires(program[c], env, Earlier(g), Stored)
  BY <1>6
<1>8. PICK longest \in Nat :
        /\ DefaultDepth <= longest
        /\ \A a \in Stored : a.kind = "speaks" => a.depth <= longest
  BY StoredDepths
<1>9. M \in SUBSET GroundAtom
  BY StoredType
<1>10. Fires(program[c], env, M, Stored)
  BY <1>4, <1>7, <1>8, <1>9, HoldsInMore DEF Fires
<1>11. g.atom \in Yields(M, Stored)
  BY <1>7, <1>10 DEF Yields
<1> QED
  BY <1>3, <1>11 DEF Closed

(* When a fixpoint run (etb_engine_run_fixpoint) ends because a pass stored *)
(* nothing, what is stored is the stable model of the program and of the   *)
(* imported answers, for every program that negates given facts only and   *)
(* asks no adapter: the passes over the clauses, the matching from left to *)
(* right and the answers imported between runs miss nothing, and nothing   *)
(* is stored that rests only on itself.                                    *)
THEOREM SettledStoreIsExact == Spec => []ExactModel
<1>1. MInv => ExactModel
  <2> SUFFICES ASSUME MInv, settled, Plain PROVE StoresStableModel
    BY DEF ExactModel, Settled, Plain
  <2>1. Closed(Stored, Stored)
    BY DEF MInv, SettledClosed, Closed
  <2>2. \A M \in SUBSET Stored : Closed(M, Stored) => M = Stored
    BY FoundedIsLeast DEF MInv, EInv, DInv
  <2> QED
    BY <2>1, <2>2 DEF StoresStableModel
<1> QED
  BY <1>1, InductiveMInv, PTL

-----------------------------------------------------------------------------
(* Why runs and queries end                                                *)

(* Literals of a body, up to n; n is any bound on the bodies of a program. *)
BodiesWithin(n) == n >= 1 /\ \A c \in DOMAIN program : Len(program[c].body) <= n
Place(n, s) == IF s.k <= n THEN s.k ELSE n + 1
At(n, k) == {s \in todo : Place(n, s) = k}

(* What a run or query in progress has still to do: passes, then clauses,  *)
(* then partial solutions, those that have passed the fewest literals      *)
(* first, each of which stands for any number of later ones.               *)
Busy == IF phase \in {"pass", "query"} THEN 1 ELSE 0
ToSolve(n) == [k \in 1..(n + 1) |-> Cardinality(At(n, k))]
WorkLeft(n) == <<Busy, <<PassLimit - pass, <<Len(program) - clause, ToSolve(n)>> >> >>

Less == OpToRel(<, Nat)
SolveOrder(n) == LexProductOrdering(Less, Nat, n + 1)
Solves(n) == [1..(n + 1) -> Nat]
ClauseOrder(n) == LexPairOrdering(Less, SolveOrder(n), Nat, Solves(n))
ClauseWorks(n) == Nat \X Solves(n)
PassOrder(n) == LexPairOrdering(Less, ClauseOrder(n), Nat, ClauseWorks(n))
PassWorks(n) == Nat \X ClauseWorks(n)
WorkOrder(n) == LexPairOrdering(Less, PassOrder(n), Nat, PassWorks(n))
Works(n) == Nat \X PassWorks(n)
WorkGoesDown(n) == <<WorkLeft(n)', WorkLeft(n)>> \in WorkOrder(n)

LEMMA WorkOrderWellFounded ==
  ASSUME NEW n \in Nat PROVE IsWellFoundedOn(WorkOrder(n), Works(n))
<1>1. IsWellFoundedOn(Less, Nat)
  BY NatLessThanWellFounded DEF Less
<1>2. n + 1 \in Nat
  OBVIOUS
<1>3. IsWellFoundedOn(SolveOrder(n), Solves(n))
  BY <1>1, <1>2, WFLexProductOrdering DEF SolveOrder, Solves
<1>4. IsWellFoundedOn(ClauseOrder(n), ClauseWorks(n))
  BY <1>1, <1>3, WFLexPairOrdering DEF ClauseOrder, ClauseWorks
<1>5. IsWellFoundedOn(PassOrder(n), PassWorks(n))
  BY <1>1, <1>4, WFLexPairOrdering DEF PassOrder, PassWorks
<1> QED BY <1>1, <1>5, WFLexPairOrdering DEF WorkOrder, Works

LEMMA LexFirst ==
  ASSUME NEW R1, NEW R2, NEW S1, NEW S2, NEW a \in S1, NEW b \in S2, NEW c \in S1, NEW d \in S2,
         <<a, c>> \in R1
  PROVE  << <<a, b>>, <<c, d>> >> \in LexPairOrdering(R1, R2, S1, S2)
BY DEF LexPairOrdering
LEMMA LexSecond ==
  ASSUME NEW R1, NEW R2, NEW S1, NEW S2, NEW a \in S1, NEW b \in S2, NEW d \in S2, <<b, d>> \in R2
  PROVE  << <<a, b>>, <<a, d>> >> \in LexPairOrdering(R1, R2, S1, S2)
BY DEF LexPairOrdering

(* The same with the parts named.                                          *)
LEMMA WorkLess ==
  ASSUME NEW n \in Nat, NEW b \in Nat, NEW p \in Nat, NEW c \in Nat, NEW v \in Solves(n),
         NEW b1 \in Nat, NEW p1 \in Nat, NEW c1 \in Nat, NEW v1 \in Solves(n),
         \/ b1 < b
         \/ b1 = b /\ p1 < p
         \/ b1 = b /\ p1 = p /\ c1 < c
         \/ b1 = b /\ p1 = p /\ c1 = c /\ <<v1, v>> \in SolveOrder(n)
  PROVE  << <<b1, <<p1, <<c1, v1>> >> >>, <<b, <<p, <<c, v>> >> >> >> \in WorkOrder(n)
<1>1. \A i, j \in Nat : i < j => <<i, j>> \in Less
  BY DEF Less, OpToRel
<1>2. <<c1, v1>> \in ClauseWorks(n) /\ <<c, v>> \in ClauseWorks(n)
  BY DEF ClauseWorks
<1>3. <<p1, <<c1, v1>> >> \in PassWorks(n) /\ <<p, <<c, v>> >> \in PassWorks(n)
  BY <1>2 DEF PassWorks
<1>4. CASE b1 < b
  <2>1. <<b1, b>> \in Less
    BY <1>1, <1>4
  <2> QED BY <1>3, <2>1, LexFirst DEF WorkOrder
<1>5. CASE b1 = b /\ p1 < p
  <2>1. <<p1, p>> \in Less
    BY <1>1, <1>5
  <2>2. << <<p1, <<c1, v1>> >>, <<p, <<c, v>> >> >> \in PassOrder(n)
    BY <1>2, <2>1, LexFirst DEF PassOrder
  <2> QED BY <1>3, <1>5, <2>2, LexSecond DEF WorkOrder
<1>6. ASSUME b1 = b, p1 = p, << <<c1, v1>>, <<c, v>> >> \in ClauseOrder(n)
      PROVE  << <<b1, <<p1, <<c1, v1>> >> >>, <<b, <<p, <<c, v>> >> >> >> \in WorkOrder(n)
  <2>1. << <<p1, <<c1, v1>> >>, <<p, <<c, v>> >> >> \in PassOrder(n)
    BY <1>2, <1>6, LexSecond DEF PassOrder
  <2> QED BY <1>3, <1>6, <2>1, LexSecond DEF WorkOrder
<1>7. CASE b1 = b /\ p1 = p /\ c1 < c
  <2>1. <<c1, c>> \in Less
    BY <1>1, <1>7
  <2>2. << <<c1, v1>>, <<c, v>> >> \in ClauseOrder(n)
    BY <2>1, LexFirst DEF ClauseOrder
  <2> QED BY <1>6, <1>7, <2>2
<1>8. CASE b1 = b /\ p1 = p /\ c1 = c /\ <<v1, v>> \in SolveOrder(n)
  <2>1. << <<c1, v1>>, <<c, v>> >> \in ClauseOrder(n)
    BY <1>8, LexSecond DEF ClauseOrder
  <2> QED BY <1>6, <1>8, <2>1
<1> QED BY <1>4, <1>5, <1>7, <1>8

(* What is stored, derived and still to be advanced is finite.             *)
Finite ==
  IsFiniteSet(facts) /\ IsFiniteSet(derived) /\ IsFiniteSet(todo) /\ pass <= PassLimit

LEMMA ImageFinite ==
  ASSUME NEW S, IsFiniteSet(S), NEW f, S = DOMAIN f PROVE IsFiniteSet({f[x] : x \in S})
<1> DEFINE T == {f[x] : x \in S}
           g == [x \in S |-> f[x]]
<1>1. g \in Surjection(S, T)
  BY DEF Surjection
<1> HIDE DEF g, T
<1>2. IsFiniteSet(T)
  BY <1>1, FS_Surjection
<1> QED BY <1>2 DEF T

LEMMA ReplaceFinite ==
  ASSUME Finite, NEW s, NEW next, IsFiniteSet(next), Replace(s, next)
  PROVE  IsFiniteSet(todo')
<1>1. todo' = (todo \ {s}) \cup next
  BY DEF Replace
<1>2. IsFiniteSet(todo \ {s})
  BY FS_RemoveElement DEF Finite
<1> QED BY <1>1, <1>2, FS_Union

(* A step of the search retires a partial solution; those that take its    *)
(* place have passed one literal more.                                     *)
Advances(s, next) ==
  /\ Replace(s, next) /\ IsFiniteSet(next)
  /\ Complete(s) => next = {}
  /\ \A t \in next : t.k = s.k + 1

LEMMA AdvanceReplaces ==
  ASSUME IInv, Finite, NEW s \in todo, Advance(s), ~ AdapterFails(s)
  PROVE  /\ \E next : Advances(s, next)
         /\ UNCHANGED <<program, facts, phase, clause, pass>> /\ IsFiniteSet(derived')
<1>1. s \in Solution
  BY DEF IInv, TypeOK
<1>2. IsFiniteSet({})
  BY FS_EmptySet
<1>3. CASE MatchLiteral(s)
  <2> DEFINE f == [x \in Found(s) |-> Extend(s, x.atom, x.id)]
             next == {Extend(s, x.atom, x.id) : x \in Found(s)}
  <2>1. IsFiniteSet(Found(s))
    <3>1. Found(s) \in SUBSET facts
      BY DEF Found, FactsMatching
    <3> QED BY <3>1, FS_Subset DEF Finite
  <2>2. next = {f[x] : x \in Found(s)} /\ DOMAIN f = Found(s)
    OBVIOUS
  <2>3. IsFiniteSet(next)
    <3> HIDE DEF f
    <3>1. IsFiniteSet({f[x] : x \in Found(s)})
      BY <2>1, <2>2, ImageFinite
    <3> QED BY <2>2, <3>1
  <2>4. \A t \in next : t.k = s.k + 1
    BY DEF Extend
  <2>5. Replace(s, next) /\ ~ Complete(s)
    BY <1>3 DEF MatchLiteral
  <2>6. UNCHANGED <<program, facts, phase, clause, pass, derived>>
    BY <1>3 DEF MatchLiteral, store
  <2> HIDE DEF next, f
  <2> QED BY <2>3, <2>4, <2>5, <2>6 DEF Advances, Finite
<1>4. CASE NegateLiteral(s)
  <2> DEFINE next == IF Survives(s) THEN {Skip(s)} ELSE {}
  <2>1. IsFiniteSet(next)
    BY <1>2, FS_Singleton
  <2>2. \A t \in next : t.k = s.k + 1
    BY <1>1 DEF Skip, Solution
  <2>3. Replace(s, next) /\ ~ Complete(s)
    BY <1>4 DEF NegateLiteral
  <2>4. UNCHANGED <<program, facts, phase, clause, pass, derived>>
    BY <1>4 DEF NegateLiteral, store
  <2> HIDE DEF next
  <2> QED BY <2>1, <2>2, <2>3, <2>4 DEF Advances, Finite
<1>5. CASE InvokeAdapter(s)
  <2>1. PICK reply \in Replies(s) :
          Replace(s, {Extend(s, ToolAtom(LiteralOf(s), reply[i]), ToolId(i)) : i \in DOMAIN reply})
    BY <1>5 DEF InvokeAdapter
  <2> DEFINE f == [i \in DOMAIN reply |-> Extend(s, ToolAtom(LiteralOf(s), reply[i]), ToolId(i))]
             next == {Extend(s, ToolAtom(LiteralOf(s), reply[i]), ToolId(i)) : i \in DOMAIN reply}
  <2>2. PICK m \in 0..MaxTuples : reply \in [1..m -> {t \in AdapterTuples : Accepts(s, t)}]
    BY DEF Replies
  <2>3. IsFiniteSet(DOMAIN reply)
    <3>1. DOMAIN reply = 1..m /\ 1 \in Int /\ m \in Int
      BY <2>2, EngineAssumption
    <3> QED BY <3>1, FS_Interval
  <2>4. next = {f[i] : i \in DOMAIN reply} /\ DOMAIN f = DOMAIN reply
    OBVIOUS
  <2>5. IsFiniteSet(next)
    <3> HIDE DEF f
    <3>1. IsFiniteSet({f[i] : i \in DOMAIN reply})
      BY <2>3, <2>4, ImageFinite
    <3> QED BY <2>4, <3>1
  <2>6. \A t \in next : t.k = s.k + 1
    BY DEF Extend
  <2>7. ~ Complete(s) /\ UNCHANGED <<program, facts, phase, clause, pass, derived>>
    BY <1>5 DEF InvokeAdapter
  <2> HIDE DEF next, f
  <2> QED BY <2>1, <2>5, <2>6, <2>7 DEF Advances, Finite, next
<1>6. CASE Derive(s)
  <2>1. Replace(s, {}) /\ UNCHANGED <<program, facts, phase, clause, pass>>
    BY <1>6 DEF Derive
  <2>2. IsFiniteSet(derived')
    <3>1. \/ derived' = derived
          \/ \E x : derived' = derived \cup {x}
      BY <1>6 DEF Derive
    <3> QED BY <3>1, FS_AddElement DEF Finite
  <2> QED BY <1>2, <2>1, <2>2 DEF Advances
<1>7. CASE Answer(s)
  <2>1. Replace(s, {}) /\ UNCHANGED <<program, facts, phase, clause, pass, derived>>
    BY <1>7 DEF Answer, store
  <2> QED BY <1>2, <2>1 DEF Advances, Finite
<1> QED BY <1>3, <1>4, <1>5, <1>6, <1>7 DEF Advance

LEMMA NextFinite ==
  ASSUME IInv, Finite, [Next]_vars PROVE Finite'
<1>1. CASE Solving /\ \E s \in todo : Advance(s)
  <2>1. PICK s \in todo : Advance(s)
    BY <1>1
  <2>2. CASE AdapterFails(s)
    BY <2>2, FS_EmptySet DEF AdapterFails, store, Finite
  <2>3. CASE ~ AdapterFails(s)
    <3>1. PICK next : Advances(s, next)
      BY <2>1, <2>3, AdvanceReplaces
    <3>2. IsFiniteSet(todo')
      BY <3>1, ReplaceFinite DEF Advances
    <3>3. UNCHANGED <<facts, pass>> /\ IsFiniteSet(derived')
      BY <2>1, <2>3, AdvanceReplaces
    <3> QED BY <3>2, <3>3 DEF Finite
  <2> QED BY <2>2, <2>3
<1>2. CASE NextClause
  BY <1>2, FS_Singleton DEF NextClause, store, Finite
<1>3. CASE EndPass
  <2>1. IsFiniteSet(Fresh)
    <3>1. Fresh \in SUBSET derived
      BY DEF Fresh
    <3> QED BY <3>1, FS_Subset DEF Finite
  <2>2. IsFiniteSet(facts') /\ IsFiniteSet(derived') /\ todo' = todo
    BY <1>3, <2>1, FS_Union, FS_EmptySet DEF EndPass, Finite
  <2>3. pass' <= PassLimit
    BY <1>3, EngineAssumption DEF EndPass, Finite, IInv, TypeOK
  <2> QED BY <2>2, <2>3 DEF Finite
<1>4. CASE EndQuery
  BY <1>4 DEF EndQuery, store, Finite
<1>5. CASE StartFixpoint
  BY <1>5, EngineAssumption DEF StartFixpoint, store, Finite
<1>6. CASE \E atom \in Importable : Import(atom)
  <2>1. PICK atom \in Importable : Import(atom)
    BY <1>6
  <2>2. facts' = facts \/ \E x : facts' = facts \cup {x}
    BY <2>1 DEF Import, AddFact
  <2>3. IsFiniteSet(facts')
    BY <2>2, FS_AddElement DEF Finite
  <2> QED BY <2>1, <2>3 DEF Import, Finite
<1>7. CASE \E g \in Goals : Query(g)
  BY <1>7, FS_Singleton DEF Query, store, Finite
<1>8. CASE UNCHANGED vars
  BY <1>8 DEF vars, Finite
<1> QED BY <1>1, <1>2, <1>3, <1>4, <1>5, <1>6, <1>7, <1>8 DEF Next, Evaluate

LEMMA WorkTyped ==
  ASSUME NEW n \in Nat, IInv, Finite
  PROVE  /\ Busy \in Nat /\ PassLimit - pass \in Nat /\ Len(program) - clause \in Nat
         /\ ToSolve(n) \in Solves(n)
         /\ Len(program) \in Nat /\ clause \in Nat /\ pass \in Nat /\ PassLimit \in Nat
<1>1. pass \in Nat /\ PassLimit \in Nat /\ pass <= PassLimit
  BY EngineAssumption DEF IInv, TypeOK, Finite
<1>2. Len(program) \in Nat /\ clause \in 0..Len(program)
  <2>1. program \in Seq(Clause)
    BY EngineAssumption DEF IInv, TypeOK
  <2> QED BY <2>1 DEF IInv, TypeOK
<1>3. ASSUME NEW k \in 1..(n + 1) PROVE Cardinality(At(n, k)) \in Nat
  <2>1. At(n, k) \in SUBSET todo
    BY DEF At
  <2>2. IsFiniteSet(At(n, k))
    BY <2>1, FS_Subset DEF Finite
  <2> QED BY <2>2, FS_CardinalityType
<1> QED BY <1>1, <1>2, <1>3 DEF Busy, ToSolve, Solves

(* The step of the search, counted.                                        *)
LEMMA AdvanceCounts ==
  ASSUME NEW n \in Nat, BodiesWithin(n), IInv, IInv', Finite, Finite', NEW s \in todo, NEW next, Advances(s, next)
  PROVE  <<ToSolve(n)', ToSolve(n)>> \in SolveOrder(n)
<1> DEFINE p == Place(n, s)
           u == ToSolve(n)'
           v == ToSolve(n)
<1>1. s.k \in Nat /\ s.k >= 1 /\ p \in 1..(n + 1) /\ n + 1 \in Nat
  BY DEF IInv, TypeOK, Solution, Shape, Place
<1>2. todo' = (todo \ {s}) \cup next
  BY DEF Advances, Replace
<1>3. \A t \in next : Place(n, t) > p
  <2> SUFFICES ASSUME NEW t \in next PROVE Place(n, t) > p
    OBVIOUS
  <2>1. ~ Complete(s) /\ t.k = s.k + 1
    BY DEF Advances
  <2>2. Len(Body) \in Nat /\ Len(Body) <= n
    <3>1. Body \in Seq(Literal)
      BY BodyType
    <3>2. CASE phase = "query"
      <4>1. Body = <<[neg |-> FALSE, atom |-> goal]>>
        BY <3>2 DEF Body
      <4>2. Len(Body) = 1
        BY <4>1
      <4> QED BY <4>2 DEF BodiesWithin
    <3>3. CASE phase # "query"
      <4>1. clause \in DOMAIN program
        <5>1. program \in Seq(Clause)
          BY EngineAssumption DEF IInv, TypeOK
        <5>2. clause \in 1..Len(program)
          BY <3>3 DEF IInv, Shape
        <5> QED BY <5>1, <5>2
      <4>2. Body = program[clause].body
        BY <3>3 DEF Body
      <4> QED BY <3>1, <4>1, <4>2 DEF BodiesWithin
    <3> QED BY <3>2, <3>3
  <2>3. s.k <= n
    BY <1>1, <2>1, <2>2 DEF Complete
  <2> QED BY <1>1, <2>1, <2>3 DEF Place
<1> HIDE DEF p
<1>4. ASSUME NEW k \in 1..(p - 1) PROVE u[k] = v[k]
  <2>1. At(n, k)' = At(n, k)
    <3>1. ASSUME NEW t PROVE t \in At(n, k)' <=> t \in At(n, k)
      <4>1. t \in next => Place(n, t) # k
        BY <1>1, <1>3
      <4>2. Place(n, s) # k
        BY <1>1 DEF p
      <4> QED BY <1>2, <4>1, <4>2 DEF At
    <3> QED BY <3>1 DEF At
  <2> QED BY <1>1, <2>1 DEF ToSolve
<1>5. <<u[p], v[p]>> \in Less
  <2>1. At(n, p)' = At(n, p) \ {s}
    <3>1. ASSUME NEW t PROVE t \in At(n, p)' <=> t \in At(n, p) \ {s}
      <4>1. t \in next => Place(n, t) # p
        BY <1>1, <1>3
      <4> QED BY <1>2, <4>1 DEF At
    <3> QED BY <3>1 DEF At
  <2>2. IsFiniteSet(At(n, p)) /\ s \in At(n, p)
    <3>1. At(n, p) \in SUBSET todo
      BY DEF At
    <3>2. IsFiniteSet(At(n, p))
      BY <3>1, FS_Subset DEF Finite
    <3> QED BY <3>2 DEF At, p
  <2>3. Cardinality(At(n, p) \ {s}) = Cardinality(At(n, p)) - 1 /\ Cardinality(At(n, p)) \in Nat
        /\ Cardinality(At(n, p) \ {s}) \in Nat
    <3>1. IsFiniteSet(At(n, p) \ {s}) /\ Cardinality(At(n, p) \ {s}) = Cardinality(At(n, p)) - 1
      BY <2>2, FS_RemoveElement
    <3> QED BY <2>2, <3>1, FS_CardinalityType
  <2>4. u[p] = Cardinality(At(n, p) \ {s}) /\ v[p] = Cardinality(At(n, p))
    BY <1>1, <2>1 DEF ToSolve
  <2> QED BY <2>3, <2>4 DEF Less, OpToRel
<1>6. u \in Solves(n) /\ v \in Solves(n)
  <2>1. v \in Solves(n)
    BY WorkTyped
  <2>2. ASSUME NEW k \in 1..(n + 1) PROVE Cardinality(At(n, k)') \in Nat
    <3>1. At(n, k)' \in SUBSET todo'
      BY DEF At
    <3>2. IsFiniteSet(At(n, k)')
      BY <3>1, FS_Subset DEF Finite
    <3> QED BY <3>2, FS_CardinalityType
  <2>3. u \in Solves(n)
    BY <2>2 DEF ToSolve, Solves
  <2> QED BY <2>1, <2>3
<1> HIDE DEF u, v
<1>7. u \in [1..(n + 1) -> Nat] /\ v \in [1..(n + 1) -> Nat]
  BY <1>6 DEF Solves
<1>8. <<u, v>> \in SolveOrder(n)
  BY <1>1, <1>4, <1>5, <1>7 DEF SolveOrder, LexProductOrdering
<1> QED BY <1>8 DEF u, v

LEMMA EvaluateDescends ==
  ASSUME NEW n \in Nat, BodiesWithin(n), IInv, IInv', Finite, Finite', Evaluate
  PROVE  WorkGoesDown(n)
<1> DEFINE b == Busy
           p == PassLimit - pass
           c == Len(program) - clause
           v == ToSolve(n)
           b1 == Busy'
           p1 == PassLimit - pass'
           c1 == Len(program') - clause'
           v1 == ToSolve(n)'
<1>1. /\ b \in Nat /\ p \in Nat /\ c \in Nat /\ v \in Solves(n)
      /\ Len(program) \in Nat /\ clause \in Nat /\ pass \in Nat /\ PassLimit \in Nat
  BY WorkTyped
<1>2. /\ b1 \in Nat /\ p1 \in Nat /\ c1 \in Nat /\ v1 \in Solves(n) /\ pass' \in Nat
  <2>1. pass' \in Nat /\ pass' <= PassLimit /\ PassLimit \in Nat
    BY EngineAssumption DEF IInv, TypeOK, Finite
  <2>2. Len(program') \in Nat /\ clause' \in 0..Len(program')
    <3>1. program' \in Seq(Clause)
      BY EngineAssumption DEF IInv, TypeOK
    <3> QED BY <3>1 DEF IInv, TypeOK
  <2>3. ASSUME NEW k \in 1..(n + 1) PROVE Cardinality(At(n, k)') \in Nat
    <3>1. At(n, k)' \in SUBSET todo'
      BY DEF At
    <3>2. IsFiniteSet(At(n, k)')
      BY <3>1, FS_Subset DEF Finite
    <3> QED BY <3>2, FS_CardinalityType
  <2>4. v1 \in Solves(n)
    BY <2>3 DEF ToSolve, Solves
  <2>5. b1 \in Nat
    BY DEF Busy
  <2>6. p1 \in Nat
    <3>1. \A i, j \in Nat : j <= i => i - j \in Nat
      OBVIOUS
    <3> QED BY <2>1, <3>1
  <2>7. c1 \in Nat
    BY <2>2
  <2> QED BY <2>1, <2>4, <2>5, <2>6, <2>7
<1>3. \/ b1 < b
      \/ b1 = b /\ p1 < p
      \/ b1 = b /\ p1 = p /\ c1 < c
      \/ b1 = b /\ p1 = p /\ c1 = c /\ <<v1, v>> \in SolveOrder(n)
  <2>1. CASE Solving /\ \E s \in todo : Advance(s)
    <3>1. PICK s \in todo : Advance(s)
      BY <2>1
    <3>2. CASE AdapterFails(s)
      <4>1. b1 = 0 /\ b = 1
        BY <2>1, <3>2 DEF Solving, AdapterFails, Busy
      <4> QED BY <4>1
    <3>3. CASE ~ AdapterFails(s)
      <4>1. PICK next : Advances(s, next)
        BY <3>1, <3>3, AdvanceReplaces
      <4>2. UNCHANGED <<program, phase, clause, pass>>
        BY <3>1, <3>3, AdvanceReplaces
      <4>3. <<v1, v>> \in SolveOrder(n)
        BY <3>1, <4>1, AdvanceCounts
      <4> QED BY <4>2, <4>3 DEF Busy
    <3> QED BY <3>2, <3>3
  <2>2. CASE NextClause
    <3>1. program' = program /\ phase' = phase /\ pass' = pass /\ clause' = clause + 1
      BY <2>2 DEF NextClause
    <3> QED BY <1>1, <3>1 DEF Busy
  <2>3. CASE EndPass
    <3>1. \/ phase' = phase /\ pass' = pass + 1
          \/ phase' = "idle" /\ phase = "pass"
      BY <2>3 DEF EndPass
    <3>2. CASE phase' = phase /\ pass' = pass + 1
      BY <1>1, <3>2 DEF Busy
    <3>3. CASE phase' = "idle" /\ phase = "pass"
      <4>1. b1 = 0 /\ b = 1
        BY <3>3 DEF Busy
      <4> QED BY <4>1
    <3> QED BY <3>1, <3>2, <3>3
  <2>4. CASE EndQuery
    <3>1. b1 = 0 /\ b = 1
      BY <2>4 DEF EndQuery, Busy
    <3> QED BY <3>1
  <2> QED BY <2>1, <2>2, <2>3, <2>4 DEF Evaluate
<1>4. WorkLeft(n)' = <<b1, <<p1, <<c1, v1>> >> >> /\ WorkLeft(n) = <<b, <<p, <<c, v>> >> >>
  BY DEF WorkLeft
<1> HIDE DEF b, p, c, v, b1, p1, c1, v1
<1>5. << <<b1, <<p1, <<c1, v1>> >> >>, <<b, <<p, <<c, v>> >> >> >> \in WorkOrder(n)
  BY <1>1, <1>2, <1>3, WorkLess
<1> QED BY <1>4, <1>5 DEF WorkGoesDown

(* eval.c 346-515: a run or a query ends by itself. Whatever the program,  *)
(* the facts and the replies of adapters, each of its steps is one down in *)
(* an order without infinite descent. Passes count down to their limit.    *)
THEOREM EvaluationDescends ==
  \A n \in Nat : /\ IsWellFoundedOn(WorkOrder(n), Works(n))
                 /\ Spec => [](WorkLeft(n) \in Works(n))
                 /\ Spec => [][BodiesWithin(n) /\ Evaluate => WorkGoesDown(n)]_vars
<1> SUFFICES ASSUME NEW n \in Nat
             PROVE  /\ IsWellFoundedOn(WorkOrder(n), Works(n))
                    /\ Spec => [](WorkLeft(n) \in Works(n))
                    /\ Spec => [][BodiesWithin(n) /\ Evaluate => WorkGoesDown(n)]_vars
  OBVIOUS
<1>1. IsWellFoundedOn(WorkOrder(n), Works(n))
  BY WorkOrderWellFounded
<1>2. Init => Finite
  BY FS_EmptySet, EngineAssumption DEF Init, Finite
<1>3. IInv /\ Finite /\ [Next]_vars => Finite'
  BY NextFinite
<1> DEFINE Typed == WorkLeft(n) \in Works(n)
           Down == BodiesWithin(n) /\ Evaluate => WorkGoesDown(n)
<1>4. IInv /\ Finite => Typed
  BY WorkTyped DEF WorkLeft, Works, PassWorks, ClauseWorks
<1>5. IInv /\ IInv' /\ Finite /\ Finite' => Down
  BY EvaluateDescends
<1> HIDE DEF Typed, Down
<1>6. IInv /\ IInv' /\ Finite /\ Finite' => [Down]_vars
  BY <1>5
<1>7. Spec => []Finite
  BY <1>2, <1>3, Inductive, PTL DEF Spec
<1>8. Spec => []Typed
  BY <1>4, <1>7, Inductive, PTL
<1>9. Spec => [][Down]_vars
  BY <1>6, <1>7, Inductive, PTL
<1> QED BY <1>1, <1>8, <1>9 DEF Typed, Down
=============================================================================
