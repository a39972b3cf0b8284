------------------------------ MODULE Evidence ------------------------------
(***************************************************************************)
(* What the atoms an engine stores, the nodes of its trace and the answers *)
(* it gives stand for: properties of Engine that relate its variables to   *)
(* the clauses and to the abstract specification Derivation.               *)
(***************************************************************************)
EXTENDS Engine, FiniteSets

Given(atom) == [head |-> atom, body |-> <<>>]

-----------------------------------------------------------------------------
(* The trace as a proof                                                    *)

(* The position in a premise list of the premise for literal j.            *)
Rank(cl, j) == Cardinality({i \in Positive(cl) : i <= j})

(* Node id answers literal under env: a capability literal rests on an     *)
(* adapter's node, any other on the node of a stored, valid atom.          *)
Answers(id, literal, env) ==
  LET fact == trace[id].fact IN
  /\ Unifies(env, literal.atom, fact, TRUE)
  /\ IF IsCapability(literal) THEN trace[id].kind = "capability"
     ELSE /\ [atom |-> fact, id |-> id] \in facts
          /\ ValidNow(fact, now) /\ TagMatches(literal.atom, fact)
          /\ fact.kind = "says" =>
               SpeaksAs(fact, literal.atom.who, fact.pred, Stored, now)

(* Node n is the instance of a clause that its premises, the earlier nodes *)
(* of what answered the positive literals, in their order, give.           *)
ByClause(n) ==
  LET node == trace[n]
      cl == program[node.rule]
  IN  /\ node.rule \in DOMAIN program
      /\ node.kind = IF cl.head.kind = "speaks" THEN "delegation"
                     ELSE IF cl.body = <<>> THEN "fact" ELSE "rule"
      /\ Len(node.prem) = Cardinality(Positive(cl))
      /\ \A j \in DOMAIN node.prem : node.prem[j] \in 1..(n - 1)
      /\ \E env \in [ClauseVariables(cl) -> Constants] :
           /\ Instantiate(cl.head, env) = node.fact
           /\ \A j \in Positive(cl) : Answers(node.prem[Rank(cl, j)], cl.body[j], env)

ByAdapter(n) ==
  trace[n].kind = "capability" /\ trace[n].prem = <<>> /\ trace[n].fact.pred \in Capabilities
ByImport(n) ==
  trace[n].kind = "fact" /\ trace[n].prem = <<>> /\ trace[n].fact \in imported

(* Every trace node is a step of a proof, which reads back to the facts of *)
(* the program, imported answers and adapters: the node of a derived atom  *)
(* is an instance of its clause, with a premise for each positive literal  *)
(* and no other, and what the premises cite answers the literals still.    *)
TraceIsAProof == \A n \in DOMAIN trace : ByClause(n) \/ ByAdapter(n) \/ ByImport(n)

(* An answer of a query reads as the goal does, and the node it cites is   *)
(* about an atom that is valid now, about the same relation and terms, and *)
(* said by the goal's principal or by one who may speak for it.            *)
Backed(a) ==
  LET fact == trace[a.id].fact IN
  /\ ValidNow(fact, now)
  /\ fact.kind = a.atom.kind /\ Args(fact) = Args(a.atom)
  /\ goal.kind # "speaks" => a.atom.tag = goal.tag /\ fact.pred = goal.pred
  /\ goal.kind = "speaks" => a.atom = goal /\ fact.who = goal.who /\ fact.to = goal.to
  /\ goal.kind = "says" => SpeaksAs(fact, goal.who, goal.pred, Stored, now)
AnswersBacked == \A a \in answers : Backed(a)

-----------------------------------------------------------------------------
(* The stored atoms                                                        *)

(* Every stored atom was a consequence of atoms stored before it, or was   *)
(* imported: the passes, the buffering of derived facts and the merge      *)
(* store nothing else.                                                     *)
Abstract == INSTANCE Derivation WITH known <- Stored
SoundDerivation == Abstract!Spec

(* Every literal of cl holds under env, the positive ones of the atoms in  *)
(* M, the negated ones of those in N.                                      *)
Fires(cl, env, M, N) ==
  \A i \in DOMAIN cl.body :
    Holds(env, cl.body[i], IF cl.body[i].neg THEN N ELSE M, AdapterTuples, now)

(* What the clauses yield from M when negation is read against N.          *)
Yields(M, N) ==
  UNION {{Instantiate(program[c].head, env) :
            env \in {e \in [ClauseVariables(program[c]) -> Constants] :
                       Fires(program[c], e, M, N)}} :
           c \in DOMAIN program}

Closed(M, N) == imported \subseteq M /\ Yields(M, N) \subseteq M

(* What is stored is the stable model of the program and of the imported   *)
(* atoms, which is the perfect one if the program is stratified: with the  *)
(* negated literals read against it, it is the least closed set of atoms.  *)
StoresStableModel ==
  /\ Closed(Stored, Stored)
  /\ \A M \in SUBSET Stored : Closed(M, Stored) => M = Stored

(* Atoms of one kind about one relation.                                   *)
SameKey(atom, other) ==
  atom.kind = other.kind /\ (atom.kind # "speaks" => atom.pred = other.pred)

(* Negation over given facts only, tested once its variables are bound and *)
(* behind a literal no atom can answer before the first pass has ended.    *)
NegatesGivenFacts ==
  \A c \in DOMAIN program : \A i \in DOMAIN program[c].body :
    LET literal == program[c].body[i]
        before == Positive(program[c]) \cap 1..(i - 1)
    IN  literal.neg =>
          /\ \A d \in DOMAIN program :
               SameKey(program[d].head, literal.atom) => program[d].body = <<>>
          /\ \A atom \in imported : ~ SameKey(atom, literal.atom)
          /\ VariablesOf(literal.atom) \subseteq
               UNION {VariablesOf(program[c].body[j].atom) : j \in before}
          /\ \E j \in before : ~ IsCapability(program[c].body[j])

(* Adapters may reply with less than they could.                           *)
UsesNoTool == \A c \in DOMAIN program : \A i \in DOMAIN program[c].body :
                ~ IsCapability(program[c].body[i])

Settled == phase = "idle" /\ settled

(* When a run ends because a pass stored nothing, exactly the model of the *)
(* program and the imported answers is stored, if negation is used over    *)
(* given facts only and no adapter is asked: nothing is missed by the      *)
(* pass-by-pass evaluation, by delegation or by importing between runs,    *)
(* and nothing is stored that only supports itself.                        *)
ExactModel == Settled /\ NegatesGivenFacts /\ UsesNoTool => StoresStableModel

(* README.md promises stratified negation: the same for every stratified   *)
(* program.                                                                *)
StratifiedNegation == Settled => StoresStableModel
=============================================================================
