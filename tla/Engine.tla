------------------------------- MODULE Engine -------------------------------
(***************************************************************************)
(* One evaluator (src/engine/eval.c): the program loaded into it, the      *)
(* stored facts, the trace, and a fixpoint run or a query in progress.     *)
(*                                                                         *)
(* The evaluator is single-threaded. What it explores depth first, in the  *)
(* order facts are stored, is here a set todo of partial solutions of one  *)
(* clause body from which any may be advanced next: facts do not change    *)
(* while clauses are evaluated, so the order only decides in which order   *)
(* the same nodes are appended to the trace, and the code's order is one   *)
(* of those modelled. Trace ids are 1-based: id i stands for the code's    *)
(* i - 1. Allocation failures are left out.                                *)
(***************************************************************************)
EXTENDS Datalog

CONSTANTS
  Programs,        \* programs an engine may have loaded: sequences of clauses
  Clocks,          \* values of engine->now, which is set once at init
  Importable,      \* answers of certificates handed to import_answers
  Goals,           \* goals handed to etb_engine_query
  AdapterTuples,   \* tuples a capability adapter may reply with
  MaxTuples,       \* bound: tuples in one reply
  AdapterMayFail,  \* whether an adapter call may fail
  PassLimit,       \* 64 in the code: passes of one fixpoint run
  MaxRuns,         \* bound: fixpoint runs of one engine
  MaxImports,      \* bound: answers imported into one engine
  MaxQueries       \* bound: queries put to one engine

ASSUME EngineAssumption ==
  /\ Programs \subseteq Seq(Clause)
  /\ Clocks \subseteq Nat
  /\ Importable \subseteq GroundAtom
  /\ Goals \subseteq Atom(Constants \cup Variables)
  /\ AdapterTuples \subseteq Seq(Constants)
  /\ MaxTuples \in Nat
  /\ AdapterMayFail \in BOOLEAN
  /\ PassLimit \in Nat \ {0}
  /\ MaxRuns \in Nat /\ MaxImports \in Nat /\ MaxQueries \in Nat

VARIABLES
  program,    \* engine->program
  now,        \* engine->now
  facts,      \* engine->relations: stored atoms, each with its trace id
  trace,      \* engine->trace
  phase,      \* what the evaluator is doing
  clause,     \* index of the clause being evaluated, 0 before the first
  todo,       \* partial solutions of its body still to be advanced
  derived,    \* facts derived in this pass, not stored yet
  pass,       \* passes started by this fixpoint run (pass_guard)
  goal,       \* the atom last queried
  answers,    \* its answers so far
  settled,    \* history: nothing was stored since a pass that changed nothing
  imported,   \* history: atoms imported
  runs, imports, queries  \* history: how often, for the bounds

store == <<facts, trace, derived>>
history == <<imported, runs, imports, queries>>
vars == <<program, now, facts, trace, phase, clause, todo, derived, pass, goal,
          answers, settled, imported, runs, imports, queries>>

Phases == {"idle", "pass", "query", "failed"}
NodeKinds == {"fact", "rule", "capability", "delegation"}
Node == [kind : NodeKinds, rule : Nat, fact : GroundAtom, prem : Seq(Nat)]
Fact == [atom : GroundAtom, id : Nat]
Solution == [k : Nat, env : Env, prem : Seq(Nat)]

NoGoal == [kind |-> "none"]

Atoms(fs) == {f.atom : f \in fs}
Stored == Atoms(facts)

(* The body being solved: a clause's, or the goal as its only literal.     *)
Body == IF phase = "query" THEN <<[neg |-> FALSE, atom |-> goal]>>
        ELSE program[clause].body

Start == [k |-> 1, env |-> EmptyEnv, prem |-> <<>>]
Complete(s) == s.k > Len(Body)
LiteralOf(s) == Body[s.k]

Solving == phase \in {"pass", "query"} /\ todo # {}

-----------------------------------------------------------------------------
(* Retiring s and putting what it was advanced to in its place.            *)
Replace(s, next) == todo' = (todo \ {s}) \cup next

(* The premises of a solution with one more. Slip: only the last is kept.  *)
PushPremiseLosing(prem, id) == <<id>>
PushPremise(prem, id) == Append(prem, id)

(* s advanced over its literal, answered by atom with trace node id.       *)
Extend(s, atom, id) ==
  [k |-> s.k + 1,
   env |-> Bind(s.env, LiteralOf(s).atom, atom),
   prem |-> PushPremise(s.prem, id)]

(* s past a literal that needs no premise. Slip: it stays where it is.     *)
SkipNowhere(s) == s
Skip(s) == [s EXCEPT !.k = @ + 1]

(* etb_match_literal on a positive literal over stored atoms: one new      *)
(* partial solution for each fact matched. Slip: for the first one only.   *)
FactsMatching(s) ==
  LET matching == Matches(s.env, LiteralOf(s).atom, Stored, now)
  IN  {f \in facts : f.atom \in matching}
FirstMatching(s) == {f \in FactsMatching(s) : \A g \in FactsMatching(s) : f.id <= g.id}
Found(s) == FactsMatching(s)

MatchLiteral(s) ==
  /\ ~ Complete(s) /\ ~ LiteralOf(s).neg /\ ~ IsCapability(LiteralOf(s))
  /\ Replace(s, {Extend(s, f.atom, f.id) : f \in Found(s)})
  /\ UNCHANGED <<program, now, store, phase, clause, pass, goal, answers,
                 settled, history>>

(* etb_match_literal on a negated literal: tested with the bindings made   *)
(* so far, against the atoms stored so far. Slip: not tested at all.       *)
SurvivesUntested(s) == TRUE
Survives(s) == ~ Refuted(s.env, LiteralOf(s).atom, Stored, now)

NegateLiteral(s) ==
  /\ ~ Complete(s) /\ LiteralOf(s).neg
  /\ Replace(s, IF Survives(s) THEN {Skip(s)} ELSE {})
  /\ UNCHANGED <<program, now, store, phase, clause, pass, goal, answers,
                 settled, history>>

(* etb_try_capability: one adapter call. Of the tuples replied, those that *)
(* unify with the literal get a trace node each and carry s on; the others *)
(* have no effect and are left out of reply here. Slips: tuples carried on *)
(* unchecked, and ids counted from before the first node.                  *)
ToolAtom(literal, tuple) ==
  [kind |-> "pred", pred |-> literal.atom.pred, args |-> tuple, tag |-> NoTag]

AcceptsAny(s, tuple) == TRUE
Accepts(s, tuple) ==
  Unifies(s.env, LiteralOf(s).atom, ToolAtom(LiteralOf(s), tuple), FALSE)

Replies(s) == UNION {[1..n -> {t \in AdapterTuples : Accepts(s, t)}] : n \in 0..MaxTuples}

ToolIdBefore(i) == Len(trace) + i - 1
ToolId(i) == Len(trace) + i

InvokeAdapter(s) ==
  /\ ~ Complete(s) /\ IsCapability(LiteralOf(s))
  /\ \E reply \in Replies(s) :
       /\ trace' = trace \o
            [i \in DOMAIN reply |->
               [kind |-> "capability", rule |-> 0,
                fact |-> ToolAtom(LiteralOf(s), reply[i]), prem |-> <<>>]]
       /\ Replace(s, {Extend(s, ToolAtom(LiteralOf(s), reply[i]), ToolId(i)) :
                        i \in DOMAIN reply})
  /\ UNCHANGED <<program, now, facts, derived, phase, clause, pass, goal,
                 answers, settled, history>>

(* The adapter cannot be spawned, exits with an error or replies garbage:  *)
(* the whole run or query returns false, and its caller frees the engine.  *)
AdapterFails(s) ==
  /\ AdapterMayFail
  /\ ~ Complete(s) /\ IsCapability(LiteralOf(s))
  /\ phase' = "failed"
  /\ todo' = {}
  /\ UNCHANGED <<program, now, store, clause, pass, goal, answers, settled,
                 history>>

(* The end of a body (etb_evaluate_clause_body): the head is instantiated, *)
(* and unless it is stored already it gets a trace node and joins derived, *)
(* even if the same atom was derived earlier in this pass.                 *)
HeadNode(s) ==
  LET head == program[clause].head IN
  [kind |-> IF head.kind = "speaks" THEN "delegation"
            ELSE IF program[clause].body = <<>> THEN "fact" ELSE "rule",
   rule |-> clause,
   fact |-> Instantiate(head, s.env),
   prem |-> s.prem]

Derive(s) ==
  /\ phase = "pass" /\ Complete(s)
  /\ Replace(s, {})
  /\ LET node == HeadNode(s) IN
     IF IsGround(node.fact) /\ node.fact \notin Stored
     THEN /\ trace' = Append(trace, node)
          /\ derived' = derived \cup {[atom |-> node.fact, id |-> Len(trace) + 1]}
     ELSE UNCHANGED <<trace, derived>>
  /\ UNCHANGED <<program, now, facts, phase, clause, pass, goal, answers,
                 settled, history>>

(* A solution of the goal (etb_engine_query): the goal, not the matched    *)
(* fact, is instantiated, and the node of the fact is the answer's id.     *)
Answer(s) ==
  /\ phase = "query" /\ Complete(s)
  /\ Replace(s, {})
  /\ answers' = answers \cup
       {[atom |-> Instantiate(goal, s.env), id |-> s.prem[Len(s.prem)]]}
  /\ UNCHANGED <<program, now, store, phase, clause, pass, goal, settled, history>>

-----------------------------------------------------------------------------
(* The head of etb_engine_run_fixpoint.                                    *)
StartFixpoint ==
  /\ phase = "idle" /\ runs < MaxRuns
  /\ runs' = runs + 1
  /\ IF Validates(program)
     THEN phase' = "pass" /\ pass' = 1 /\ clause' = 0
     ELSE phase' = "failed" /\ UNCHANGED <<pass, clause>>
  /\ UNCHANGED <<program, now, store, todo, goal, answers, settled, imported,
                 imports, queries>>

(* Slip: the loop over the clauses runs one too far.                       *)
MoreClausesTooFar == clause <= Len(program)
MoreClauses == clause < Len(program)

NextClause ==
  /\ phase = "pass" /\ todo = {} /\ MoreClauses
  /\ clause' = clause + 1
  /\ todo' = {Start}
  /\ UNCHANGED <<program, now, store, phase, pass, goal, answers, settled, history>>

(* The merge at the end of a pass: of the facts derived with one atom the  *)
(* first is stored, unless the atom is stored already.                     *)
Fresh == {f \in derived : /\ f.atom \notin Stored
                          /\ \A g \in derived : g.atom = f.atom => f.id <= g.id}

(* The end of a pass: another one follows if something was stored and the  *)
(* limit allows; the run succeeds either way.                              *)
EndPass ==
  /\ phase = "pass" /\ todo = {} /\ clause = Len(program)
  /\ facts' = facts \cup Fresh
  /\ derived' = {}
  /\ clause' = 0
  /\ IF Fresh # {} /\ pass < PassLimit
     THEN pass' = pass + 1 /\ UNCHANGED phase
     ELSE phase' = "idle" /\ UNCHANGED pass
  /\ settled' = (Fresh = {})
  /\ UNCHANGED <<program, now, trace, todo, goal, answers, history>>

(* etb_relation_set_add_fact: an atom stored already keeps its entry.      *)
(* Slips: no look at what is stored, and an entry re-pointed.              *)
AddFactUnseen(atom, id) == facts \cup {[atom |-> atom, id |-> id]}
AddFactReplacing(atom, id) ==
  {f \in facts : f.atom # atom} \cup {[atom |-> atom, id |-> id]}
AddFact(atom, id) ==
  IF atom \in Stored THEN facts ELSE facts \cup {[atom |-> atom, id |-> id]}

(* etb_engine_import_answers, for one answer: it always gets a trace node, *)
(* whether or not it is stored under it. The callers import and query only *)
(* after a first fixpoint run.                                             *)
Import(atom) ==
  /\ phase = "idle" /\ runs > 0 /\ imports < MaxImports
  /\ imports' = imports + 1
  /\ trace' = Append(trace, [kind |-> "fact", rule |-> 0, fact |-> atom, prem |-> <<>>])
  /\ facts' = AddFact(atom, Len(trace) + 1)
  /\ imported' = imported \cup {atom}
  /\ settled' = (settled /\ atom \in Stored)
  /\ UNCHANGED <<program, now, phase, clause, todo, derived, pass, goal, answers,
                 runs, queries>>

Query(g) ==
  /\ phase = "idle" /\ runs > 0 /\ queries < MaxQueries
  /\ queries' = queries + 1
  /\ phase' = "query"
  /\ goal' = g
  /\ answers' = {}
  /\ todo' = {Start}
  /\ UNCHANGED <<program, now, store, clause, pass, settled, imported, runs, imports>>

EndQuery ==
  /\ phase = "query" /\ todo = {}
  /\ phase' = "idle"
  /\ UNCHANGED <<program, now, store, clause, todo, pass, goal, answers, settled,
                 history>>

-----------------------------------------------------------------------------
Init ==
  /\ program \in Programs
  /\ now \in Clocks
  /\ facts = {} /\ trace = <<>> /\ derived = {}
  /\ phase = "idle" /\ clause = 0 /\ todo = {} /\ pass = 0
  /\ goal = NoGoal /\ answers = {}
  /\ settled = FALSE /\ imported = {}
  /\ runs = 0 /\ imports = 0 /\ queries = 0

Advance(s) == \/ MatchLiteral(s) \/ NegateLiteral(s)
              \/ InvokeAdapter(s) \/ AdapterFails(s)
              \/ Derive(s) \/ Answer(s)

Evaluate == \/ Solving /\ \E s \in todo : Advance(s)
            \/ NextClause \/ EndPass \/ EndQuery

Next == \/ Evaluate
        \/ StartFixpoint
        \/ \E atom \in Importable : Import(atom)
        \/ \E g \in Goals : Query(g)

(* The evaluator never waits on its own account: a run or query in         *)
(* progress continues. Its callers promise nothing.                        *)
Spec == Init /\ [][Next]_vars
FairSpec == Spec /\ WF_vars(Evaluate)

-----------------------------------------------------------------------------
(* The values the variables hold, part by part.                            *)
TypeOK ==
  /\ program \in Programs /\ now \in Clocks
  /\ facts \subseteq Fact /\ derived \subseteq Fact
  /\ trace \in Seq(Node)
  /\ phase \in Phases
  /\ clause \in 0..Len(program)
  /\ todo \subseteq Solution
  /\ pass \in Nat
  /\ goal \in Goals \cup {NoGoal}
  /\ answers \subseteq [atom : Atom(Constants \cup Variables), id : Nat]
  /\ settled \in BOOLEAN
  /\ imported \subseteq Importable
  /\ runs \in Nat /\ imports \in Nat /\ queries \in Nat

(* A stored or newly derived fact points at a trace node about the same    *)
(* atom, and an atom is stored once, however often it is derived or        *)
(* imported: the id of an atom is one premise everyone can cite.           *)
FactsSupported ==
  /\ \A f \in facts \cup derived : f.id \in DOMAIN trace /\ trace[f.id].fact = f.atom
  /\ \A f, g \in facts : f.atom = g.atom => f = g

(* What a certificate or a premise list cites stays what it was: facts are *)
(* never dropped or given another trace id, nodes never change.            *)
EvidenceIsStable ==
  [][/\ facts \subseteq facts'
     /\ Len(trace) <= Len(trace')
     /\ \A i \in DOMAIN trace : trace'[i] = trace[i]]_vars
=============================================================================
