-------------------------------- MODULE Query --------------------------------
(***************************************************************************)
(* A query answered by several nodes (src/runtime/distributed.c 1549-1948):*)
(* the process forked for the query evaluates its node's program, walks    *)
(* the rules that could answer the goal, asks the node of every principal  *)
(* whose statement a rule needs, imports the bundles that come back and    *)
(* evaluates again. The node asked does the same for its goal, so that one *)
(* query is a chain of processes of which only the last is at work; the    *)
(* others wait for a response. Processes of other queries share nothing    *)
(* with them but the registry, which is the subject of Registry.           *)
(*                                                                         *)
(* Atoms are ground, and one evaluation pass is one step; Engine has the   *)
(* atoms with variables and the steps of a pass. What is left of variables *)
(* here is that a says literal may keep one after the head was unified     *)
(* with the goal: its text then does not parse at the node asked. What is  *)
(* left of delegations is which stored atoms answer for another one; that  *)
(* these are the right ones is the subject of Links.                       *)
(***************************************************************************)
EXTENDS Naturals, Sequences, FiniteSets

CONSTANTS
  Nodes, Principals,
  Atoms,        \* atoms by their canonical text
  Speaker,      \* the principal of a says atom, None for a predicate
  Home,         \* the node that hosts a principal
  Deployments,  \* what nodes may be started with
  Asked,        \* what users ask: pairs of a node and a goal
  MaxPasses,    \* passes of one run (64)
  MaxDepth,     \* bound: processes that may wait for each other
  None

Literal == [kind : {"atom", "open", "not", "tool"}, atom : Atoms]
Clause == [head : Atoms, body : Seq(Literal)]

\* A way to read a says atom off other stored atoms: a statement of another
\* principal and the speaks_for links from it.
Reading == [head : {a \in Atoms : Speaker[a] # None},
            body : Seq([kind : {"atom"}, atom : Atoms]) \ {<<>>}]

\* Links do not travel (Wire): how a node reads is a matter of its program.
Deployment == [prog : [Nodes -> Seq(Clause)],
               reads : [Nodes -> SUBSET Reading],
               routes : [Nodes -> SUBSET Principals],
               provers : SUBSET Nodes,
               replies : SUBSET Atoms]  \* capability atoms that adapters return

ASSUME QueryAssumption ==
  /\ None \notin Principals
  /\ Speaker \in [Atoms -> Principals \cup {None}]
  /\ Home \in [Principals -> Nodes]
  /\ Deployments \subseteq Deployment
  /\ Asked \subseteq Nodes \X Atoms
  /\ MaxDepth \in Nat \ {0} /\ MaxPasses \in Nat \ {0}

VARIABLES
  world,    \* the deployment in force
  depth,    \* how many processes the query has at the moment
  calls,    \* the processes, each waiting for the next one's response
  outcome   \* what the user got

vars == <<world, depth, calls, outcome>>

Frame == [goal : Atoms, clause : Nat \ {0}, literal : Nat \ {0}]
Bundle == [node : Nodes, goal : Atoms, proved : BOOLEAN]
Pcs == {"load", "walk", "wait", "import", "rerun", "final"}
Process == [node : Nodes, goal : Atoms, pc : Pcs, facts : SUBSET Atoms,
            passes : Nat, visited : SUBSET Atoms, fetched : SUBSET Atoms, stack : Seq(Frame),
            bundles : Seq(Bundle), reply : Seq(Bundle)]

Pending == [kind |-> "pending"]
Failed == [kind |-> "failed"]
Broken == [kind |-> "broken"]
Answer(p, bundles) == [kind |-> "answer", node |-> p.node, goal |-> p.goal,
                       bundles |-> bundles]
IsAnswer(o) == o.kind = "answer"

Says(a) == Speaker[a] # None
ProgramOf(p) == world.prog[p.node]
Clauses(w, n) == {w.prog[n][i] : i \in DOMAIN w.prog[n]}
LiteralsOf(c) == {c.body[i] : i \in DOMAIN c.body}
Top == calls[depth]

-----------------------------------------------------------------------------
(* A new process for a query: nothing imported, asked or visited yet.      *)
NewProcess(n, g) ==
  [node |-> n, goal |-> g, pc |-> "load", facts |-> {}, passes |-> 0, visited |-> {},
   fetched |-> {}, stack |-> <<>>, bundles |-> <<>>, reply |-> <<>>]

(* What etb_match_literal finds at a node that stores facts: these, and    *)
(* what they answer for through delegations.                               *)
Read(w, n, facts) ==
  facts \cup {r.head : r \in {q \in w.reads[n] : \A l \in LiteralsOf(q) : l.atom \in facts}}

(* One pass of etb_engine_run_fixpoint over the facts stored. A negated    *)
(* literal is tested without delegations. Slip: it is not tested.          *)
HoldsUntested(w, n, l, facts) ==
  CASE l.kind = "tool" -> l.atom \in w.replies
    [] l.kind = "not" -> TRUE
    [] OTHER -> l.atom \in Read(w, n, facts)
Holds(w, n, l, facts) ==
  CASE l.kind = "tool" -> l.atom \in w.replies
    [] l.kind = "not" -> l.atom \notin facts
    [] OTHER -> l.atom \in Read(w, n, facts)
Derives(w, n, facts) ==
  {c.head : c \in {d \in Clauses(w, n) : \A l \in LiteralsOf(d) : Holds(w, n, l, facts)}}

(* etb_engine_query                                                        *)
Has(p, a) == a \in Read(world, p.node, p.facts)

(* etb_resolve_goal_dependencies up to its loop over clauses: a goal seen  *)
(* before is left alone, and so is one the engine answers already. Slip:   *)
(* goals seen are not remembered.                                          *)
EnterForgetting(p, a) ==
  IF Has(p, a) THEN p
  ELSE [p EXCEPT !.stack = Append(@, [goal |-> a, clause |-> 1, literal |-> 1])]
Enter(p, a) ==
  IF a \in p.visited THEN p
  ELSE IF Has(p, a) THEN [p EXCEPT !.visited = @ \cup {a}]
  ELSE [p EXCEPT !.visited = @ \cup {a},
                 !.stack = Append(@, [goal |-> a, clause |-> 1, literal |-> 1])]

HasDerivation(p, a) == \E c \in Clauses(world, p.node) : c.head = a

(* Bundles are kept once per node and query. Slip: once per node. Slip:    *)
(* always.                                                                 *)
AddBundleAlways(list, b) == Append(list, b)
AddBundlePerNode(list, b) ==
  IF \E i \in DOMAIN list : list[i].node = b.node THEN list ELSE Append(list, b)
AddBundle(list, b) ==
  IF \E i \in DOMAIN list : list[i].node = b.node /\ list[i].goal = b.goal
  THEN list ELSE Append(list, b)

(* The bundle a process makes of its own answer, and where it goes: last.  *)
(* Slip: first.                                                            *)
OwnBundle(p) == [node |-> p.node, goal |-> p.goal, proved |-> p.node \in world.provers]
ResponseOwnFirst(p) == <<OwnBundle(p)>> \o p.bundles
Response(p) == AddBundle(p.bundles, OwnBundle(p))

(* etb_bundle_verify_with_prover, when the node has a prover: an external  *)
(* command that proves and verifies, or fails (Lost). Slip: the bundle of  *)
(* the node asked, the last of a response, is taken on trust.              *)
VerifiedNested(p, b) == Len(p.reply) > 1 /\ p.node \in world.provers => b.proved
Verified(p, b) == p.node \in world.provers => b.proved

FrameOf(p) == p.stack[Len(p.stack)]
PutFrame(p, f) == [p EXCEPT !.stack = [@ EXCEPT ![Len(p.stack)] = f]]
AtClause(p) == FrameOf(p).clause <= Len(ProgramOf(p))
ClauseOf(p) == ProgramOf(p)[FrameOf(p).clause]
AtLiteral(p) ==
  /\ p.pc = "walk" /\ p.stack # <<>> /\ AtClause(p)
  /\ ClauseOf(p).head = FrameOf(p).goal
  /\ FrameOf(p).literal <= Len(ClauseOf(p).body)
LiteralOf(p) == ClauseOf(p).body[FrameOf(p).literal]
Skipped(p) == LiteralOf(p).kind \in {"not", "tool"}
IsRemote(p) == ~ Skipped(p) /\ Says(LiteralOf(p).atom)

(* Slip: the rest of the clause is passed over as well. Slip: a clause with*)
(* another head is not passed over. Slip: literals are counted from 0.     *)
PastLiteralBreak(p) == PutFrame(p, [FrameOf(p) EXCEPT !.literal = Len(ClauseOf(p).body) + 1])
PastLiteral(p) == PutFrame(p, [FrameOf(p) EXCEPT !.literal = @ + 1])
PastClauseStuck(p) == PutFrame(p, [FrameOf(p) EXCEPT !.literal = 1])
PastClauseZero(p) == PutFrame(p, [FrameOf(p) EXCEPT !.clause = @ + 1, !.literal = 0])
PastClause(p) == PutFrame(p, [FrameOf(p) EXCEPT !.clause = @ + 1, !.literal = 1])
PastGoal(p) == [p EXCEPT !.stack = SubSeq(@, 1, Len(@) - 1)]

Become(p) == calls' = [calls EXCEPT ![depth] = p] /\ UNCHANGED <<world, depth, outcome>>

(* The whole query fails: an error of one process is the response to the   *)
(* one that waits for it, whose call fails and which fails in turn. Slip:  *)
(* the caller goes on without the statement.                               *)
AbortInner(error) ==
  /\ depth' = depth - 1
  /\ calls' = IF depth = 1 THEN calls
              ELSE [calls EXCEPT ![depth - 1] = PastLiteral([@ EXCEPT !.pc = "rerun"])]
  /\ outcome' = IF depth = 1 THEN error ELSE outcome
  /\ UNCHANGED world
Abort(error) == depth' = 0 /\ outcome' = error /\ UNCHANGED <<world, calls>>

-----------------------------------------------------------------------------
Init ==
  /\ world \in Deployments
  /\ depth = 0
  /\ calls = [i \in 1..MaxDepth |-> None]
  /\ outcome = Pending

(* etbctl asks a node.                                                     *)
Ask(n, g) ==
  /\ depth = 0 /\ outcome = Pending
  /\ depth' = 1
  /\ calls' = [calls EXCEPT ![1] = NewProcess(n, g)]
  /\ UNCHANGED <<world, outcome>>

(* A pass of a fixpoint run that stores something new. A run is over when  *)
(* there is nothing new, or after the last pass it may make, as if there   *)
(* were nothing.                                                           *)
Evaluating == depth > 0 /\ Top.pc \in {"load", "rerun", "final"}
Settled == Derives(world, Top.node, Top.facts) \subseteq Top.facts
RunOver == Settled \/ Top.passes = MaxPasses
Evaluate ==
  /\ Evaluating /\ ~ RunOver
  /\ Become([Top EXCEPT !.facts = @ \cup Derives(world, Top.node, Top.facts), !.passes = @ + 1])

(* The run before the goal is resolved, and the one after an import.       *)
StartWalk ==
  /\ Evaluating /\ Top.pc = "load" /\ RunOver
  /\ Become(Enter([Top EXCEPT !.pc = "walk"], Top.goal))
Resume ==
  /\ Evaluating /\ Top.pc = "rerun" /\ RunOver
  /\ Become([Top EXCEPT !.pc = "walk"])

(* The walk of etb_resolve_goal_dependencies over the clauses of a goal.   *)
Walking == depth > 0 /\ Top.pc = "walk" /\ Top.stack # <<>>
NextClause ==
  /\ Walking /\ AtClause(Top)
  /\ ClauseOf(Top).head # FrameOf(Top).goal \/ FrameOf(Top).literal > Len(ClauseOf(Top).body)
  /\ Become(PastClause(Top))
GoalDone ==
  /\ Walking /\ ~ AtClause(Top)
  /\ Become(PastGoal(Top))

(* etb_resolve_clause_dependencies over the literals of a clause: what is  *)
(* negated, a capability, fetched before or locally answered needs no      *)
(* work.                                                                   *)
KnownRoute(p) == Speaker[LiteralOf(p).atom] \in world.routes[p.node]
Fetched(p) == LiteralOf(p).atom \in p.fetched
Answered(p) == Has(p, LiteralOf(p).atom) \/ ~ HasDerivation(p, LiteralOf(p).atom)
NextLiteral ==
  /\ depth > 0 /\ AtLiteral(Top)
  /\ \/ Skipped(Top)
     \/ IsRemote(Top) /\ KnownRoute(Top) /\ Fetched(Top)
     \/ ~ Skipped(Top) /\ ~ IsRemote(Top) /\ Answered(Top)
  /\ Become(PastLiteral(Top))
ResolveLocal ==
  /\ depth > 0 /\ AtLiteral(Top) /\ ~ Skipped(Top) /\ ~ IsRemote(Top) /\ ~ Answered(Top)
  /\ Become(Enter(PastLiteral(Top), LiteralOf(Top).atom))

(* etb_remote_query_with_context: the node of the principal forks a        *)
(* process for the query, and this one waits.                              *)
CallNode ==
  /\ depth > 0 /\ AtLiteral(Top) /\ IsRemote(Top) /\ KnownRoute(Top) /\ ~ Fetched(Top)
  /\ LiteralOf(Top).kind # "open" /\ depth < MaxDepth
  /\ depth' = depth + 1
  /\ calls' = [calls EXCEPT ![depth] = [Top EXCEPT !.pc = "wait"],
                            ![depth + 1] = NewProcess(Home[Speaker[LiteralOf(Top).atom]],
                                                      LiteralOf(Top).atom)]
  /\ UNCHANGED <<world, outcome>>

(* No route, a text with a variable in it, which the parser of the node    *)
(* asked rejects, or no process left to answer.                            *)
CallFails ==
  /\ depth > 0 /\ AtLiteral(Top) /\ IsRemote(Top)
  /\ \/ ~ KnownRoute(Top)
     \/ ~ Fetched(Top) /\ LiteralOf(Top).kind = "open"
     \/ ~ Fetched(Top) /\ depth = MaxDepth
  /\ Abort(Failed)

(* The walk is over: a last fixpoint run, and the query.                   *)
WalkDone ==
  /\ depth > 0 /\ Top.pc = "walk" /\ Top.stack = <<>>
  /\ Become([Top EXCEPT !.pc = "final", !.passes = 0])

(* Whether the goal has an answer. Slip: it was derivable at all.          *)
HasAnswerByRule(p) == HasDerivation(p, p.goal)
HasAnswer(p) == Has(p, p.goal)

Finishing == Evaluating /\ Top.pc = "final" /\ RunOver
NoAnswers == Finishing /\ ~ HasAnswer(Top) /\ Abort(Failed)
Respond ==
  /\ Finishing /\ HasAnswer(Top) /\ depth > 1
  /\ depth' = depth - 1
  /\ calls' = [calls EXCEPT ![depth - 1] = [@ EXCEPT !.pc = "import", !.reply = Response(Top)]]
  /\ UNCHANGED <<world, outcome>>
RespondToUser ==
  /\ Finishing /\ HasAnswer(Top) /\ depth = 1
  /\ depth' = 0
  /\ outcome' = Answer(Top, Response(Top))
  /\ UNCHANGED <<world, calls>>

(* etb_import_remote_bundle and etb_bundle_list_append_unique on the first *)
(* bundle left of a response, own or nested.                               *)
Importing == depth > 0 /\ Top.pc = "import"
ImportBundle ==
  /\ Importing /\ Top.reply # <<>> /\ Verified(Top, Head(Top.reply))
  /\ Become([Top EXCEPT !.facts = @ \cup {Head(Top.reply).goal},
                        !.bundles = AddBundle(@, Head(Top.reply)),
                        !.reply = Tail(@)])
ImportFails ==
  /\ Importing /\ Top.reply # <<>> /\ ~ Verified(Top, Head(Top.reply))
  /\ Abort(Failed)
ImportDone ==
  /\ Importing /\ Top.reply = <<>>
  /\ Become(PastLiteral([Top EXCEPT !.fetched = @ \cup {LiteralOf(Top).atom},
                                    !.pc = "rerun", !.passes = 0]))

(* A process is killed, a prover fails or a connection breaks.             *)
Lost == depth > 0 /\ Abort(Broken)

Work == Evaluate \/ StartWalk \/ Resume \/ NextClause \/ GoalDone \/ NextLiteral
        \/ ResolveLocal \/ CallNode \/ CallFails \/ WalkDone \/ NoAnswers \/ Respond
        \/ RespondToUser \/ ImportBundle \/ ImportFails \/ ImportDone
Next == (\E a \in Asked : Ask(a[1], a[2])) \/ Work \/ Lost

Spec == Init /\ [][Next]_vars

(* The process at work is not stopped for ever.                            *)
FairSpec == Spec /\ WF_vars(Work)

-----------------------------------------------------------------------------
TypeOK ==
  /\ world \in Deployments
  /\ depth \in 0..MaxDepth
  /\ DOMAIN calls = 1..MaxDepth
  /\ \A i \in 1..depth : calls[i] \in Process
  /\ outcome \in {Pending, Failed, Broken} \cup
       [kind : {"answer"}, node : Nodes, goal : Atoms, bundles : Seq(Bundle)]

(* The rules of a node: its clauses, and how it reads delegated atoms.     *)
Rules(w, n) == Clauses(w, n) \cup w.reads[n]

(* M, pairs of a node and an atom, is closed under the rules of deployment *)
(* w: it has the head of every rule of a node whose body is established    *)
(* there. A statement of a principal is where it was derived or read and,  *)
(* as evidence of its home, everywhere; negated literals are granted.      *)
Established(M, n, a) ==
  <<n, a>> \in M \/ (Says(a) /\ <<Home[Speaker[a]], a>> \in M)
Grants(w, M, n, l) == CASE l.kind = "tool" -> l.atom \in w.replies
                        [] l.kind = "not" -> TRUE
                        [] OTHER -> Established(M, n, l.atom)
Closed(w, M) ==
  \A n \in Nodes : \A c \in Rules(w, n) :
    (\A l \in LiteralsOf(c) : Grants(w, M, n, l)) => <<n, c.head>> \in M

(* What follows at all: in every closed set. Only heads can.               *)
Heads(w) == UNION {{<<n, c.head>> : c \in Rules(w, n)} : n \in Nodes}
Consequences(w) == {x \in Heads(w) : \A M \in SUBSET Heads(w) : Closed(w, M) => x \in M}

(* README.md 105-109: a node asks the peer of a principal, verifies,       *)
(* imports and continues deriving. An answer follows from the rules of the *)
(* nodes, each statement used from the rules of its principal's home,      *)
(* however the query wandered, also when rules need each other.            *)
AnswersFollow ==
  IsAnswer(outcome) => Established(Consequences(world), outcome.node, outcome.goal)

(* What a process holds from others came from the home of the principal    *)
(* that is said to say it, nested evidence included, and follows there:    *)
(* etb_import_remote_bundle itself does not look at who the bundle is from.*)
EvidenceFromHome ==
  \A i \in 1..depth : \A j \in DOMAIN calls[i].bundles :
    LET b == calls[i].bundles[j]
    IN  Says(b.goal) /\ b.node = Home[Speaker[b.goal]] /\ <<b.node, b.goal>> \in Consequences(world)

(* README.md 58 and architecture.md 90: what a node with a prover imports  *)
(* carries a proof, nested bundles too; so a chain handed to a user by     *)
(* such a node is proved at every hop.                                     *)
ProvedChain ==
  /\ \A i \in 1..depth : calls[i].node \in world.provers
       => \A j \in DOMAIN calls[i].bundles : calls[i].bundles[j].proved
  /\ IsAnswer(outcome) /\ outcome.node \in world.provers
       => \A j \in DOMAIN outcome.bundles : outcome.bundles[j].proved

(* What follows at node n from its program and from given statements.      *)
GrantsAt(w, M, l) == CASE l.kind = "tool" -> l.atom \in w.replies
                       [] l.kind = "not" -> TRUE
                       [] OTHER -> l.atom \in M
ClosedAt(w, n, M) ==
  \A c \in Rules(w, n) : (\A l \in LiteralsOf(c) : GrantsAt(w, M, l)) => c.head \in M
FollowsAt(w, n, given, a) ==
  \A M \in SUBSET Atoms : given \subseteq M /\ ClosedAt(w, n, M) => a \in M

GoalsBefore(list, i) == {list[j].goal : j \in 1..(i - 1)}
ReplaysFrom(w, given, list) ==
  \A i \in DOMAIN list :
    FollowsAt(w, list[i].node, given \cup GoalsBefore(list, i), list[i].goal)

(* README.md 59-60, architecture.md 148: the response is a chain that can  *)
(* be checked independently, bundle by bundle. Each follows at its node    *)
(* from that node's program and the bundles before it alone, although      *)
(* evidence was collected by several processes, and merged and thinned out *)
(* at every hop (distributed.c 262-266), and none is handed over twice,    *)
(* however many nodes needed it.                                           *)
ChainFollows ==
  IsAnswer(outcome) =>
    /\ ReplaysFrom(world, {}, outcome.bundles)
    /\ \A i, j \in DOMAIN outcome.bundles : outcome.bundles[i] = outcome.bundles[j] => i = j

(* The facts a node derives by itself from given ones, pass by pass.       *)
Local(w, n, given) ==
  LET run[i \in Nat] == IF i = 0 THEN given
                       ELSE LET last == run[i - 1] IN last \cup Derives(w, n, last)
  IN  run[Cardinality(Atoms)]

(* README.md 59-60, architecture.md 148: the response is a chain of        *)
(* bundles that can be checked independently. Read from the first to the   *)
(* last, each follows at its node from its program and the bundles before. *)
ChainReplays ==
  IsAnswer(outcome) =>
    /\ outcome.bundles[Len(outcome.bundles)].goal = outcome.goal
    /\ \A i \in DOMAIN outcome.bundles :
         LET b == outcome.bundles[i]
             earlier == {outcome.bundles[j].goal : j \in 1..(i - 1)}
         IN  b.goal \in Read(world, b.node, Local(world, b.node, earlier))

(* distributed.c 1732-1741: rules of one node may need each other, and the *)
(* walk, a recursion in the code, never has the same goal open twice.      *)
NoGoalOpenTwice ==
  \A i \in 1..depth : \A j, k \in DOMAIN calls[i].stack :
    calls[i].stack[j].goal = calls[i].stack[k].goal => j = k

(* A query that came back: two of its processes are for the same question. *)
Returned == \E i, j \in 1..depth : i < j /\ calls[i].node = calls[j].node /\ calls[i].goal = calls[j].goal

(* visited_goals is kept per process (distributed.c 1735): such a query    *)
(* never gets an answer, even where the goal has one by another clause; it *)
(* goes on coming back, until it fails.                                    *)
ReturnedFails == [][Returned => Returned' \/ outcome' \in {Failed, Broken}]_vars

-----------------------------------------------------------------------------
(* Closed when the clauses read their negated literals against N, and the  *)
(* least set that is.                                                      *)
Permits(w, M, N, n, l) == IF l.kind = "not" THEN <<n, l.atom>> \notin N ELSE Grants(w, M, n, l)
ClosedAgainst(w, M, N) ==
  \A n \in Nodes : \A c \in Rules(w, n) :
    (\A l \in LiteralsOf(c) : Permits(w, M, N, n, l)) => <<n, c.head>> \in M
LeastAgainst(w, N) == {x \in Heads(w) : \A M \in SUBSET Heads(w) : ClosedAgainst(w, M, N) => x \in M}

(* The perfect model of a deployment of two strata: what follows when      *)
(* negated literals are read against what follows without any of them.     *)
Perfect(w) == LeastAgainst(w, LeastAgainst(w, Nodes \X Atoms))

(* Negated atoms are given facts, behind a literal no fact answers in the  *)
(* first pass.                                                             *)
NegatesGivenFacts(w) ==
  \A n \in Nodes : \A c \in Clauses(w, n) : \A l \in LiteralsOf(c) : l.kind = "not" =>
    /\ \A d \in Rules(w, n) : d.head = l.atom => d.body = <<>>
    /\ \E k \in LiteralsOf(c) : k.kind = "atom"

(* README.md 319: "negation: stratified negation-as-failure", read for the *)
(* deployment: an answer is in the perfect model of the rules of its       *)
(* nodes, if only given facts are negated. The walk does not go below a    *)
(* negated literal (distributed.c 1627), so that a statement of another    *)
(* node that refutes it by a rule is never fetched.                        *)
AnswersStratified ==
  IsAnswer(outcome) /\ NegatesGivenFacts(world)
    => Established(Perfect(world), outcome.node, outcome.goal)

-----------------------------------------------------------------------------
(* What a goal of a node may need: pairs of a node and an atom.            *)
NeedsOf(w, x) ==
  {<<IF Says(l.atom) THEN Home[Speaker[l.atom]] ELSE x[1], l.atom>> :
     l \in {k \in UNION {LiteralsOf(c) : c \in {d \in Clauses(w, x[1]) : d.head = x[2]}} :
              k.kind \in {"atom", "open"}}}

(* What those in X need in the end, of what has a clause at all.           *)
NeedsClosed(w, S) == \A x \in S : NeedsOf(w, x) \cap Heads(w) \subseteq S
Reachable(w, X) ==
  {y \in Heads(w) : \A S \in SUBSET Heads(w) :
     NeedsClosed(w, S) /\ X \cap Heads(w) \subseteq S => y \in S}
RootOf == <<calls[1].node, calls[1].goal>>

(* A node whose clauses have more heads than a run makes passes: the run   *)
(* may be over before all are stored that follow.                          *)
HeadsAt(w, n) == {c.head : c \in Clauses(w, n)}
MayBeCut(w) == \E n \in Nodes : Cardinality(HeadsAt(w, n)) > MaxPasses

(* What may make a query fail: the goal does not hold; a run may be cut    *)
(* short; the goal or something below it may hold by delegation, of which  *)
(* the walk does not look for the premises; or a statement is needed that  *)
(* does not hold, for whose principal there is no route, that has a        *)
(* variable left, that is needed for itself, or that a node with a prover  *)
(* gets from one without.                                                  *)
Cause(w, root) ==
  LET perfect == Perfect(w)
  IN  \/ root \notin perfect
      \/ MayBeCut(w)
      \/ \E x \in Reachable(w, {root}) : \E r \in w.reads[x[1]] : r.head = x[2]
      \/ \E x \in Reachable(w, {root}) : \E c \in {d \in Clauses(w, x[1]) : d.head = x[2]} : \E l \in LiteralsOf(c) :
           /\ l.kind \in {"atom", "open"} /\ Says(l.atom)
           /\ LET home == Home[Speaker[l.atom]]
              IN  \/ <<home, l.atom>> \notin perfect
                  \/ Speaker[l.atom] \notin w.routes[x[1]]
                  \/ l.kind = "open"
                  \/ <<home, l.atom>> \in Reachable(w, NeedsOf(w, <<home, l.atom>>))
                  \/ x[1] \in w.provers
                     /\ \E y \in Reachable(w, {<<home, l.atom>>}) : y[1] \notin w.provers

(* README.md 105-109: what can be resolved by live nodes is: a query fails *)
(* only for a cause. Every needed statement is found, at any distance, and *)
(* evidence of all of them comes back.                                     *)
FailsForCause == outcome = Failed => Cause(world, RootOf)
=============================================================================
