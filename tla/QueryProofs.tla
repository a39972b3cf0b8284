----------------------------- MODULE QueryProofs -----------------------------
(***************************************************************************)
(* Theorems about Query: in every deployment, and however a query wanders, *)
(* answers follow from the rules of the nodes, also where these negate     *)
(* given facts, evidence comes from the home of who is said to have said   *)
(* it and can be replayed, a node with a prover holds proved evidence      *)
(* only, the walk over goals does not go in circles, a query that comes    *)
(* back to a question never gets an answer past it, one that fails has a   *)
(* cause in the deployment, and an answer is replayed bundle by bundle.    *)
(***************************************************************************)
EXTENDS Query, FiniteSetTheorems, WellFoundedInduction, TLAPS

(* A bundle that may be imported: a statement of a principal, derived at   *)
(* the home of that principal.                                             *)
Evident(w, b) ==
  Says(b.goal) /\ b.node = Home[Speaker[b.goal]] /\ <<b.node, b.goal>> \in Consequences(w)

(* The walk of p stands at a literal of its program.                       *)
Placed(w, p) ==
  /\ p.stack # <<>>
  /\ FrameOf(p).clause \in DOMAIN w.prog[p.node]
  /\ FrameOf(p).literal \in DOMAIN w.prog[p.node][FrameOf(p).clause].body

(* What holds of the i-th process of a query.                              *)
ProcOK(w, i, p) ==
  /\ p \in Process
  /\ p.pc \in {"wait", "import"} => Placed(w, p)
  /\ i > 1 => Says(p.goal) /\ p.node = Home[Speaker[p.goal]]
  /\ \A a \in p.facts : Established(Consequences(w), p.node, a)
  /\ \A j \in DOMAIN p.bundles :
       Evident(w, p.bundles[j]) /\ (p.node \in w.provers => p.bundles[j].proved)
  /\ \A j \in DOMAIN p.reply : Evident(w, p.reply[j])

OutcomeOK(w, o) ==
  /\ o \in {Pending, Failed, Broken} \cup
       [kind : {"answer"}, node : Nodes, goal : Atoms, bundles : Seq(Bundle)]
  /\ IsAnswer(o) => /\ Established(Consequences(w), o.node, o.goal)
                    /\ o.node \in w.provers => \A j \in DOMAIN o.bundles : o.bundles[j].proved

(* The inductive invariant.                                                *)
IInv ==
  /\ world \in Deployments
  /\ depth \in 0..MaxDepth
  /\ DOMAIN calls = 1..MaxDepth
  /\ \A i \in 1..depth : ProcOK(world, i, calls[i])
  /\ \A i \in 1..depth : i < depth => calls[i].pc = "wait"
  /\ OutcomeOK(world, outcome)

-----------------------------------------------------------------------------
(* The intersection of the sets closed under the rules is closed itself:   *)
(* a rule whose body follows has a head that follows.                      *)
LEMMA ConsequencesClosed ==
  ASSUME NEW w PROVE Closed(w, Consequences(w))
<1> SUFFICES ASSUME NEW n \in Nodes, NEW c \in Rules(w, n),
                    \A l \in LiteralsOf(c) : Grants(w, Consequences(w), n, l)
             PROVE  <<n, c.head>> \in Consequences(w)
  BY DEF Closed
<1>1. <<n, c.head>> \in Heads(w)
  BY DEF Heads
<1>2. ASSUME NEW M \in SUBSET Heads(w), Closed(w, M) PROVE <<n, c.head>> \in M
  <2>1. Consequences(w) \subseteq M
    BY <1>2 DEF Consequences
  <2>2. \A l \in LiteralsOf(c) : Grants(w, M, n, l)
    BY <2>1 DEF Grants, Established
  <2> QED BY <1>2, <2>2 DEF Closed
<1> QED BY <1>1, <1>2 DEF Consequences

(* How a node reads delegated atoms: from atoms, to a says atom.           *)
LEMMA ReadingTyped ==
  ASSUME NEW w \in Deployments, NEW n \in Nodes, NEW r \in w.reads[n]
  PROVE  /\ r.head \in Atoms /\ Says(r.head) /\ r \in Rules(w, n)
         /\ r.body # <<>> /\ LiteralsOf(r) # {}
         /\ \A l \in LiteralsOf(r) : l.kind = "atom" /\ l.atom \in Atoms
<1>1. w.reads \in [Nodes -> SUBSET Reading]
  BY QueryAssumption DEF Deployment
<1>2. r \in Reading
  BY <1>1
<1>3. /\ r.head \in Atoms /\ Speaker[r.head] # None
      /\ r.body \in Seq([kind : {"atom"}, atom : Atoms]) /\ r.body # <<>>
  BY <1>2 DEF Reading
<1>4. ASSUME NEW S, NEW s \in Seq(S), s # <<>>
      PROVE  1 \in DOMAIN s /\ \A i \in DOMAIN s : s[i] \in S
  BY <1>4
<1>5. 1 \in DOMAIN r.body /\ \A i \in DOMAIN r.body : r.body[i] \in [kind : {"atom"}, atom : Atoms]
  BY <1>3, <1>4
<1>6. \A i \in DOMAIN r.body : r.body[i].kind = "atom" /\ r.body[i].atom \in Atoms
  BY <1>5
<1> QED BY <1>3, <1>5, <1>6 DEF LiteralsOf, Says, Rules

(* What is read is stored, or the head of a reading whose atoms are.       *)
LEMMA ReadFound ==
  ASSUME NEW w \in Deployments, NEW n \in Nodes, NEW facts, NEW a \in Read(w, n, facts)
  PROVE  a \in facts \/ \E r \in w.reads[n] :
           r.head = a /\ \A l \in LiteralsOf(r) : l.kind = "atom" /\ l.atom \in facts
<1> SUFFICES ASSUME a \notin facts
             PROVE  \E r \in w.reads[n] : r.head = a /\ \A l \in LiteralsOf(r) : l.kind = "atom" /\ l.atom \in facts
  OBVIOUS
<1>1. PICK r \in w.reads[n] : r.head = a /\ \A l \in LiteralsOf(r) : l.atom \in facts
  BY DEF Read
<1> QED BY <1>1, ReadingTyped

LEMMA ReadTyped ==
  ASSUME NEW w \in Deployments, NEW n \in Nodes, NEW facts \in SUBSET Atoms
  PROVE  Read(w, n, facts) \subseteq Atoms
BY ReadFound, ReadingTyped

(* More facts, more read; and what is no statement is only stored.         *)
LEMMA ReadMore ==
  ASSUME NEW w, NEW n, NEW facts, NEW more, facts \subseteq more
  PROVE  facts \subseteq Read(w, n, facts) /\ Read(w, n, facts) \subseteq Read(w, n, more)
BY DEF Read

LEMMA ReadOwn ==
  ASSUME NEW w \in Deployments, NEW n \in Nodes, NEW facts, NEW a, ~ Says(a)
  PROVE  a \in Read(w, n, facts) <=> a \in facts
BY ReadFound, ReadingTyped, ReadMore

LEMMA ReadEstablishes ==
  ASSUME NEW w \in Deployments, NEW n \in Nodes, NEW facts,
         \A a \in facts : Established(Consequences(w), n, a)
  PROVE  \A a \in Read(w, n, facts) : Established(Consequences(w), n, a)
<1> SUFFICES ASSUME NEW a \in Read(w, n, facts), a \notin facts
             PROVE  Established(Consequences(w), n, a)
  OBVIOUS
<1>1. PICK r \in w.reads[n] : r.head = a /\ \A l \in LiteralsOf(r) : l.kind = "atom" /\ l.atom \in facts
  BY ReadFound
<1>2. \A l \in LiteralsOf(r) : Grants(w, Consequences(w), n, l)
  BY <1>1 DEF Grants
<1>3. r \in Rules(w, n)
  BY ReadingTyped
<1>4. <<n, r.head>> \in Consequences(w)
  BY <1>2, <1>3, ConsequencesClosed DEF Closed
<1> QED BY <1>1, <1>4 DEF Established

(* What one pass derives from established facts is established.            *)
LEMMA PassEstablishes ==
  ASSUME NEW w \in Deployments, NEW n \in Nodes, NEW facts,
         \A a \in facts : Established(Consequences(w), n, a)
  PROVE  \A a \in Derives(w, n, facts) : Established(Consequences(w), n, a)
<1> SUFFICES ASSUME NEW a \in Derives(w, n, facts)
             PROVE  Established(Consequences(w), n, a)
  OBVIOUS
<1>1. PICK c \in Clauses(w, n) : a = c.head /\ \A l \in LiteralsOf(c) : Holds(w, n, l, facts)
  BY DEF Derives
<1>2. \A l \in LiteralsOf(c) : Grants(w, Consequences(w), n, l)
  BY <1>1, ReadEstablishes DEF Holds, Grants
<1>3. <<n, c.head>> \in Consequences(w)
  BY <1>2, ConsequencesClosed DEF Closed, Rules
<1> QED BY <1>1, <1>3 DEF Established

(* A list of bundles with one added: its elements are the old ones and the *)
(* new one.                                                                *)
LEMMA AddedBundle ==
  ASSUME NEW list \in Seq(Bundle), NEW b \in Bundle
  PROVE  /\ AddBundle(list, b) \in Seq(Bundle)
         /\ \A j \in DOMAIN AddBundle(list, b) :
              AddBundle(list, b)[j] = b
              \/ \E k \in DOMAIN list : AddBundle(list, b)[j] = list[k]
<1>1. CASE AddBundle(list, b) = list
  BY <1>1
<1>2. CASE AddBundle(list, b) = Append(list, b)
  BY <1>2
<1> QED BY <1>1, <1>2 DEF AddBundle

(* Clauses and literals a program has are of the right type.               *)
LEMMA ProgramTyped ==
  ASSUME NEW w \in Deployments, NEW n \in Nodes
  PROVE  /\ w.prog[n] \in Seq(Clause)
         /\ w.provers \subseteq Nodes
         /\ \A c \in Clauses(w, n) : c \in Clause
         /\ \A k \in DOMAIN w.prog[n] : w.prog[n][k] \in Clause
         /\ \A k \in DOMAIN w.prog[n] : \A m \in DOMAIN w.prog[n][k].body :
              w.prog[n][k].body[m] \in Literal
<1>1. w \in Deployment
  BY QueryAssumption
<1>2. w.prog[n] \in Seq(Clause) /\ w.provers \subseteq Nodes
  BY <1>1 DEF Deployment
<1>3. \A k \in DOMAIN w.prog[n] : w.prog[n][k] \in Clause
  BY <1>2
<1>4. \A k \in DOMAIN w.prog[n] : \A m \in DOMAIN w.prog[n][k].body :
        w.prog[n][k].body[m] \in Literal
  BY <1>3 DEF Clause
<1> QED BY <1>2, <1>3, <1>4 DEF Clauses

-----------------------------------------------------------------------------
(* Initially there is no process and no outcome.                           *)
LEMMA InitIInv == Init => IInv
<1> SUFFICES ASSUME Init PROVE IInv
  OBVIOUS
<1>1. OutcomeOK(world, outcome)
  BY DEF Init, OutcomeOK, Pending, IsAnswer
<1>2. \A i \in 1..depth : FALSE
  BY DEF Init
<1> QED BY <1>1, <1>2, QueryAssumption DEF Init, IInv

(* A step of the process at work that leaves it in order, and not waiting. *)
LEMMA BecomeIInv ==
  ASSUME IInv, depth > 0, NEW p, Become(p), ProcOK(world, depth, p)
  PROVE  IInv'
<1>1. world' = world /\ depth' = depth /\ outcome' = outcome
      /\ calls' = [calls EXCEPT ![depth] = p]
  BY DEF Become
<1>2. depth \in 1..MaxDepth /\ DOMAIN calls' = 1..MaxDepth
  BY <1>1, QueryAssumption DEF IInv
<1>3. ASSUME NEW i \in 1..depth PROVE ProcOK(world, i, calls'[i])
  <2>1. i \in DOMAIN calls
    BY <1>2, QueryAssumption DEF IInv
  <2>2. CASE i = depth
    BY <1>1, <2>1, <2>2
  <2>3. CASE i # depth
    BY <1>1, <2>1, <2>3 DEF IInv
  <2> QED BY <2>2, <2>3
<1>4. ASSUME NEW i \in 1..depth, i < depth PROVE calls'[i].pc = "wait"
  BY <1>1, <1>2, <1>4, QueryAssumption DEF IInv
<1> QED BY <1>1, <1>2, <1>3, <1>4 DEF IInv

(* A query that fails leaves no process.                                   *)
LEMMA AbortIInv ==
  ASSUME IInv, NEW error \in {Failed, Broken}, Abort(error)
  PROVE  IInv'
<1>1. world' = world /\ depth' = 0 /\ calls' = calls /\ outcome' = error
  BY DEF Abort
<1>2. OutcomeOK(world, error)
  BY DEF OutcomeOK, Failed, Broken, IsAnswer
<1>3. \A i \in 1..depth' : FALSE
  BY <1>1
<1> QED BY <1>1, <1>2, <1>3, QueryAssumption DEF IInv

-----------------------------------------------------------------------------
(* The walk's moves change only what it has visited and where it stands.   *)
LEMMA MovesOK ==
  ASSUME NEW w \in Deployments, NEW i \in Nat, NEW p, ProcOK(w, i, p), NEW q,
         q \in Process, q.node = p.node, q.goal = p.goal, q.bundles = p.bundles,
         q.reply = p.reply, q.pc \notin {"wait", "import"},
         \A a \in q.facts : Established(Consequences(w), p.node, a)
  PROVE  ProcOK(w, i, q)
BY DEF ProcOK

LEMMA EnterOK ==
  ASSUME NEW p \in Process, NEW a \in Atoms
  PROVE  /\ Enter(p, a) \in Process
         /\ Enter(p, a).node = p.node /\ Enter(p, a).goal = p.goal
         /\ Enter(p, a).facts = p.facts /\ Enter(p, a).pc = p.pc
         /\ Enter(p, a).bundles = p.bundles /\ Enter(p, a).reply = p.reply
         /\ Enter(p, a).passes = p.passes
<1>1. [goal |-> a, clause |-> 1, literal |-> 1] \in Frame
  BY DEF Frame
<1>2. Append(p.stack, [goal |-> a, clause |-> 1, literal |-> 1]) \in Seq(Frame)
  BY <1>1 DEF Process
<1>3. CASE a \in p.visited
  BY <1>3 DEF Enter
<1>4. CASE a \notin p.visited /\ Has(p, a)
  BY <1>4 DEF Enter, Process
<1>5. CASE a \notin p.visited /\ ~ Has(p, a)
  BY <1>2, <1>5 DEF Enter, Process
<1> QED BY <1>3, <1>4, <1>5

LEMMA StackOK ==
  ASSUME NEW p \in Process, p.stack # <<>>
  PROVE  /\ PastLiteral(p) \in Process /\ PastClause(p) \in Process /\ PastGoal(p) \in Process
         /\ \A q \in {PastLiteral(p), PastClause(p), PastGoal(p)} :
              /\ q.node = p.node /\ q.goal = p.goal /\ q.facts = p.facts /\ q.pc = p.pc
              /\ q.bundles = p.bundles /\ q.reply = p.reply /\ q.passes = p.passes
<1>1. p.stack \in Seq(Frame) /\ Len(p.stack) \in DOMAIN p.stack /\ Len(p.stack) \in Nat
  BY DEF Process
<1>2. FrameOf(p) \in Frame
  BY <1>1 DEF FrameOf
<1>3. ASSUME NEW f \in Frame
      PROVE  /\ PutFrame(p, f) \in Process
             /\ PutFrame(p, f).node = p.node /\ PutFrame(p, f).goal = p.goal
             /\ PutFrame(p, f).facts = p.facts /\ PutFrame(p, f).pc = p.pc
             /\ PutFrame(p, f).bundles = p.bundles /\ PutFrame(p, f).reply = p.reply
             /\ PutFrame(p, f).passes = p.passes
  <2>1. [p.stack EXCEPT ![Len(p.stack)] = f] \in Seq(Frame)
    BY <1>1
  <2> QED BY <2>1 DEF PutFrame, Process
<1>4. FrameOf(p).literal + 1 \in Nat \ {0} /\ FrameOf(p).clause + 1 \in Nat \ {0}
  BY <1>2 DEF Frame
<1>5. [FrameOf(p) EXCEPT !.literal = @ + 1] \in Frame
  BY <1>2, <1>4 DEF Frame
<1>6. [FrameOf(p) EXCEPT !.clause = @ + 1, !.literal = 1] \in Frame
  <2>1. ASSUME NEW k \in Nat \ {0}, NEW m \in Nat \ {0}
        PROVE  [FrameOf(p) EXCEPT !.clause = k, !.literal = m] \in Frame
    BY <1>2 DEF Frame
  <2>2. 1 \in Nat \ {0}
    OBVIOUS
  <2> QED BY <1>4, <2>1, <2>2
<1>7. SubSeq(p.stack, 1, Len(p.stack) - 1) \in Seq(Frame)
  BY <1>1
<1>8. PastGoal(p) = [p EXCEPT !.stack = SubSeq(p.stack, 1, Len(p.stack) - 1)]
  BY DEF PastGoal
<1>9. /\ PastGoal(p) \in Process
      /\ PastGoal(p).node = p.node /\ PastGoal(p).goal = p.goal
      /\ PastGoal(p).facts = p.facts /\ PastGoal(p).pc = p.pc
      /\ PastGoal(p).bundles = p.bundles /\ PastGoal(p).reply = p.reply
      /\ PastGoal(p).passes = p.passes
  BY <1>7, <1>8 DEF Process
<1> QED BY <1>3, <1>5, <1>6, <1>9 DEF PastLiteral, PastClause

-----------------------------------------------------------------------------
(* The process at work, and where a literal it stands at is.               *)
LEMMA TopOK ==
  ASSUME IInv, depth > 0
  PROVE  /\ ProcOK(world, depth, Top) /\ Top \in Process /\ world \in Deployments
         /\ depth \in Nat /\ depth \in 1..MaxDepth /\ depth \in DOMAIN calls
<1>1. depth \in 1..depth /\ depth \in 1..MaxDepth
  BY QueryAssumption DEF IInv
<1> QED BY <1>1, QueryAssumption DEF IInv, ProcOK, Top

LEMMA AtLiteralPlaced ==
  ASSUME IInv, depth > 0, AtLiteral(Top)
  PROVE  Placed(world, Top)
<1>1. Top \in Process /\ world \in Deployments
  BY TopOK
<1>2. Top.node \in Nodes /\ Top.stack \in Seq(Frame) /\ Top.stack # <<>>
  BY <1>1 DEF Process, AtLiteral
<1>3. FrameOf(Top) \in Frame
  BY <1>2 DEF FrameOf
<1>4. FrameOf(Top).clause \in DOMAIN world.prog[Top.node]
  BY <1>1, <1>2, <1>3, ProgramTyped DEF AtLiteral, AtClause, ProgramOf, Frame
<1>5. world.prog[Top.node][FrameOf(Top).clause].body \in Seq(Literal)
  BY <1>1, <1>2, <1>4, ProgramTyped DEF Clause
<1>6. FrameOf(Top).literal \in DOMAIN world.prog[Top.node][FrameOf(Top).clause].body
  BY <1>3, <1>5 DEF AtLiteral, ClauseOf, ProgramOf, Frame
<1> QED BY <1>2, <1>4, <1>6 DEF Placed

LEMMA PlacedLiteral ==
  ASSUME IInv, depth > 0, Placed(world, Top)
  PROVE  LiteralOf(Top) \in Literal /\ LiteralOf(Top).atom \in Atoms
<1>1. Top.node \in Nodes /\ world \in Deployments
  BY TopOK DEF Process
<1>2. LiteralOf(Top) \in Literal
  BY <1>1, ProgramTyped DEF Placed, LiteralOf, ClauseOf, ProgramOf
<1> QED BY <1>2 DEF Literal

-----------------------------------------------------------------------------
(* One lemma per action.                                                   *)
LEMMA AskIInv ==
  ASSUME IInv, NEW n \in Nodes, NEW g \in Atoms, Ask(n, g)
  PROVE  IInv'
<1>1. NewProcess(n, g) \in Process
  BY DEF NewProcess, Process, Pcs
<1>2. ProcOK(world, 1, NewProcess(n, g))
  BY <1>1 DEF ProcOK, NewProcess
<1>3. calls'[1] = NewProcess(n, g) /\ DOMAIN calls' = 1..MaxDepth /\ depth' = 1
      /\ world' = world /\ outcome' = outcome
  BY QueryAssumption DEF Ask, IInv
<1>4. \A i \in 1..1 : i = 1
  OBVIOUS
<1> QED BY <1>2, <1>3, <1>4, QueryAssumption DEF IInv

LEMMA PassOK ==
  ASSUME NEW p \in Process, NEW new, new \subseteq Atoms
  PROVE  LET q == [p EXCEPT !.facts = @ \cup new, !.passes = @ + 1]
         IN  /\ q \in Process /\ q.node = p.node /\ q.goal = p.goal /\ q.pc = p.pc
             /\ q.facts = p.facts \cup new /\ q.passes = p.passes + 1
             /\ q.bundles = p.bundles /\ q.reply = p.reply /\ q.stack = p.stack
             /\ q.visited = p.visited /\ q.fetched = p.fetched
<1>1. p.passes + 1 \in Nat /\ p.facts \cup new \in SUBSET Atoms
  BY DEF Process
<1>2. ASSUME NEW f \in SUBSET Atoms, NEW k \in Nat
      PROVE  LET q == [p EXCEPT !.facts = f, !.passes = k]
             IN  /\ q \in Process /\ q.node = p.node /\ q.goal = p.goal /\ q.pc = p.pc
                 /\ q.facts = f /\ q.passes = k
                 /\ q.bundles = p.bundles /\ q.reply = p.reply /\ q.stack = p.stack
                 /\ q.visited = p.visited /\ q.fetched = p.fetched
  BY DEF Process
<1> QED BY <1>1, <1>2

LEMMA EvaluateIInv == ASSUME IInv, Evaluate PROVE IInv'
<1> DEFINE new == Derives(world, Top.node, Top.facts)
           q == [Top EXCEPT !.facts = @ \cup new, !.passes = @ + 1]
<1>1. depth > 0 /\ Top.pc \in {"load", "rerun", "final"} /\ Become(q)
  BY DEF Evaluate, Evaluating
<1>2. Top \in Process /\ ProcOK(world, depth, Top) /\ world \in Deployments /\ depth \in Nat
  BY <1>1, TopOK
<1>3. new \subseteq Atoms
  BY <1>2, ProgramTyped DEF Derives, Process, Clause
<1>5. \A a \in Top.facts \cup new : Established(Consequences(world), Top.node, a)
  BY <1>2, PassEstablishes DEF ProcOK, Process
<1> HIDE DEF new
<1>4. /\ q \in Process /\ q.node = Top.node /\ q.goal = Top.goal /\ q.bundles = Top.bundles
      /\ q.reply = Top.reply /\ q.pc = Top.pc /\ q.facts = Top.facts \cup new
  BY <1>2, <1>3, PassOK
<1> HIDE DEF q
<1>7. ProcOK(world, depth, q)
  BY <1>1, <1>2, <1>4, <1>5, MovesOK
<1> QED BY <1>1, <1>7, BecomeIInv

(* The moves of the walk and the ends of the runs before it.               *)
LEMMA PcOK ==
  ASSUME NEW p \in Process, NEW pc \in Pcs
  PROVE  /\ [p EXCEPT !.pc = pc] \in Process
         /\ [p EXCEPT !.pc = pc].node = p.node /\ [p EXCEPT !.pc = pc].goal = p.goal
         /\ [p EXCEPT !.pc = pc].facts = p.facts /\ [p EXCEPT !.pc = pc].pc = pc
         /\ [p EXCEPT !.pc = pc].bundles = p.bundles /\ [p EXCEPT !.pc = pc].reply = p.reply
         /\ [p EXCEPT !.pc = pc].stack = p.stack /\ [p EXCEPT !.pc = pc].passes = p.passes
BY DEF Process

LEMMA FinalOK ==
  ASSUME NEW p \in Process, NEW pc \in Pcs
  PROVE  LET q == [p EXCEPT !.pc = pc, !.passes = 0]
         IN  /\ q \in Process /\ q.node = p.node /\ q.goal = p.goal /\ q.facts = p.facts /\ q.pc = pc
             /\ q.passes = 0 /\ q.visited = p.visited /\ q.fetched = p.fetched
             /\ q.bundles = p.bundles /\ q.reply = p.reply /\ q.stack = p.stack
BY DEF Process

LEMMA WalkIInv ==
  ASSUME IInv, StartWalk \/ Resume \/ NextClause \/ GoalDone \/ NextLiteral \/ ResolveLocal \/ WalkDone
  PROVE  IInv'
<1>1. depth > 0
  BY DEF StartWalk, Resume, NextClause, GoalDone, NextLiteral, ResolveLocal, WalkDone, Evaluating, Walking
<1>2. Top \in Process /\ ProcOK(world, depth, Top) /\ world \in Deployments /\ depth \in Nat
  BY <1>1, TopOK
<1>3. \A a \in Top.facts : Established(Consequences(world), Top.node, a)
  BY <1>2 DEF ProcOK
<1>4. ASSUME NEW q \in Process, Become(q),
             q.node = Top.node, q.goal = Top.goal, q.bundles = Top.bundles,
             q.reply = Top.reply, q.facts = Top.facts, q.pc \notin {"wait", "import"}
      PROVE  IInv'
  <2>1. ProcOK(world, depth, q)
    BY <1>2, <1>3, <1>4, MovesOK
  <2> QED BY <1>1, <1>4, <2>1, BecomeIInv
<1>5. CASE StartWalk
  <2> DEFINE p == [Top EXCEPT !.pc = "walk"]
  <2>1. /\ p \in Process /\ p.node = Top.node /\ p.goal = Top.goal /\ p.facts = Top.facts
        /\ p.pc = "walk" /\ p.bundles = Top.bundles /\ p.reply = Top.reply
    BY <1>2, PcOK DEF Pcs
  <2>2. Become(Enter(p, Top.goal)) /\ Top.goal \in Atoms
    BY <1>2, <1>5 DEF StartWalk, Process
  <2> HIDE DEF p
  <2> QED BY <1>4, <2>1, <2>2, EnterOK
<1>6. CASE Resume
  BY <1>2, <1>4, <1>6, PcOK DEF Resume, Pcs
<1>7. CASE WalkDone
  <2> DEFINE q == [Top EXCEPT !.pc = "final", !.passes = 0]
  <2>1. Become(q)
    BY <1>7 DEF WalkDone
  <2>2. /\ q \in Process /\ q.node = Top.node /\ q.goal = Top.goal /\ q.facts = Top.facts
        /\ q.pc = "final" /\ q.bundles = Top.bundles /\ q.reply = Top.reply
    BY <1>2, FinalOK DEF Pcs
  <2> HIDE DEF q
  <2> QED BY <1>4, <2>1, <2>2
<1>8. CASE NextClause \/ GoalDone \/ NextLiteral
  <2>1. PICK q \in {PastLiteral(Top), PastClause(Top), PastGoal(Top)} : Become(q)
    BY <1>8 DEF NextClause, GoalDone, NextLiteral
  <2>2. Top.stack # <<>> /\ Top.pc = "walk"
    BY <1>8 DEF NextClause, GoalDone, NextLiteral, Walking, AtLiteral
  <2> QED BY <1>2, <1>4, <2>1, <2>2, StackOK
<1>9. CASE ResolveLocal
  <2>1. Top.stack # <<>> /\ Top.pc = "walk" /\ Become(Enter(PastLiteral(Top), LiteralOf(Top).atom))
    BY <1>9 DEF ResolveLocal, AtLiteral
  <2>2. LiteralOf(Top).atom \in Atoms
    BY <1>1, <1>9, AtLiteralPlaced, PlacedLiteral DEF ResolveLocal
  <2>3. /\ PastLiteral(Top) \in Process
        /\ PastLiteral(Top).node = Top.node /\ PastLiteral(Top).goal = Top.goal
        /\ PastLiteral(Top).facts = Top.facts /\ PastLiteral(Top).pc = Top.pc
        /\ PastLiteral(Top).bundles = Top.bundles /\ PastLiteral(Top).reply = Top.reply
    BY <1>2, <2>1, StackOK
  <2> QED BY <1>4, <2>1, <2>2, <2>3, EnterOK
<1> QED BY <1>5, <1>6, <1>7, <1>8, <1>9

LEMMA CallIInv == ASSUME IInv, CallNode PROVE IInv'
<1> DEFINE a == LiteralOf(Top).atom
           waiting == [Top EXCEPT !.pc = "wait"]
           called == NewProcess(Home[Speaker[a]], a)
<1>1. /\ depth > 0 /\ AtLiteral(Top) /\ Says(a) /\ depth < MaxDepth
      /\ depth' = depth + 1 /\ world' = world /\ outcome' = outcome
      /\ calls' = [calls EXCEPT ![depth] = waiting, ![depth + 1] = called]
  BY DEF CallNode, IsRemote
<1>2. Top \in Process /\ ProcOK(world, depth, Top) /\ world \in Deployments
      /\ depth \in 1..MaxDepth /\ depth \in Nat
  BY <1>1, TopOK
<1>3. Placed(world, Top) /\ a \in Atoms
  BY <1>1, AtLiteralPlaced, PlacedLiteral
<1>4. Home[Speaker[a]] \in Nodes
  BY <1>1, <1>3, QueryAssumption DEF Says
<1>5. called \in Process
  BY <1>3, <1>4 DEF NewProcess, Process, Pcs
<1>6. ProcOK(world, depth + 1, called)
  BY <1>1, <1>5 DEF ProcOK, NewProcess
<1>7. /\ waiting \in Process /\ waiting.node = Top.node /\ waiting.goal = Top.goal
      /\ waiting.facts = Top.facts /\ waiting.pc = "wait" /\ waiting.stack = Top.stack
      /\ waiting.bundles = Top.bundles /\ waiting.reply = Top.reply
  BY <1>2, PcOK DEF Pcs
<1>8. Placed(world, waiting)
  BY <1>3, <1>7 DEF Placed, FrameOf
<1> HIDE DEF a, waiting, called
<1>9. ProcOK(world, depth, waiting)
  BY <1>2, <1>7, <1>8 DEF ProcOK
<1>10. DOMAIN calls' = 1..MaxDepth /\ depth' \in 0..MaxDepth
  BY <1>1, <1>2, QueryAssumption DEF IInv
<1>11. calls'[depth] = waiting /\ calls'[depth + 1] = called
       /\ \A i \in 1..depth : i < depth => calls'[i] = calls[i]
  BY <1>1, <1>2, QueryAssumption DEF IInv
<1>12. ASSUME NEW i \in 1..(depth + 1) PROVE ProcOK(world, i, calls'[i])
  <2>1. CASE i = depth + 1
    BY <1>6, <1>11, <2>1
  <2>2. CASE i = depth
    BY <1>9, <1>11, <2>2
  <2>3. CASE i < depth
    BY <1>2, <1>11, <2>3 DEF IInv
  <2> QED BY <1>2, <2>1, <2>2, <2>3
<1>13. ASSUME NEW i \in 1..(depth + 1), i < depth + 1 PROVE calls'[i].pc = "wait"
  <2>1. CASE i = depth
    BY <1>7, <1>11, <2>1
  <2>2. CASE i < depth
    BY <1>2, <1>11, <2>2 DEF IInv
  <2> QED BY <1>2, <1>13, <2>1, <2>2
<1> QED BY <1>1, <1>10, <1>12, <1>13 DEF IInv

(* The bundles of a response: what was imported, and the process's own.    *)
LEMMA ResponseOK ==
  ASSUME NEW w \in Deployments, NEW i \in Nat, NEW p, ProcOK(w, i, p), w = world
  PROVE  /\ Response(p) \in Seq(Bundle)
         /\ p.node \in w.provers => \A j \in DOMAIN Response(p) : Response(p)[j].proved
         /\ Evident(w, OwnBundle(p)) => \A j \in DOMAIN Response(p) : Evident(w, Response(p)[j])
<1>1. p \in Process /\ p.bundles \in Seq(Bundle)
  BY DEF ProcOK, Process
<1>2. OwnBundle(p) \in Bundle /\ (p.node \in w.provers => OwnBundle(p).proved)
  <2>1. p.node \in Nodes /\ p.goal \in Atoms /\ (p.node \in w.provers) \in BOOLEAN
    BY <1>1 DEF Process
  <2>2. ASSUME NEW proved \in BOOLEAN
        PROVE  [node |-> p.node, goal |-> p.goal, proved |-> proved] \in Bundle
    BY <2>1 DEF Bundle
  <2> QED BY <2>1, <2>2 DEF OwnBundle
<1>3. Response(p) \in Seq(Bundle)
      /\ \A j \in DOMAIN Response(p) :
           Response(p)[j] = OwnBundle(p) \/ \E k \in DOMAIN p.bundles : Response(p)[j] = p.bundles[k]
  BY <1>1, <1>2, AddedBundle DEF Response
<1>4. \A k \in DOMAIN p.bundles : Evident(w, p.bundles[k]) /\ (p.node \in w.provers => p.bundles[k].proved)
  BY DEF ProcOK
<1> QED BY <1>2, <1>3, <1>4

LEMMA RespondIInv == ASSUME IInv, Respond PROVE IInv'
<1> DEFINE caller == calls[depth - 1]
           q == [caller EXCEPT !.pc = "import", !.reply = Response(Top)]
<1>1. /\ depth > 1 /\ Top.goal \in Read(world, Top.node, Top.facts) /\ depth' = depth - 1
      /\ world' = world /\ outcome' = outcome /\ calls' = [calls EXCEPT ![depth - 1] = q]
  BY DEF Respond, HasAnswer, Has
<1>2. Top \in Process /\ ProcOK(world, depth, Top) /\ world \in Deployments
      /\ depth \in 1..MaxDepth /\ depth \in Nat
  <2>1. depth > 0
    BY <1>1 DEF IInv
  <2> QED BY <2>1, TopOK
<1>3. depth - 1 \in 1..depth /\ depth - 1 < depth /\ depth - 1 \in Nat /\ depth - 1 \in 1..MaxDepth
  BY <1>1, <1>2, QueryAssumption
<1>4. ProcOK(world, depth - 1, caller) /\ caller.pc = "wait"
  BY <1>3 DEF IInv
<1>5. Says(Top.goal) /\ Top.node = Home[Speaker[Top.goal]]
  BY <1>1, <1>2 DEF ProcOK
<1>6. <<Top.node, Top.goal>> \in Consequences(world)
  <2>1. Established(Consequences(world), Top.node, Top.goal)
    BY <1>1, <1>2, ReadEstablishes DEF ProcOK, Process
  <2> QED BY <1>5, <2>1 DEF Established
<1>7. Evident(world, OwnBundle(Top))
  BY <1>5, <1>6 DEF Evident, OwnBundle
<1>8. Response(Top) \in Seq(Bundle) /\ \A j \in DOMAIN Response(Top) : Evident(world, Response(Top)[j])
  BY <1>2, <1>7, ResponseOK
<1>9. caller \in Process /\ Placed(world, caller)
  BY <1>4 DEF ProcOK
<1>10. /\ q \in Process /\ q.node = caller.node /\ q.goal = caller.goal /\ q.facts = caller.facts
       /\ q.stack = caller.stack /\ q.bundles = caller.bundles /\ q.reply = Response(Top)
  BY <1>8, <1>9 DEF Process, Pcs
<1>11. Placed(world, q)
  BY <1>9, <1>10 DEF Placed, FrameOf
<1> HIDE DEF q
<1>12. ProcOK(world, depth - 1, q)
  BY <1>4, <1>8, <1>10, <1>11 DEF ProcOK
<1>13. calls'[depth - 1] = q /\ DOMAIN calls' = 1..MaxDepth
       /\ \A i \in 1..depth : i < depth - 1 => calls'[i] = calls[i]
  BY <1>1, <1>2, <1>3, QueryAssumption DEF IInv
<1>14. ASSUME NEW i \in 1..(depth - 1) PROVE ProcOK(world, i, calls'[i])
  <2>1. CASE i = depth - 1
    BY <1>12, <1>13, <2>1
  <2>2. CASE i < depth - 1
    <3>1. i \in 1..depth /\ calls'[i] = calls[i]
      BY <1>2, <1>13, <2>2
    <3> QED BY <3>1 DEF IInv
  <2> QED BY <1>2, <2>1, <2>2
<1>15. ASSUME NEW i \in 1..(depth - 1), i < depth - 1 PROVE calls'[i].pc = "wait"
  <2>1. i \in 1..depth /\ calls'[i] = calls[i] /\ i < depth
    BY <1>2, <1>13, <1>15
  <2> QED BY <2>1 DEF IInv
<1> QED BY <1>1, <1>3, <1>13, <1>14, <1>15, QueryAssumption DEF IInv

LEMMA RespondToUserIInv == ASSUME IInv, RespondToUser PROVE IInv'
<1>1. /\ depth = 1 /\ Top.goal \in Read(world, Top.node, Top.facts) /\ depth' = 0 /\ world' = world /\ calls' = calls
      /\ outcome' = Answer(Top, Response(Top))
  BY DEF RespondToUser, HasAnswer, Has
<1>2. Top \in Process /\ ProcOK(world, depth, Top) /\ world \in Deployments /\ depth \in Nat
  BY <1>1, TopOK
<1>3. Response(Top) \in Seq(Bundle)
      /\ (Top.node \in world.provers => \A j \in DOMAIN Response(Top) : Response(Top)[j].proved)
  BY <1>2, ResponseOK
<1>4. Established(Consequences(world), Top.node, Top.goal) /\ Top.node \in Nodes /\ Top.goal \in Atoms
  BY <1>1, <1>2, ReadEstablishes DEF ProcOK, Process
<1>5. OutcomeOK(world, outcome')
  BY <1>1, <1>3, <1>4 DEF OutcomeOK, Answer
<1>6. \A i \in 1..depth' : FALSE
  BY <1>1
<1> QED BY <1>1, <1>5, <1>6, QueryAssumption DEF IInv

LEMMA ImportIInv == ASSUME IInv, ImportBundle PROVE IInv'
<1> DEFINE b == Head(Top.reply)
           q == [Top EXCEPT !.facts = @ \cup {b.goal}, !.bundles = AddBundle(@, b), !.reply = Tail(@)]
<1>1. depth > 0 /\ Top.pc = "import" /\ Top.reply # <<>> /\ Verified(Top, b) /\ Become(q)
  BY DEF ImportBundle, Importing
<1>2. Top \in Process /\ ProcOK(world, depth, Top) /\ world \in Deployments
  BY <1>1, TopOK
<1>3. Top.reply \in Seq(Bundle) /\ Top.bundles \in Seq(Bundle) /\ Top.facts \subseteq Atoms
  BY <1>2 DEF Process
<1>4. b = Top.reply[1] /\ 1 \in DOMAIN Top.reply /\ b \in Bundle
  BY <1>1, <1>3
<1>5. Tail(Top.reply) \in Seq(Bundle)
      /\ \A j \in DOMAIN Tail(Top.reply) : j + 1 \in DOMAIN Top.reply /\ Tail(Top.reply)[j] = Top.reply[j + 1]
  BY <1>1, <1>3
<1>6. Evident(world, b) /\ (Top.node \in world.provers => b.proved) /\ b.goal \in Atoms
  BY <1>1, <1>2, <1>4 DEF ProcOK, Verified, Bundle
<1>7. /\ AddBundle(Top.bundles, b) \in Seq(Bundle)
      /\ \A j \in DOMAIN AddBundle(Top.bundles, b) :
           AddBundle(Top.bundles, b)[j] = b
           \/ \E k \in DOMAIN Top.bundles : AddBundle(Top.bundles, b)[j] = Top.bundles[k]
  BY <1>3, <1>4, AddedBundle
<1>8. /\ q \in Process /\ q.node = Top.node /\ q.goal = Top.goal /\ q.pc = Top.pc
      /\ q.stack = Top.stack /\ q.facts = Top.facts \cup {b.goal}
      /\ q.bundles = AddBundle(Top.bundles, b) /\ q.reply = Tail(Top.reply)
  BY <1>2, <1>3, <1>5, <1>6, <1>7 DEF Process
<1>9. Placed(world, q)
  BY <1>1, <1>2, <1>8 DEF ProcOK, Placed, FrameOf
<1>10. \A a \in Top.facts \cup {b.goal} : Established(Consequences(world), Top.node, a)
  BY <1>2, <1>6 DEF ProcOK, Evident, Established
<1>11. \A j \in DOMAIN AddBundle(Top.bundles, b) :
         /\ Evident(world, AddBundle(Top.bundles, b)[j])
         /\ Top.node \in world.provers => AddBundle(Top.bundles, b)[j].proved
  BY <1>2, <1>6, <1>7 DEF ProcOK
<1>12. \A j \in DOMAIN Tail(Top.reply) : Evident(world, Tail(Top.reply)[j])
  BY <1>2, <1>5 DEF ProcOK
<1>13. depth > 1 => Says(Top.goal) /\ Top.node = Home[Speaker[Top.goal]]
  BY <1>2 DEF ProcOK
<1> HIDE DEF q, b
<1>14. ProcOK(world, depth, q)
  BY <1>8, <1>9, <1>10, <1>11, <1>12, <1>13 DEF ProcOK
<1> QED BY <1>1, <1>14, BecomeIInv

LEMMA ImportDoneIInv == ASSUME IInv, ImportDone PROVE IInv'
<1> DEFINE q == [Top EXCEPT !.fetched = @ \cup {LiteralOf(Top).atom}, !.pc = "rerun", !.passes = 0]
<1>1. depth > 0 /\ Top.pc = "import" /\ Become(PastLiteral(q))
  BY DEF ImportDone, Importing
<1>2. Top \in Process /\ ProcOK(world, depth, Top) /\ world \in Deployments /\ depth \in Nat
  BY <1>1, TopOK
<1>3. Placed(world, Top)
  BY <1>1, <1>2 DEF ProcOK
<1>4. LiteralOf(Top).atom \in Atoms /\ Top.stack # <<>>
  BY <1>1, <1>3, PlacedLiteral DEF Placed
<1>5. /\ q \in Process /\ q.node = Top.node /\ q.goal = Top.goal /\ q.pc = "rerun"
      /\ q.facts = Top.facts /\ q.stack = Top.stack /\ q.bundles = Top.bundles /\ q.reply = Top.reply
  BY <1>2, <1>4 DEF Process, Pcs
<1> HIDE DEF q
<1>6. /\ PastLiteral(q) \in Process /\ PastLiteral(q).node = Top.node /\ PastLiteral(q).goal = Top.goal
      /\ PastLiteral(q).facts = Top.facts /\ PastLiteral(q).pc = "rerun"
      /\ PastLiteral(q).bundles = Top.bundles /\ PastLiteral(q).reply = Top.reply
  BY <1>4, <1>5, StackOK
<1>7. \A a \in Top.facts : Established(Consequences(world), Top.node, a)
  BY <1>2 DEF ProcOK
<1>8. ProcOK(world, depth, PastLiteral(q))
  BY <1>2, <1>6, <1>7, MovesOK
<1> QED BY <1>1, <1>8, BecomeIInv

LEMMA NextIInv == IInv /\ [Next]_vars => IInv'
<1> SUFFICES ASSUME IInv, [Next]_vars PROVE IInv'
  OBVIOUS
<1>1. CASE \E a \in Asked : Ask(a[1], a[2])
  BY <1>1, AskIInv, QueryAssumption
<1>2. CASE Evaluate
  BY <1>2, EvaluateIInv
<1>3. CASE StartWalk \/ Resume \/ NextClause \/ GoalDone \/ NextLiteral \/ ResolveLocal \/ WalkDone
  BY <1>3, WalkIInv
<1>4. CASE CallNode
  BY <1>4, CallIInv
<1>5. CASE CallFails \/ NoAnswers \/ ImportFails \/ Lost
  BY <1>5, AbortIInv DEF CallFails, NoAnswers, ImportFails, Lost
<1>6. CASE Respond
  BY <1>6, RespondIInv
<1>7. CASE RespondToUser
  BY <1>7, RespondToUserIInv
<1>8. CASE ImportBundle
  BY <1>8, ImportIInv
<1>9. CASE ImportDone
  BY <1>9, ImportDoneIInv
<1>10. CASE UNCHANGED vars
  BY <1>10 DEF vars, IInv
<1> QED BY <1>1, <1>2, <1>3, <1>4, <1>5, <1>6, <1>7, <1>8, <1>9, <1>10 DEF Next, Work

LEMMA SpecIInv == Spec => []IInv
<1> QED BY InitIInv, NextIInv, PTL DEF Spec

-----------------------------------------------------------------------------
(* Type correctness of the processes of a query, their walks and bundles.  *)
THEOREM QueryTypeOK == Spec => []TypeOK
<1>1. IInv => TypeOK
  BY DEF IInv, ProcOK, OutcomeOK, TypeOK
<1> QED BY <1>1, SpecIInv, PTL

(* distributed.c 1765-1903: whatever nodes a query wandered through, its   *)
(* answer follows from the rules of the nodes, where a statement counts    *)
(* that its principal's home derives; for every deployment, and however    *)
(* processes and connections fail.                                         *)
THEOREM QueryAnswersFollow == Spec => []AnswersFollow
<1>1. IInv => AnswersFollow
  BY DEF IInv, OutcomeOK, AnswersFollow
<1> QED BY <1>1, SpecIInv, PTL

(* distributed.c 1569-1594: no process holds evidence for a principal that *)
(* was not derived at that principal's home.                               *)
THEOREM QueryEvidenceFromHome == Spec => []EvidenceFromHome
<1>1. IInv => EvidenceFromHome
  BY DEF IInv, ProcOK, Evident, EvidenceFromHome
<1> QED BY <1>1, SpecIInv, PTL

(* distributed.c 1576-1581: a node with a prover holds and hands on proved *)
(* bundles only.                                                           *)
THEOREM QueryProvedChain == Spec => []ProvedChain
<1>1. IInv => ProvedChain
  BY DEF IInv, ProcOK, OutcomeOK, ProvedChain
<1> QED BY <1>1, SpecIInv, PTL

-----------------------------------------------------------------------------
(* The goals a walk has open were visited, and are different ones.         *)
WalkOK(p) ==
  /\ \A j \in DOMAIN p.stack : p.stack[j].goal \in p.visited
  /\ \A j, k \in DOMAIN p.stack : p.stack[j].goal = p.stack[k].goal => j = k
Walks == \A i \in 1..depth : WalkOK(calls[i])

LEMMA EnterWalks ==
  ASSUME NEW p \in Process, NEW a \in Atoms, WalkOK(p)
  PROVE  WalkOK(Enter(p, a))
<1>1. CASE a \in p.visited
  BY <1>1 DEF Enter
<1>2. CASE a \notin p.visited /\ Has(p, a)
  <2>1. Enter(p, a).stack = p.stack /\ Enter(p, a).visited = p.visited \cup {a}
    BY <1>2 DEF Enter, Process
  <2> QED BY <2>1 DEF WalkOK
<1>3. CASE a \notin p.visited /\ ~ Has(p, a)
  <2> DEFINE f == [goal |-> a, clause |-> 1, literal |-> 1]
             pushed == Append(p.stack, f)
  <2>1. Enter(p, a).stack = pushed /\ Enter(p, a).visited = p.visited \cup {a}
    BY <1>3 DEF Enter, Process
  <2>2. f \in Frame /\ f.goal = a
    BY DEF Frame
  <2> HIDE DEF f
  <2>3. /\ p.stack \in Seq(Frame) /\ DOMAIN pushed = DOMAIN p.stack \cup {Len(p.stack) + 1}
        /\ pushed[Len(p.stack) + 1] = f /\ Len(p.stack) + 1 \notin DOMAIN p.stack
        /\ \A j \in DOMAIN p.stack : pushed[j] = p.stack[j]
    BY <2>2 DEF Process
  <2> HIDE DEF pushed
  <2> QED BY <1>3, <2>1, <2>2, <2>3 DEF WalkOK
<1> QED BY <1>1, <1>2, <1>3

LEMMA PastWalks ==
  ASSUME NEW p \in Process, p.stack # <<>>, WalkOK(p)
  PROVE  WalkOK(PastLiteral(p)) /\ WalkOK(PastClause(p)) /\ WalkOK(PastGoal(p))
<1>1. p.stack \in Seq(Frame) /\ Len(p.stack) \in DOMAIN p.stack /\ Len(p.stack) \in Nat
      /\ FrameOf(p) \in Frame /\ FrameOf(p) = p.stack[Len(p.stack)]
  BY DEF Process, FrameOf
<1>2. ASSUME NEW f, f.goal = FrameOf(p).goal PROVE WalkOK(PutFrame(p, f))
  <2>1. PutFrame(p, f).stack = [p.stack EXCEPT ![Len(p.stack)] = f]
        /\ PutFrame(p, f).visited = p.visited
    BY DEF PutFrame, Process
  <2>2. /\ DOMAIN PutFrame(p, f).stack = DOMAIN p.stack
        /\ \A j \in DOMAIN p.stack : PutFrame(p, f).stack[j].goal = p.stack[j].goal
    BY <1>1, <1>2, <2>1
  <2> QED BY <2>1, <2>2 DEF WalkOK
<1>3. /\ [FrameOf(p) EXCEPT !.literal = @ + 1].goal = FrameOf(p).goal
      /\ [FrameOf(p) EXCEPT !.clause = @ + 1, !.literal = 1].goal = FrameOf(p).goal
  BY <1>1 DEF Frame
<1>4. WalkOK(PastGoal(p))
  <2> DEFINE rest == SubSeq(p.stack, 1, Len(p.stack) - 1)
  <2>1. PastGoal(p).stack = rest /\ PastGoal(p).visited = p.visited
    BY DEF PastGoal, Process
  <2>2. DOMAIN rest \subseteq DOMAIN p.stack /\ \A j \in DOMAIN rest : rest[j] = p.stack[j]
    BY <1>1
  <2> HIDE DEF rest
  <2> QED BY <2>1, <2>2 DEF WalkOK
<1> QED BY <1>2, <1>3, <1>4 DEF PastLiteral, PastClause

(* A change of the process at work that leaves its walk in order.          *)
LEMMA BecomeWalks ==
  ASSUME IInv, Walks, depth > 0, NEW p, Become(p), WalkOK(p)
  PROVE  Walks'
<1>1. depth' = depth /\ calls' = [calls EXCEPT ![depth] = p]
      /\ 1..depth \subseteq DOMAIN calls
  BY QueryAssumption DEF Become, IInv
<1> QED BY <1>1 DEF Walks

(* A process that neither enters nor leaves a goal.                        *)
LEMMA SameWalk ==
  ASSUME NEW p, NEW q, WalkOK(p), q.stack = p.stack, q.visited = p.visited
  PROVE  WalkOK(q)
BY DEF WalkOK

LEMMA NextWalks ==
  ASSUME IInv, Walks, [Next]_vars
  PROVE  Walks'
<1>1. ASSUME depth > 0 PROVE Top \in Process /\ WalkOK(Top) /\ depth \in Nat
  BY <1>1, TopOK DEF Walks, Top
<1>2. CASE \E a \in Asked : Ask(a[1], a[2])
  <2>1. PICK a \in Asked : Ask(a[1], a[2])
    BY <1>2
  <2>2. depth' = 1 /\ calls'[1] = NewProcess(a[1], a[2])
    BY <2>1, QueryAssumption DEF Ask, IInv
  <2>3. WalkOK(NewProcess(a[1], a[2]))
    BY DEF WalkOK, NewProcess
  <2> QED BY <2>2, <2>3 DEF Walks
<1>3. CASE Evaluate
  BY <1>1, <1>3, BecomeWalks, SameWalk DEF Evaluate, Evaluating, Process
<1>4. CASE StartWalk
  <2>1. [Top EXCEPT !.pc = "walk"] \in Process /\ WalkOK([Top EXCEPT !.pc = "walk"])
        /\ Top.goal \in Atoms /\ depth > 0
    BY <1>1, <1>4, SameWalk DEF StartWalk, Evaluating, Process, Pcs
  <2> QED BY <1>4, <2>1, EnterWalks, BecomeWalks DEF StartWalk
<1>5. CASE Resume \/ WalkDone
  BY <1>1, <1>5, BecomeWalks, SameWalk DEF Resume, WalkDone, Evaluating, Process
<1>6. CASE NextClause \/ GoalDone \/ NextLiteral
  <2>1. depth > 0 /\ Top.stack # <<>>
    BY <1>6 DEF NextClause, GoalDone, NextLiteral, Walking, AtLiteral
  <2>2. WalkOK(PastLiteral(Top)) /\ WalkOK(PastClause(Top)) /\ WalkOK(PastGoal(Top))
    BY <1>1, <2>1, PastWalks
  <2> QED BY <1>6, <2>1, <2>2, BecomeWalks DEF NextClause, GoalDone, NextLiteral
<1>7. CASE ResolveLocal
  <2>1. depth > 0 /\ Top.stack # <<>> /\ AtLiteral(Top)
        /\ Become(Enter(PastLiteral(Top), LiteralOf(Top).atom))
    BY <1>7 DEF ResolveLocal, AtLiteral
  <2>2. LiteralOf(Top).atom \in Atoms
    BY <2>1, AtLiteralPlaced, PlacedLiteral
  <2>3. PastLiteral(Top) \in Process /\ WalkOK(PastLiteral(Top))
    BY <1>1, <2>1, StackOK, PastWalks
  <2>4. WalkOK(Enter(PastLiteral(Top), LiteralOf(Top).atom))
    BY <2>2, <2>3, EnterWalks
  <2> QED BY <2>1, <2>4, BecomeWalks
<1>8. CASE CallNode
  <2> DEFINE a == LiteralOf(Top).atom
             waiting == [Top EXCEPT !.pc = "wait"]
             called == NewProcess(Home[Speaker[a]], a)
  <2>1. depth > 0 /\ depth < MaxDepth /\ depth' = depth + 1
        /\ calls' = [calls EXCEPT ![depth] = waiting, ![depth + 1] = called]
    BY <1>8 DEF CallNode
  <2>2. WalkOK(waiting) /\ WalkOK(called)
    BY <1>1, <2>1, SameWalk DEF Process, WalkOK, NewProcess
  <2> HIDE DEF waiting, called
  <2>3. 1..(depth + 1) \subseteq DOMAIN calls /\ depth \in Nat
    BY <1>1, <2>1, QueryAssumption DEF IInv
  <2> QED BY <2>1, <2>2, <2>3 DEF Walks
<1>9. CASE CallFails \/ NoAnswers \/ ImportFails \/ RespondToUser \/ Lost
  <2>1. depth' = 0
    BY <1>9 DEF CallFails, NoAnswers, ImportFails, RespondToUser, Lost, Abort
  <2> QED BY <2>1 DEF Walks
<1>10. CASE Respond
  <2> DEFINE caller == calls[depth - 1]
             q == [caller EXCEPT !.pc = "import", !.reply = Response(Top)]
  <2>1. depth > 1 /\ depth' = depth - 1 /\ calls' = [calls EXCEPT ![depth - 1] = q]
    BY <1>10 DEF Respond
  <2>2. depth \in Nat /\ depth - 1 \in 1..depth /\ 1..(depth - 1) \subseteq DOMAIN calls
    BY <1>1, <2>1, QueryAssumption DEF IInv
  <2>3. caller \in Process /\ WalkOK(caller)
    BY <2>2 DEF IInv, ProcOK, Walks
  <2>4. WalkOK(q)
    BY <2>3, SameWalk DEF Process
  <2> HIDE DEF q
  <2> QED BY <2>1, <2>2, <2>4 DEF Walks
<1>11. CASE ImportBundle
  BY <1>1, <1>11, BecomeWalks, SameWalk DEF ImportBundle, Importing, Process
<1>12. CASE ImportDone
  <2> DEFINE q == [Top EXCEPT !.fetched = @ \cup {LiteralOf(Top).atom}, !.pc = "rerun", !.passes = 0]
  <2>1. depth > 0 /\ Top.pc = "import" /\ Become(PastLiteral(q))
    BY <1>12 DEF ImportDone, Importing
  <2>2. Placed(world, Top)
    BY <2>1, TopOK DEF ProcOK
  <2>3. LiteralOf(Top).atom \in Atoms /\ Top.stack # <<>>
    BY <2>1, <2>2, PlacedLiteral DEF Placed
  <2>4. q \in Process /\ q.stack = Top.stack /\ q.visited = Top.visited
    BY <1>1, <2>1, <2>3 DEF Process, Pcs
  <2> HIDE DEF q
  <2>5. WalkOK(PastLiteral(q))
    BY <1>1, <2>1, <2>3, <2>4, SameWalk, PastWalks
  <2> QED BY <2>1, <2>5, BecomeWalks
<1>13. CASE UNCHANGED vars
  BY <1>13 DEF vars, Walks
<1> QED BY <1>2, <1>3, <1>4, <1>5, <1>6, <1>7, <1>8, <1>9, <1>10, <1>11, <1>12, <1>13
        DEF Next, Work

(* distributed.c 1732-1741: rules of one node may need each other, through *)
(* other nodes too, and the recursion over the goals of a process never    *)
(* has one goal open twice; so it goes no deeper than there are goals.     *)
THEOREM QueryNoGoalOpenTwice == Spec => []NoGoalOpenTwice
<1>1. Init => Walks
  BY DEF Init, Walks
<1>2. Walks => NoGoalOpenTwice
  BY DEF Walks, WalkOK, NoGoalOpenTwice
<1> QED BY <1>1, <1>2, InitIInv, NextIInv, NextWalks, SpecIInv, PTL DEF Spec

-----------------------------------------------------------------------------
(* A step of the process at work that leaves what it knows alone, after    *)
(* its first run.                                                          *)
Quiet(p, q) ==
  /\ q.node = p.node /\ q.facts = p.facts /\ q.bundles = p.bundles /\ q.reply = p.reply
  /\ q.passes \in {p.passes, 0}
  /\ p.pc = "load" => Derives(world, p.node, p.facts) \subseteq p.facts \/ p.passes = MaxPasses
  /\ q.pc # "load"

(* The moves of the walk and the end of an import are.                     *)
LEMMA QuietMoves ==
  ASSUME IInv, \/ StartWalk \/ Resume \/ NextClause \/ GoalDone \/ NextLiteral
               \/ ResolveLocal \/ WalkDone \/ ImportDone
  PROVE  depth > 0 /\ \E q : Become(q) /\ Quiet(Top, q)
<1>1. depth > 0
  BY DEF StartWalk, Resume, NextClause, GoalDone, NextLiteral, ResolveLocal, WalkDone, ImportDone,
         Evaluating, Walking, Importing
<1>2. Top \in Process
  BY <1>1, TopOK
<1>3. CASE StartWalk
  <2> DEFINE p == [Top EXCEPT !.pc = "walk"]
  <2>1. /\ p \in Process /\ p.node = Top.node /\ p.facts = Top.facts /\ p.pc = "walk"
        /\ p.bundles = Top.bundles /\ p.reply = Top.reply /\ p.passes = Top.passes
    BY <1>2, PcOK DEF Pcs
  <2>2. Become(Enter(p, Top.goal)) /\ Top.goal \in Atoms /\ RunOver
    BY <1>2, <1>3 DEF StartWalk, Process
  <2> HIDE DEF p
  <2>3. Quiet(Top, Enter(p, Top.goal))
    BY <1>2, <2>1, <2>2, EnterOK DEF Quiet, RunOver, Settled
  <2> QED BY <1>1, <2>2, <2>3
<1>4. CASE Resume
  BY <1>1, <1>2, <1>4, PcOK DEF Resume, Pcs, Quiet
<1>5. CASE WalkDone
  <2> DEFINE q == [Top EXCEPT !.pc = "final", !.passes = 0]
  <2>1. Become(q)
    BY <1>5 DEF WalkDone
  <2>2. /\ q.node = Top.node /\ q.facts = Top.facts /\ q.pc = "final"
        /\ q.bundles = Top.bundles /\ q.reply = Top.reply /\ q.passes = 0
    BY <1>2, FinalOK DEF Pcs
  <2> HIDE DEF q
  <2>3. Quiet(Top, q)
    BY <1>5, <2>2 DEF Quiet, WalkDone
  <2> QED BY <1>1, <2>1, <2>3
<1>6. CASE NextClause \/ GoalDone \/ NextLiteral
  <2>1. PICK q \in {PastLiteral(Top), PastClause(Top), PastGoal(Top)} : Become(q)
    BY <1>6 DEF NextClause, GoalDone, NextLiteral
  <2>2. Top.stack # <<>> /\ Top.pc = "walk"
    BY <1>6 DEF NextClause, GoalDone, NextLiteral, Walking, AtLiteral
  <2>3. Quiet(Top, q)
    BY <1>2, <2>1, <2>2, StackOK DEF Quiet
  <2> QED BY <1>1, <2>1, <2>3
<1>7. CASE ResolveLocal
  <2>1. Top.stack # <<>> /\ Top.pc = "walk" /\ Become(Enter(PastLiteral(Top), LiteralOf(Top).atom))
    BY <1>7 DEF ResolveLocal, AtLiteral
  <2>2. LiteralOf(Top).atom \in Atoms
    BY <1>1, <1>7, AtLiteralPlaced, PlacedLiteral DEF ResolveLocal
  <2>3. /\ PastLiteral(Top) \in Process /\ PastLiteral(Top).pc = "walk"
        /\ PastLiteral(Top).node = Top.node /\ PastLiteral(Top).facts = Top.facts
        /\ PastLiteral(Top).bundles = Top.bundles /\ PastLiteral(Top).reply = Top.reply
        /\ PastLiteral(Top).passes = Top.passes
    BY <1>2, <2>1, StackOK
  <2>4. Quiet(Top, Enter(PastLiteral(Top), LiteralOf(Top).atom))
    BY <2>1, <2>2, <2>3, EnterOK DEF Quiet
  <2> QED BY <1>1, <2>1, <2>4
<1>8. CASE ImportDone
  <2> DEFINE q == [Top EXCEPT !.fetched = @ \cup {LiteralOf(Top).atom}, !.pc = "rerun", !.passes = 0]
  <2>1. Top.pc = "import" /\ Become(PastLiteral(q))
    BY <1>8 DEF ImportDone, Importing
  <2>2. Placed(world, Top)
    BY <1>1, <2>1, TopOK DEF ProcOK
  <2>3. LiteralOf(Top).atom \in Atoms /\ Top.stack # <<>>
    BY <1>1, <2>2, PlacedLiteral DEF Placed
  <2>4. /\ q \in Process /\ q.stack = Top.stack /\ q.node = Top.node /\ q.facts = Top.facts
        /\ q.pc = "rerun" /\ q.bundles = Top.bundles /\ q.reply = Top.reply /\ q.passes = 0
    BY <1>2, <2>3 DEF Process, Pcs
  <2> HIDE DEF q
  <2>5. Quiet(Top, PastLiteral(q))
    BY <2>1, <2>3, <2>4, StackOK DEF Quiet
  <2> QED BY <1>1, <2>1, <2>5
<1> QED BY <1>3, <1>4, <1>5, <1>6, <1>7, <1>8

-----------------------------------------------------------------------------
(* The chain of bundles                                                    *)

GoalsOf(list) == {list[j].goal : j \in DOMAIN list}
Distinct(list) ==
  \A i, j \in DOMAIN list : list[i].node = list[j].node /\ list[i].goal = list[j].goal => i = j

(* A set a node may store, by its clauses and by what it reads, if negated *)
(* literals are granted; what is in every such set, and what is read off   *)
(* every one, when some is given. To be read a statement must be stored:   *)
(* nothing is read off what is read.                                       *)
StoresAt(w, n, S) ==
  \A c \in Clauses(w, n) : (\A l \in LiteralsOf(c) : HoldsUntested(w, n, l, S)) => c.head \in S
KeepsAt(w, n, given, a) ==
  \A S \in SUBSET Atoms : given \subseteq S /\ StoresAt(w, n, S) => a \in S
FindsAt(w, n, given, a) ==
  \A S \in SUBSET Atoms : given \subseteq S /\ StoresAt(w, n, S) => a \in Read(w, n, S)
FoundFrom(w, given, list) ==
  \A i \in DOMAIN list :
    FindsAt(w, list[i].node, given \cup GoalsBefore(list, i), list[i].goal)

LEMMA FindsFollows ==
  ASSUME NEW w \in Deployments, NEW n \in Nodes, NEW given, NEW a, FindsAt(w, n, given, a)
  PROVE  FollowsAt(w, n, given, a)
<1> SUFFICES ASSUME NEW M \in SUBSET Atoms, given \subseteq M, ClosedAt(w, n, M)
             PROVE  a \in M
  BY DEF FollowsAt
<1>1. ASSUME NEW x \in Read(w, n, M), x \notin M PROVE FALSE
  <2>1. PICK r \in w.reads[n] : r.head = x /\ \A l \in LiteralsOf(r) : l.kind = "atom" /\ l.atom \in M
    BY <1>1, ReadFound
  <2>2. \A l \in LiteralsOf(r) : GrantsAt(w, M, l)
    BY <2>1 DEF GrantsAt
  <2> QED BY <1>1, <2>1, <2>2 DEF ClosedAt, Rules
<1>2. Read(w, n, M) \subseteq M
  BY <1>1
<1>3. ASSUME NEW c \in Clauses(w, n), \A l \in LiteralsOf(c) : HoldsUntested(w, n, l, M)
      PROVE  c.head \in M
  <2>1. \A l \in LiteralsOf(c) : GrantsAt(w, M, l)
    BY <1>2, <1>3 DEF HoldsUntested, GrantsAt
  <2> QED BY <2>1 DEF ClosedAt, Rules
<1>4. StoresAt(w, n, M)
  BY <1>3 DEF StoresAt
<1> QED BY <1>2, <1>4 DEF FindsAt

(* What a process holds can be replayed, what is left of a response can be *)
(* once that is taken in, and the facts of the process follow from it.     *)
ChainOK(w, p) ==
  /\ Distinct(p.bundles)
  /\ FoundFrom(w, {}, p.bundles)
  /\ FoundFrom(w, GoalsOf(p.bundles), p.reply)
  /\ \A a \in p.facts : KeepsAt(w, p.node, GoalsOf(p.bundles), a)

(* Chains are replayed in w, the deployment or one like it.                *)
ChainsIn(w) ==
  /\ \A i \in 1..depth : ChainOK(w, calls[i])
  /\ IsAnswer(outcome) => Distinct(outcome.bundles) /\ FoundFrom(w, {}, outcome.bundles)
Chains == ChainsIn(world)

(* What the process at work derives in one pass is stored in w.            *)
PassKeepsIn(w) ==
  (\A a \in Top.facts : KeepsAt(w, Top.node, GoalsOf(Top.bundles), a))
    => \A a \in Derives(world, Top.node, Top.facts) : KeepsAt(w, Top.node, GoalsOf(Top.bundles), a)

LEMMA FindsMore ==
  ASSUME NEW w, NEW n, NEW given, NEW more, given \subseteq more, NEW a
  PROVE  /\ FindsAt(w, n, given, a) => FindsAt(w, n, more, a)
         /\ KeepsAt(w, n, given, a) => KeepsAt(w, n, more, a)
BY DEF FindsAt, KeepsAt

LEMMA FoundMore ==
  ASSUME NEW w, NEW given, NEW more, given \subseteq more, NEW list, FoundFrom(w, given, list)
  PROVE  FoundFrom(w, more, list)
<1> SUFFICES ASSUME NEW i \in DOMAIN list
             PROVE  FindsAt(w, list[i].node, more \cup GoalsBefore(list, i), list[i].goal)
  BY DEF FoundFrom
<1>1. FindsAt(w, list[i].node, given \cup GoalsBefore(list, i), list[i].goal)
  BY DEF FoundFrom
<1>2. given \cup GoalsBefore(list, i) \subseteq more \cup GoalsBefore(list, i)
  OBVIOUS
<1> QED BY <1>1, <1>2, FindsMore

(* What is read from facts that are stored is found: in v, where links are *)
(* read as they are in w.                                                  *)
LEMMA ReadFinds ==
  ASSUME NEW w, NEW v, v.reads = w.reads, NEW n, NEW given, NEW facts,
         \A a \in facts : KeepsAt(v, n, given, a)
  PROVE  \A a \in Read(w, n, facts) : FindsAt(v, n, given, a)
<1> SUFFICES ASSUME NEW S \in SUBSET Atoms, given \subseteq S, StoresAt(v, n, S)
             PROVE  Read(w, n, facts) \subseteq Read(v, n, S)
  BY DEF FindsAt
<1>1. facts \subseteq S
  BY DEF KeepsAt
<1> QED BY <1>1 DEF Read

(* What one pass derives from facts that are stored is stored.             *)
LEMMA PassKeeps ==
  ASSUME NEW w, NEW n, NEW given, NEW facts, \A a \in facts : KeepsAt(w, n, given, a)
  PROVE  \A a \in Derives(w, n, facts) : KeepsAt(w, n, given, a)
<1> SUFFICES ASSUME NEW a \in Derives(w, n, facts),
                    NEW S \in SUBSET Atoms, given \subseteq S, StoresAt(w, n, S)
             PROVE  a \in S
  BY DEF KeepsAt
<1>1. PICK c \in Clauses(w, n) : a = c.head /\ \A l \in LiteralsOf(c) : Holds(w, n, l, facts)
  BY DEF Derives
<1>2. facts \subseteq S
  BY DEF KeepsAt
<1>3. Read(w, n, facts) \subseteq Read(w, n, S)
  BY <1>2, ReadMore
<1>4. \A l \in LiteralsOf(c) : HoldsUntested(w, n, l, S)
  BY <1>1, <1>3 DEF Holds, HoldsUntested
<1> QED BY <1>1, <1>4 DEF StoresAt

LEMMA AddChain ==
  ASSUME NEW w, NEW list \in Seq(Bundle), NEW b \in Bundle, Distinct(list),
         FoundFrom(w, {}, list), FindsAt(w, b.node, GoalsOf(list), b.goal)
  PROVE  /\ Distinct(AddBundle(list, b))
         /\ FoundFrom(w, {}, AddBundle(list, b))
         /\ GoalsOf(AddBundle(list, b)) = GoalsOf(list) \cup {b.goal}
<1>1. CASE \E i \in DOMAIN list : list[i].node = b.node /\ list[i].goal = b.goal
  BY <1>1 DEF AddBundle, GoalsOf
<1>2. CASE ~ \E i \in DOMAIN list : list[i].node = b.node /\ list[i].goal = b.goal
  <2> DEFINE longer == Append(list, b)
             n == Len(list) + 1
  <2>1. /\ DOMAIN longer = DOMAIN list \cup {n} /\ longer[n] = b /\ n \notin DOMAIN list
        /\ \A j \in DOMAIN list : longer[j] = list[j]
        /\ DOMAIN list = 1..(n - 1) /\ n \in Nat
    OBVIOUS
  <2>2. AddBundle(list, b) = longer
    BY <1>2 DEF AddBundle
  <2> HIDE DEF longer, n
  <2>3. Distinct(longer)
    BY <1>2, <2>1 DEF Distinct
  <2>4. GoalsOf(longer) = GoalsOf(list) \cup {b.goal}
    BY <2>1 DEF GoalsOf
  <2>5. GoalsBefore(longer, n) = GoalsOf(list)
    BY <2>1 DEF GoalsBefore, GoalsOf
  <2>6. ASSUME NEW i \in DOMAIN list PROVE GoalsBefore(longer, i) = GoalsBefore(list, i)
    <3>1. \A j \in 1..(i - 1) : longer[j] = list[j]
      BY <2>1
    <3> QED BY <3>1 DEF GoalsBefore
  <2>7. FoundFrom(w, {}, longer)
    <3> SUFFICES ASSUME NEW i \in DOMAIN longer
                 PROVE  FindsAt(w, longer[i].node, {} \cup GoalsBefore(longer, i), longer[i].goal)
      BY DEF FoundFrom
    <3>1. CASE i = n
      <4>1. {} \cup GoalsBefore(longer, i) = GoalsOf(list)
        BY <2>5, <3>1
      <4> QED BY <2>1, <3>1, <4>1
    <3>2. CASE i \in DOMAIN list
      <4>1. FindsAt(w, list[i].node, {} \cup GoalsBefore(list, i), list[i].goal)
        BY <3>2 DEF FoundFrom
      <4> QED BY <2>1, <2>6, <3>2, <4>1
    <3> QED BY <2>1, <3>1, <3>2
  <2> QED BY <2>2, <2>3, <2>4, <2>7
<1> QED BY <1>1, <1>2

LEMMA TailChain ==
  ASSUME NEW w, NEW given, NEW list \in Seq(Bundle), list # <<>>, FoundFrom(w, given, list)
  PROVE  /\ FindsAt(w, Head(list).node, given, Head(list).goal)
         /\ FoundFrom(w, given \cup {Head(list).goal}, Tail(list))
<1> DEFINE rest == Tail(list)
<1>1. /\ Head(list) = list[1] /\ 1 \in DOMAIN list /\ Len(list) \in Nat
      /\ DOMAIN rest = 1..(Len(list) - 1) /\ DOMAIN list = 1..Len(list)
      /\ \A i \in DOMAIN rest : i + 1 \in DOMAIN list /\ rest[i] = list[i + 1]
  OBVIOUS
<1> HIDE DEF rest
<1>2. given \cup GoalsBefore(list, 1) = given
  BY DEF GoalsBefore
<1>3. FindsAt(w, list[1].node, given \cup GoalsBefore(list, 1), list[1].goal)
  BY <1>1 DEF FoundFrom
<1>4. ASSUME NEW i \in DOMAIN rest
      PROVE  FindsAt(w, rest[i].node, (given \cup {list[1].goal}) \cup GoalsBefore(rest, i), rest[i].goal)
  <2>1. i + 1 \in DOMAIN list /\ rest[i] = list[i + 1] /\ i \in Nat \ {0} /\ i <= Len(list) - 1
    BY <1>1
  <2>2. GoalsBefore(list, i + 1) = {list[1].goal} \cup GoalsBefore(rest, i)
    <3>1. ASSUME NEW j \in 1..(i - 1)
          PROVE  rest[j] = list[j + 1] /\ j + 1 \in 1..((i + 1) - 1)
      BY <1>1, <2>1
    <3>2. ASSUME NEW j \in 1..((i + 1) - 1), j # 1
          PROVE  j - 1 \in 1..(i - 1) /\ rest[j - 1] = list[j]
      <4>1. j - 1 \in 1..(i - 1) /\ (j - 1) + 1 = j
        BY <2>1, <3>2
      <4> QED BY <3>1, <4>1
    <3>3. 1 \in 1..((i + 1) - 1)
      BY <2>1
    <3>4. GoalsBefore(list, i + 1) \subseteq {list[1].goal} \cup GoalsBefore(rest, i)
      BY <3>2 DEF GoalsBefore
    <3>5. {list[1].goal} \cup GoalsBefore(rest, i) \subseteq GoalsBefore(list, i + 1)
      BY <3>1, <3>3 DEF GoalsBefore
    <3> QED BY <3>4, <3>5
  <2>3. FindsAt(w, list[i + 1].node, given \cup GoalsBefore(list, i + 1), list[i + 1].goal)
    BY <2>1 DEF FoundFrom
  <2>4. given \cup GoalsBefore(list, i + 1) = (given \cup {list[1].goal}) \cup GoalsBefore(rest, i)
    BY <2>2
  <2> QED BY <2>1, <2>3, <2>4
<1> QED BY <1>1, <1>2, <1>3, <1>4 DEF FoundFrom, rest

(* A step that leaves the bundles of a process alone.                      *)
LEMMA SameChain ==
  ASSUME NEW w, NEW p, NEW q, ChainOK(w, p), q.node = p.node,
         q.bundles = p.bundles, q.reply = p.reply, q.facts = p.facts
  PROVE  ChainOK(w, q)
BY DEF ChainOK

LEMMA NewChain ==
  ASSUME NEW w, NEW n, NEW g
  PROVE  ChainOK(w, NewProcess(n, g))
BY DEF ChainOK, NewProcess, Distinct, FoundFrom

(* No step changes the deployment.                                         *)
LEMMA NextWorld == [Next]_vars => world' = world
BY DEF Next, Work, vars, Ask, Evaluate, StartWalk, Resume, NextClause, GoalDone, NextLiteral,
       ResolveLocal, CallNode, CallFails, WalkDone, NoAnswers, Respond, RespondToUser,
       ImportBundle, ImportFails, ImportDone, Lost, Become, Abort

LEMMA BecomeChains ==
  ASSUME NEW w, IInv, ChainsIn(w), depth > 0, NEW p, Become(p), ChainOK(w, p)
  PROVE  ChainsIn(w)'
<1>1. depth' = depth /\ calls' = [calls EXCEPT ![depth] = p] /\ world' = world /\ outcome' = outcome
      /\ 1..depth \subseteq DOMAIN calls
  BY QueryAssumption DEF Become, IInv
<1>2. \A i \in 1..depth : calls'[i] = calls[i] \/ calls'[i] = p
  BY <1>1
<1> QED BY <1>1, <1>2 DEF ChainsIn

LEMMA AbortChains ==
  ASSUME NEW w, ChainsIn(w), NEW error \in {Failed, Broken}, Abort(error)
  PROVE  ChainsIn(w)'
<1>1. depth' = 0 /\ outcome' = error
  BY DEF Abort
<1>2. ~ IsAnswer(outcome') /\ \A i \in 1..depth' : FALSE
  BY <1>1 DEF Failed, Broken, IsAnswer
<1> QED BY <1>2 DEF ChainsIn

(* The response of a process replays from nothing.                         *)
LEMMA ResponseChain ==
  ASSUME NEW w, NEW p \in Process, ChainOK(w, p), HasAnswer(p), w.reads = world.reads
  PROVE  Distinct(Response(p)) /\ FoundFrom(w, {}, Response(p))
<1>1. OwnBundle(p) \in Bundle /\ OwnBundle(p).node = p.node /\ OwnBundle(p).goal = p.goal
  <2>1. p.node \in Nodes /\ p.goal \in Atoms /\ (p.node \in world.provers) \in BOOLEAN
    BY DEF Process
  <2>2. ASSUME NEW proved \in BOOLEAN
        PROVE  [node |-> p.node, goal |-> p.goal, proved |-> proved] \in Bundle
    BY <2>1 DEF Bundle
  <2> QED BY <2>1, <2>2 DEF OwnBundle
<1>2. p.bundles \in Seq(Bundle)
  BY DEF Process
<1>3. FindsAt(w, OwnBundle(p).node, GoalsOf(p.bundles), OwnBundle(p).goal)
  BY <1>1, ReadFinds DEF ChainOK, HasAnswer, Has
<1> QED BY <1>1, <1>2, <1>3, AddChain DEF ChainOK, Response

LEMMA NextChainsIn ==
  ASSUME NEW w, w.reads = world.reads, IInv, ChainsIn(w), depth > 0 => PassKeepsIn(w), [Next]_vars
  PROVE  ChainsIn(w)'
<1>1. ASSUME depth > 0
      PROVE  /\ Top \in Process /\ ChainOK(w, Top) /\ depth \in Nat /\ depth \in 1..MaxDepth
             /\ world \in Deployments
  BY <1>1, TopOK DEF ChainsIn, Top
<1>2. CASE \E a \in Asked : Ask(a[1], a[2])
  <2>1. PICK a \in Asked : Ask(a[1], a[2])
    BY <1>2
  <2>2. depth' = 1 /\ calls'[1] = NewProcess(a[1], a[2]) /\ world' = world /\ outcome' = outcome
    BY <2>1, QueryAssumption DEF Ask, IInv
  <2>3. \A i \in 1..depth' : ChainOK(w, calls'[i])
    BY <2>2, NewChain
  <2> QED BY <2>2, <2>3 DEF ChainsIn
<1>3. CASE Evaluate
  <2> DEFINE new == Derives(world, Top.node, Top.facts)
             q == [Top EXCEPT !.facts = @ \cup new, !.passes = @ + 1]
  <2>1. depth > 0 /\ Become(q)
    BY <1>3 DEF Evaluate, Evaluating
  <2>2. /\ q.node = Top.node /\ q.bundles = Top.bundles /\ q.reply = Top.reply
        /\ q.facts = Top.facts \cup new
    BY <1>1, <2>1 DEF Process
  <2>3. \A a \in Top.facts : KeepsAt(w, Top.node, GoalsOf(Top.bundles), a)
    BY <1>1, <2>1 DEF ChainOK
  <2>4. \A a \in new : KeepsAt(w, Top.node, GoalsOf(Top.bundles), a)
    BY <2>1, <2>3 DEF PassKeepsIn
  <2> HIDE DEF q, new
  <2>5. ChainOK(w, q)
    BY <1>1, <2>1, <2>2, <2>3, <2>4 DEF ChainOK
  <2> QED BY <2>1, <2>5, BecomeChains
<1>4. CASE \/ StartWalk \/ Resume \/ NextClause \/ GoalDone \/ NextLiteral
           \/ ResolveLocal \/ WalkDone \/ ImportDone
  <2>1. depth > 0 /\ \E q : Become(q) /\ Quiet(Top, q)
    BY <1>4, QuietMoves
  <2>2. PICK q : Become(q) /\ Quiet(Top, q)
    BY <2>1
  <2>3. ChainOK(w, q)
    BY <1>1, <2>1, <2>2, SameChain DEF Quiet
  <2> QED BY <2>1, <2>2, <2>3, BecomeChains
<1>5. CASE CallNode
  <2> DEFINE a == LiteralOf(Top).atom
             waiting == [Top EXCEPT !.pc = "wait"]
             called == NewProcess(Home[Speaker[a]], a)
  <2>1. /\ depth > 0 /\ depth' = depth + 1 /\ world' = world /\ outcome' = outcome
        /\ calls' = [calls EXCEPT ![depth] = waiting, ![depth + 1] = called]
        /\ depth < MaxDepth
    BY <1>5 DEF CallNode
  <2>2. waiting.node = Top.node /\ waiting.facts = Top.facts
        /\ waiting.bundles = Top.bundles /\ waiting.reply = Top.reply
    BY <1>1, <2>1, PcOK DEF Pcs
  <2> HIDE DEF waiting
  <2>3. ChainOK(w, waiting)
    BY <1>1, <2>1, <2>2, SameChain
  <2>4. ChainOK(w, called)
    BY NewChain
  <2> HIDE DEF called
  <2>5. 1..(depth + 1) \subseteq DOMAIN calls /\ depth \in Nat
    BY <1>1, <2>1, QueryAssumption DEF IInv
  <2>6. ASSUME NEW i \in 1..(depth + 1) PROVE ChainOK(w, calls'[i])
    <3>1. CASE i = depth + 1
      BY <2>1, <2>4, <2>5, <3>1
    <3>2. CASE i = depth
      BY <2>1, <2>3, <2>5, <3>2
    <3>3. CASE i \in 1..depth /\ i # depth
      BY <2>1, <2>5, <3>3 DEF ChainsIn
    <3> QED BY <2>5, <3>1, <3>2, <3>3
  <2> QED BY <2>1, <2>6 DEF ChainsIn
<1>6. CASE CallFails \/ NoAnswers \/ ImportFails \/ Lost
  BY <1>6, AbortChains DEF CallFails, NoAnswers, ImportFails, Lost
<1>7. CASE Respond
  <2> DEFINE caller == calls[depth - 1]
             q == [caller EXCEPT !.pc = "import", !.reply = Response(Top)]
  <2>1. depth > 1 /\ depth' = depth - 1 /\ calls' = [calls EXCEPT ![depth - 1] = q]
        /\ world' = world /\ outcome' = outcome /\ HasAnswer(Top)
    BY <1>7 DEF Respond
  <2>2. depth > 0
    BY <2>1 DEF IInv
  <2>3. depth \in Nat /\ depth - 1 \in 1..depth /\ 1..(depth - 1) \subseteq DOMAIN calls
    BY <1>1, <2>1, <2>2, QueryAssumption DEF IInv
  <2>4. caller \in Process /\ ChainOK(w, caller)
    BY <2>3 DEF IInv, ProcOK, ChainsIn
  <2>5. FoundFrom(w, {}, Response(Top))
    BY <1>1, <2>1, <2>2, ResponseChain
  <2>6. FoundFrom(w, GoalsOf(caller.bundles), Response(Top))
    BY <2>5, FoundMore
  <2>7. q.node = caller.node /\ q.facts = caller.facts /\ q.bundles = caller.bundles
        /\ q.reply = Response(Top)
    BY <2>4 DEF Process
  <2> HIDE DEF q, caller
  <2>8. ChainOK(w, q)
    BY <2>4, <2>6, <2>7 DEF ChainOK
  <2>9. ASSUME NEW i \in 1..(depth - 1) PROVE ChainOK(w, calls'[i])
    BY <2>1, <2>3, <2>8 DEF ChainsIn
  <2> QED BY <2>1, <2>9 DEF ChainsIn
<1>8. CASE RespondToUser
  <2>1. depth = 1 /\ depth' = 0 /\ outcome' = Answer(Top, Response(Top)) /\ world' = world /\ HasAnswer(Top)
    BY <1>8 DEF RespondToUser
  <2>2. Distinct(Response(Top)) /\ FoundFrom(w, {}, Response(Top))
    BY <1>1, <2>1, ResponseChain
  <2>3. outcome'.bundles = Response(Top) /\ \A i \in 1..depth' : FALSE
    BY <2>1 DEF Answer
  <2> QED BY <2>1, <2>2, <2>3 DEF ChainsIn
<1>9. CASE ImportBundle
  <2> DEFINE b == Head(Top.reply)
             q == [Top EXCEPT !.facts = @ \cup {b.goal}, !.bundles = AddBundle(@, b), !.reply = Tail(@)]
  <2>1. depth > 0 /\ Top.reply # <<>> /\ Become(q)
    BY <1>9 DEF ImportBundle, Importing
  <2>2. Top \in Process /\ ChainOK(w, Top)
    BY <1>1, <2>1
  <2>3. Top.reply \in Seq(Bundle) /\ Top.bundles \in Seq(Bundle) /\ b \in Bundle
    BY <2>1, <2>2 DEF Process
  <2>4. FindsAt(w, b.node, GoalsOf(Top.bundles), b.goal)
        /\ FoundFrom(w, GoalsOf(Top.bundles) \cup {b.goal}, Tail(Top.reply))
    BY <2>1, <2>2, <2>3, TailChain DEF ChainOK
  <2>5. /\ q.node = Top.node /\ q.facts = Top.facts \cup {b.goal}
        /\ q.bundles = AddBundle(Top.bundles, b) /\ q.reply = Tail(Top.reply)
    BY <2>2 DEF Process
  <2> HIDE DEF b, q
  <2>6. /\ Distinct(q.bundles) /\ FoundFrom(w, {}, q.bundles)
        /\ GoalsOf(q.bundles) = GoalsOf(Top.bundles) \cup {b.goal}
    BY <2>2, <2>3, <2>4, <2>5, AddChain DEF ChainOK
  <2>7. \A a \in Top.facts : KeepsAt(w, q.node, GoalsOf(q.bundles), a)
    BY <2>2, <2>5, <2>6, FindsMore DEF ChainOK
  <2>8. KeepsAt(w, q.node, GoalsOf(q.bundles), b.goal)
    BY <2>6 DEF KeepsAt
  <2>9. ChainOK(w, q)
    BY <2>4, <2>5, <2>6, <2>7, <2>8 DEF ChainOK
  <2> QED BY <2>1, <2>9, BecomeChains
<1>10. CASE UNCHANGED vars
  BY <1>10 DEF vars, ChainsIn
<1> QED BY <1>2, <1>3, <1>4, <1>5, <1>6, <1>7, <1>8, <1>9, <1>10 DEF Next, Work

LEMMA NextChains ==
  ASSUME IInv, Chains, [Next]_vars
  PROVE  Chains'
<1> SUFFICES ASSUME NEW w, w = world PROVE ChainsIn(w)'
  BY NextWorld DEF Chains
<1>1. ChainsIn(w)
  BY DEF Chains
<1>2. depth > 0 => PassKeepsIn(w)
  BY PassKeeps DEF PassKeepsIn
<1> QED BY <1>1, <1>2, NextChainsIn

LEMMA SpecChains == Spec => []Chains
<1>1. Init => Chains
  BY DEF Init, Chains, ChainsIn, Pending, IsAnswer
<1> QED BY <1>1, NextChains, SpecIInv, PTL DEF Spec

(* README.md 59-60: a chain of bundles can be checked from its first to    *)
(* its last bundle at the nodes it names, however the query wandered and   *)
(* whatever the processes on the way had collected already; no bundle is   *)
(* handed over twice (distributed.c 262-266).                              *)
THEOREM QueryChainFollows == Spec => []ChainFollows
<1>1. ASSUME TypeOK, Chains, IsAnswer(outcome) PROVE ChainFollows
  <2>1. outcome.bundles \in Seq(Bundle) /\ world \in Deployments
    BY <1>1 DEF TypeOK, IsAnswer, Pending, Failed, Broken
  <2>2. \A i \in DOMAIN outcome.bundles : outcome.bundles[i].node \in Nodes
    <3>1. \A i \in DOMAIN outcome.bundles : outcome.bundles[i] \in Bundle
      BY <2>1
    <3> QED BY <3>1 DEF Bundle
  <2>3. FoundFrom(world, {}, outcome.bundles)
    BY <1>1 DEF Chains, ChainsIn
  <2>4. ReplaysFrom(world, {}, outcome.bundles)
    BY <2>1, <2>2, <2>3, FindsFollows DEF FoundFrom, ReplaysFrom
  <2> QED BY <1>1, <2>4 DEF Chains, ChainsIn, Distinct, ChainFollows
<1>2. TypeOK /\ Chains => ChainFollows
  BY <1>1 DEF ChainFollows
<1> QED BY <1>2, SpecChains, QueryTypeOK, PTL

-----------------------------------------------------------------------------
(* Negation                                                                *)

(* The least set closed against N is closed against N.                     *)
LEMMA LeastClosed ==
  ASSUME NEW w, NEW N PROVE ClosedAgainst(w, LeastAgainst(w, N), N)
<1> SUFFICES ASSUME NEW n \in Nodes, NEW c \in Rules(w, n),
                    \A l \in LiteralsOf(c) : Permits(w, LeastAgainst(w, N), N, n, l)
             PROVE  <<n, c.head>> \in LeastAgainst(w, N)
  BY DEF ClosedAgainst
<1>1. <<n, c.head>> \in Heads(w)
  BY DEF Heads
<1>2. ASSUME NEW M \in SUBSET Heads(w), ClosedAgainst(w, M, N) PROVE <<n, c.head>> \in M
  <2>1. LeastAgainst(w, N) \subseteq M
    BY <1>2 DEF LeastAgainst
  <2>2. \A l \in LiteralsOf(c) : Permits(w, M, N, n, l)
    BY <2>1 DEF Permits, Grants, Established
  <2> QED BY <1>2, <2>2 DEF ClosedAgainst
<1> QED BY <1>1, <1>2 DEF LeastAgainst

(* What the clauses of a node without a body give.                         *)
Given(w, n) == {c.head : c \in {d \in Clauses(w, n) : d.body = <<>>}}

LEMMA GivenDerived ==
  ASSUME NEW w, NEW n, NEW facts
  PROVE  Given(w, n) \subseteq Derives(w, n, facts)
BY DEF Given, Derives, LiteralsOf

(* What is read from facts of a least set is in it.                        *)
LEMMA ReadStays ==
  ASSUME NEW w \in Deployments, NEW N, NEW n \in Nodes, NEW facts,
         \A a \in facts : Established(LeastAgainst(w, N), n, a)
  PROVE  \A a \in Read(w, n, facts) : Established(LeastAgainst(w, N), n, a)
<1> SUFFICES ASSUME NEW a \in Read(w, n, facts), a \notin facts
             PROVE  Established(LeastAgainst(w, N), n, a)
  OBVIOUS
<1>1. PICK r \in w.reads[n] : r.head = a /\ \A l \in LiteralsOf(r) : l.kind = "atom" /\ l.atom \in facts
  BY ReadFound
<1>2. \A l \in LiteralsOf(r) : Permits(w, LeastAgainst(w, N), N, n, l)
  BY <1>1 DEF Permits, Grants
<1>3. r \in Rules(w, n)
  BY ReadingTyped
<1>4. <<n, r.head>> \in LeastAgainst(w, N)
  BY <1>2, <1>3, LeastClosed DEF ClosedAgainst
<1> QED BY <1>1, <1>4 DEF Established

(* One pass over facts of the perfect model stays in it: the given facts   *)
(* are there before a negated literal can be reached, so that what is not  *)
(* stored when it is tested does not follow in the lower stratum at all.   *)
LEMMA PassStratified ==
  ASSUME NEW w \in Deployments, NegatesGivenFacts(w), NEW n \in Nodes, NEW facts,
         facts # {} => Given(w, n) \subseteq facts,
         \A a \in facts : Established(Perfect(w), n, a)
  PROVE  \A a \in Derives(w, n, facts) : Established(Perfect(w), n, a)
<1> DEFINE lower == LeastAgainst(w, Nodes \X Atoms)
<1> SUFFICES ASSUME NEW a \in Derives(w, n, facts)
             PROVE  Established(Perfect(w), n, a)
  OBVIOUS
<1>1. PICK c \in Clauses(w, n) : a = c.head /\ \A l \in LiteralsOf(c) : Holds(w, n, l, facts)
  BY DEF Derives
<1>2. ASSUME NEW l \in LiteralsOf(c), l.kind = "not" PROVE <<n, l.atom>> \notin lower
  <2>1. PICK k \in LiteralsOf(c) : k.kind = "atom"
    BY <1>2 DEF NegatesGivenFacts
  <2>6. k.atom \in Read(w, n, facts)
    BY <1>1, <2>1 DEF Holds
  <2>2. facts # {}
    BY <2>6, ReadFound, ReadingTyped
  <2>3. l.atom \notin Given(w, n)
    BY <1>1, <1>2, <2>2 DEF Holds
  <2>4. \A d \in Rules(w, n) : d.head # l.atom
    BY <1>2, <2>3, ReadingTyped DEF NegatesGivenFacts, Given, Rules
  <2>5. <<n, l.atom>> \notin Heads(w)
    BY <2>4 DEF Heads
  <2> QED BY <2>5 DEF LeastAgainst
<1>3. Perfect(w) = LeastAgainst(w, lower)
  BY DEF Perfect
<1> HIDE DEF lower
<1>6. \A b \in Read(w, n, facts) : Established(LeastAgainst(w, lower), n, b)
  BY <1>3, ReadStays
<1>4. \A l \in LiteralsOf(c) : Permits(w, LeastAgainst(w, lower), lower, n, l)
  BY <1>1, <1>2, <1>6 DEF Permits, Grants, Holds
<1>5. <<n, c.head>> \in LeastAgainst(w, lower)
  BY <1>4, LeastClosed DEF ClosedAgainst, Rules
<1> QED BY <1>1, <1>3, <1>5 DEF Established

(* After its first pass a process has the given facts of its node, and     *)
(* what it knows is of the perfect model.                                  *)
AllPerfect(w, list) ==
  \A j \in DOMAIN list : <<list[j].node, list[j].goal>> \in Perfect(w)
StratOK(w, p) ==
  /\ p.facts # {} \/ p.passes # 0 \/ p.pc # "load" => Given(w, p.node) \subseteq p.facts
  /\ \A a \in p.facts : Established(Perfect(w), p.node, a)
  /\ AllPerfect(w, p.bundles) /\ AllPerfect(w, p.reply)

Stratified ==
  NegatesGivenFacts(world) =>
    /\ \A i \in 1..depth : StratOK(world, calls[i])
    /\ IsAnswer(outcome) => Established(Perfect(world), outcome.node, outcome.goal)

LEMMA QuietStrat ==
  ASSUME NEW p, NEW q, StratOK(world, p), Quiet(p, q)
  PROVE  StratOK(world, q)
BY GivenDerived, QueryAssumption DEF StratOK, Quiet

LEMMA NewStrat ==
  ASSUME NEW w, NEW n, NEW g
  PROVE  StratOK(w, NewProcess(n, g))
BY DEF StratOK, NewProcess, AllPerfect

LEMMA BecomeStrat ==
  ASSUME IInv, Stratified, depth > 0, NEW p, Become(p), NegatesGivenFacts(world) => StratOK(world, p)
  PROVE  Stratified'
<1>1. depth' = depth /\ calls' = [calls EXCEPT ![depth] = p] /\ world' = world /\ outcome' = outcome
      /\ 1..depth \subseteq DOMAIN calls
  BY QueryAssumption DEF Become, IInv
<1>2. \A i \in 1..depth : calls'[i] = calls[i] \/ calls'[i] = p
  BY <1>1
<1> QED BY <1>1, <1>2 DEF Stratified

LEMMA AbortStrat ==
  ASSUME Stratified, NEW error \in {Failed, Broken}, Abort(error)
  PROVE  Stratified'
<1>1. depth' = 0 /\ outcome' = error
  BY DEF Abort
<1>2. ~ IsAnswer(outcome') /\ \A i \in 1..depth' : FALSE
  BY <1>1 DEF Failed, Broken, IsAnswer
<1> QED BY <1>2 DEF Stratified

(* The bundles of an answer are of the perfect model.                      *)
LEMMA ResponseStrat ==
  ASSUME NEW p \in Process, StratOK(world, p), <<p.node, p.goal>> \in Perfect(world)
  PROVE  AllPerfect(world, Response(p))
<1>1. p.bundles \in Seq(Bundle) /\ OwnBundle(p).node = p.node /\ OwnBundle(p).goal = p.goal
  BY DEF Process, OwnBundle
<1>2. CASE Response(p) = p.bundles
  BY <1>2 DEF StratOK
<1>3. CASE Response(p) = Append(p.bundles, OwnBundle(p))
  <2>1. ASSUME NEW j \in DOMAIN Response(p)
        PROVE  \/ j \in DOMAIN p.bundles /\ Response(p)[j] = p.bundles[j]
               \/ Response(p)[j] = OwnBundle(p)
    BY <1>1, <1>3
  <2> QED BY <1>1, <2>1 DEF AllPerfect, StratOK
<1> QED BY <1>2, <1>3 DEF Response, AddBundle

LEMMA ImportStrat ==
  ASSUME IInv, Stratified, NegatesGivenFacts(world), ImportBundle
  PROVE  Stratified'
<1> DEFINE b == Head(Top.reply)
           q == [Top EXCEPT !.facts = @ \cup {b.goal}, !.bundles = AddBundle(@, b), !.reply = Tail(@)]
<1>1. depth > 0 /\ Top.pc = "import" /\ Top.reply # <<>> /\ Become(q)
  BY DEF ImportBundle, Importing
<1>2. Top \in Process /\ ProcOK(world, depth, Top)
  BY <1>1, TopOK
<1>3. StratOK(world, Top)
  BY <1>1, TopOK DEF Stratified, Top
<1>4. /\ Top.reply \in Seq(Bundle) /\ Top.bundles \in Seq(Bundle)
      /\ b = Top.reply[1] /\ 1 \in DOMAIN Top.reply
      /\ \A j \in DOMAIN Tail(Top.reply) : j + 1 \in DOMAIN Top.reply /\ Tail(Top.reply)[j] = Top.reply[j + 1]
  BY <1>1, <1>2 DEF Process
<1>5. <<b.node, b.goal>> \in Perfect(world) /\ Evident(world, b)
  BY <1>2, <1>3, <1>4 DEF ProcOK, StratOK, AllPerfect
<1>6. Established(Perfect(world), Top.node, b.goal)
  BY <1>5 DEF Evident, Established
<1>7. AllPerfect(world, Tail(Top.reply))
  BY <1>3, <1>4 DEF StratOK, AllPerfect
<1>8. /\ q.node = Top.node /\ q.pc = Top.pc /\ q.facts = Top.facts \cup {b.goal}
      /\ q.bundles = AddBundle(Top.bundles, b) /\ q.reply = Tail(Top.reply)
  BY <1>2 DEF Process
<1> HIDE DEF b, q
<1>9. AllPerfect(world, AddBundle(Top.bundles, b))
  <2>1. CASE AddBundle(Top.bundles, b) = Top.bundles
    BY <1>3, <2>1 DEF StratOK
  <2>2. CASE AddBundle(Top.bundles, b) = Append(Top.bundles, b)
    <3>1. ASSUME NEW j \in DOMAIN Append(Top.bundles, b)
          PROVE  \/ j \in DOMAIN Top.bundles /\ Append(Top.bundles, b)[j] = Top.bundles[j]
                 \/ Append(Top.bundles, b)[j] = b
      BY <1>4
    <3> QED BY <1>3, <1>5, <2>2, <3>1 DEF StratOK, AllPerfect
  <2> QED BY <2>1, <2>2 DEF AddBundle
<1>10. Given(world, Top.node) \subseteq Top.facts
  BY <1>1, <1>3 DEF StratOK
<1>11. \A a \in q.facts : Established(Perfect(world), q.node, a)
  BY <1>3, <1>6, <1>8 DEF StratOK
<1>12. StratOK(world, q)
  BY <1>7, <1>8, <1>9, <1>10, <1>11 DEF StratOK
<1> QED BY <1>1, <1>12, BecomeStrat

LEMMA NextStratified ==
  ASSUME IInv, Stratified, [Next]_vars
  PROVE  Stratified'
<1>1. world' = world
  BY NextWorld
<1> SUFFICES ASSUME NegatesGivenFacts(world) PROVE Stratified'
  BY <1>1 DEF Stratified
<1>2. ASSUME depth > 0
      PROVE  /\ Top \in Process /\ ProcOK(world, depth, Top) /\ StratOK(world, Top)
             /\ depth \in Nat /\ depth \in 1..MaxDepth /\ world \in Deployments
  BY <1>2, TopOK DEF Stratified, Top
<1>3. CASE \E a \in Asked : Ask(a[1], a[2])
  <2>1. PICK a \in Asked : Ask(a[1], a[2])
    BY <1>3
  <2>2. depth' = 1 /\ calls'[1] = NewProcess(a[1], a[2]) /\ outcome' = outcome
    BY <2>1, QueryAssumption DEF Ask, IInv
  <2>3. \A i \in 1..depth' : StratOK(world, calls'[i])
    BY <2>2, NewStrat
  <2> QED BY <1>1, <2>2, <2>3 DEF Stratified
<1>4. CASE Evaluate
  <2> DEFINE new == Derives(world, Top.node, Top.facts)
             q == [Top EXCEPT !.facts = @ \cup new, !.passes = @ + 1]
  <2>1. depth > 0 /\ Become(q)
    BY <1>4 DEF Evaluate, Evaluating
  <2>2. /\ q.node = Top.node /\ q.bundles = Top.bundles /\ q.reply = Top.reply
        /\ q.facts = Top.facts \cup new
    BY <1>2, <2>1 DEF Process
  <2>3. \A a \in new : Established(Perfect(world), Top.node, a)
    BY <1>2, <2>1, PassStratified DEF StratOK, Process
  <2>4. Given(world, Top.node) \subseteq new
    BY GivenDerived
  <2> HIDE DEF q, new
  <2>5. StratOK(world, q)
    BY <1>2, <2>1, <2>2, <2>3, <2>4 DEF StratOK
  <2> QED BY <2>1, <2>5, BecomeStrat
<1>5. CASE \/ StartWalk \/ Resume \/ NextClause \/ GoalDone \/ NextLiteral
           \/ ResolveLocal \/ WalkDone \/ ImportDone
  <2>1. depth > 0 /\ \E q : Become(q) /\ Quiet(Top, q)
    BY <1>5, QuietMoves
  <2>2. PICK q : Become(q) /\ Quiet(Top, q)
    BY <2>1
  <2>3. StratOK(world, q)
    BY <1>2, <2>1, <2>2, QuietStrat
  <2> QED BY <2>1, <2>2, <2>3, BecomeStrat
<1>6. CASE CallNode
  <2> DEFINE a == LiteralOf(Top).atom
             waiting == [Top EXCEPT !.pc = "wait"]
             called == NewProcess(Home[Speaker[a]], a)
  <2>1. /\ depth > 0 /\ depth' = depth + 1 /\ outcome' = outcome /\ Top.pc = "walk"
        /\ calls' = [calls EXCEPT ![depth] = waiting, ![depth + 1] = called]
        /\ depth < MaxDepth
    BY <1>6 DEF CallNode, AtLiteral
  <2>2. waiting.node = Top.node /\ waiting.facts = Top.facts /\ waiting.pc = "wait"
        /\ waiting.bundles = Top.bundles /\ waiting.reply = Top.reply /\ waiting.passes = Top.passes
    BY <1>2, <2>1, PcOK DEF Pcs
  <2> HIDE DEF waiting
  <2>3. StratOK(world, waiting)
    BY <1>2, <2>1, <2>2, QuietStrat DEF Quiet
  <2>4. StratOK(world, called)
    BY NewStrat
  <2> HIDE DEF called
  <2>5. 1..(depth + 1) \subseteq DOMAIN calls /\ depth \in Nat
    BY <1>2, <2>1, QueryAssumption DEF IInv
  <2>6. ASSUME NEW i \in 1..(depth + 1) PROVE StratOK(world, calls'[i])
    <3>1. CASE i = depth + 1
      BY <2>1, <2>4, <2>5, <3>1
    <3>2. CASE i = depth
      BY <2>1, <2>3, <2>5, <3>2
    <3>3. CASE i \in 1..depth /\ i # depth
      BY <2>1, <2>5, <3>3 DEF Stratified
    <3> QED BY <2>5, <3>1, <3>2, <3>3
  <2> QED BY <1>1, <2>1, <2>6 DEF Stratified
<1>7. CASE CallFails \/ NoAnswers \/ ImportFails \/ Lost
  BY <1>7, AbortStrat DEF CallFails, NoAnswers, ImportFails, Lost
<1>8. CASE Respond
  <2> DEFINE caller == calls[depth - 1]
             q == [caller EXCEPT !.pc = "import", !.reply = Response(Top)]
  <2>1. depth > 1 /\ depth' = depth - 1 /\ calls' = [calls EXCEPT ![depth - 1] = q]
        /\ outcome' = outcome /\ Top.goal \in Read(world, Top.node, Top.facts)
    BY <1>8 DEF Respond, HasAnswer, Has
  <2>2. depth > 0
    BY <2>1 DEF IInv
  <2>3. /\ depth \in Nat /\ depth - 1 \in 1..depth /\ depth - 1 < depth
        /\ 1..(depth - 1) \subseteq DOMAIN calls
    BY <1>2, <2>1, <2>2, QueryAssumption DEF IInv
  <2>4. caller \in Process /\ StratOK(world, caller) /\ caller.pc = "wait"
    BY <2>3 DEF IInv, ProcOK, Stratified
  <2>10. Established(Perfect(world), Top.node, Top.goal)
    BY <1>2, <2>1, <2>2, ReadStays DEF StratOK, Perfect, Process
  <2>5. <<Top.node, Top.goal>> \in Perfect(world)
    BY <1>2, <2>1, <2>2, <2>10 DEF ProcOK, Established
  <2>6. AllPerfect(world, Response(Top))
    BY <1>2, <2>2, <2>5, ResponseStrat
  <2>7. q.node = caller.node /\ q.facts = caller.facts /\ q.bundles = caller.bundles
        /\ q.reply = Response(Top)
    BY <2>4 DEF Process
  <2> HIDE DEF q, caller
  <2>8. StratOK(world, q)
    BY <2>4, <2>6, <2>7 DEF StratOK
  <2>9. ASSUME NEW i \in 1..(depth - 1) PROVE StratOK(world, calls'[i])
    BY <2>1, <2>3, <2>8 DEF Stratified
  <2> QED BY <1>1, <2>1, <2>9 DEF Stratified
<1>9. CASE RespondToUser
  <2>1. depth = 1 /\ depth' = 0 /\ outcome' = Answer(Top, Response(Top))
        /\ Top.goal \in Read(world, Top.node, Top.facts)
    BY <1>9 DEF RespondToUser, HasAnswer, Has
  <2>4. depth > 0 /\ Top.node \in Nodes /\ \A a \in Top.facts : Established(Perfect(world), Top.node, a)
    BY <1>2, <2>1 DEF StratOK, Process
  <2>2. Established(Perfect(world), Top.node, Top.goal)
    BY <1>2, <2>1, <2>4, ReadStays DEF Perfect
  <2>3. outcome'.node = Top.node /\ outcome'.goal = Top.goal /\ \A i \in 1..depth' : FALSE
    BY <2>1 DEF Answer
  <2> QED BY <1>1, <2>2, <2>3 DEF Stratified
<1>10. CASE ImportBundle
  BY <1>10, ImportStrat
<1>11. CASE UNCHANGED vars
  BY <1>11 DEF vars, Stratified
<1> QED BY <1>3, <1>4, <1>5, <1>6, <1>7, <1>8, <1>9, <1>10, <1>11 DEF Next, Work

(* README.md 319: in deployments that negate given facts only, an answer   *)
(* is in the perfect model of the rules of all nodes, although each node   *)
(* tests its negated literals against what it has stored so far and the    *)
(* order in which statements come in is up to the walk.                    *)
THEOREM QueryAnswersStratified == Spec => []AnswersStratified
<1>1. Init => Stratified
  BY DEF Init, Stratified, Pending, IsAnswer
<1>2. Stratified => AnswersStratified
  BY DEF Stratified, AnswersStratified
<1> QED BY <1>1, <1>2, InitIInv, NextIInv, NextStratified, SpecIInv, PTL DEF Spec

-----------------------------------------------------------------------------
(* Why queries fail                                                        *)

(* Negation over facts a node's own program gives, and a process for every *)
(* statement that may be asked for.                                        *)
NegatesOwnFacts(w) ==
  /\ NegatesGivenFacts(w)
  /\ \A n \in Nodes : \A c \in Clauses(w, n) : \A l \in LiteralsOf(c) :
       l.kind = "not" => ~ Says(l.atom)
EnoughProcesses ==
  IsFiniteSet(Atoms) /\ Cardinality({a \in Atoms : Says(a)}) < MaxDepth

-----------------------------------------------------------------------------
(* What goals need                                                         *)

Leads(w, x, y) == y \in Heads(w) => y \in Reachable(w, {x})
NeedsLeads(w, x, y) == y \in Heads(w) => y \in Reachable(w, NeedsOf(w, x))

LEMMA LeadsSelf ==
  ASSUME NEW w, NEW x PROVE Leads(w, x, x)
BY DEF Leads, Reachable

LEMMA LeadsThrough ==
  ASSUME NEW w, NEW x, NEW y, Leads(w, x, y), NEW z \in Reachable(w, {y})
  PROVE  z \in Reachable(w, {x})
<1> SUFFICES ASSUME NEW S \in SUBSET Heads(w), NeedsClosed(w, S), {x} \cap Heads(w) \subseteq S
             PROVE  z \in S
  BY DEF Reachable
<1>1. {y} \cap Heads(w) \subseteq S
  BY DEF Leads, Reachable
<1> QED BY <1>1 DEF Reachable

LEMMA LeadsOn ==
  ASSUME NEW w, NEW x, NEW y, NEW z, Leads(w, x, y), Leads(w, y, z)
  PROVE  Leads(w, x, z)
BY LeadsThrough DEF Leads

(* What is needed by what is below is below.                               *)
LEMMA NeedsStep ==
  ASSUME NEW w, NEW X, NEW y \in Reachable(w, X), NEW z \in NeedsOf(w, y), z \in Heads(w)
  PROVE  z \in Reachable(w, X)
<1> SUFFICES ASSUME NEW S \in SUBSET Heads(w), NeedsClosed(w, S), X \cap Heads(w) \subseteq S
             PROVE  z \in S
  BY DEF Reachable
<1>1. y \in S
  BY DEF Reachable
<1> QED BY <1>1 DEF NeedsClosed

(* And if it is below x, then it is below what x needs.                    *)
LEMMA NeedsFirst ==
  ASSUME NEW w, NEW x, NEW y \in Reachable(w, {x}), NEW z \in NeedsOf(w, y), z \in Heads(w)
  PROVE  z \in Reachable(w, NeedsOf(w, x))
<1> SUFFICES ASSUME NEW S \in SUBSET Heads(w), NeedsClosed(w, S), NeedsOf(w, x) \cap Heads(w) \subseteq S
             PROVE  z \in S
  BY DEF Reachable
<1> DEFINE T == S \cup ({x} \cap Heads(w))
<1>1. NeedsClosed(w, T)
  BY DEF NeedsClosed
<1>2. y \in T
  BY <1>1 DEF Reachable
<1> QED BY <1>2 DEF NeedsClosed

(* And what is below what x needs leads on.                                *)
LEMMA NeedsThrough ==
  ASSUME NEW w, NEW x, NEW y, NeedsLeads(w, x, y), NEW z \in Reachable(w, {y})
  PROVE  z \in Reachable(w, NeedsOf(w, x))
<1> SUFFICES ASSUME NEW S \in SUBSET Heads(w), NeedsClosed(w, S), NeedsOf(w, x) \cap Heads(w) \subseteq S
             PROVE  z \in S
  BY DEF Reachable
<1>1. {y} \cap Heads(w) \subseteq S
  BY DEF NeedsLeads, Reachable
<1> QED BY <1>1 DEF Reachable

-----------------------------------------------------------------------------
(* What a walk has dealt with                                              *)

ProgOf(w, p) == w.prog[p.node]
LitAt(w, p) == w.prog[p.node][FrameOf(p).clause].body[FrameOf(p).literal]
PairOf(p) == <<p.node, p.goal>>
AskedPair(w, p) == <<Home[Speaker[LitAt(w, p).atom]], LitAt(w, p).atom>>

(* Nothing is left to do about a literal.                                  *)
Handled(w, p, l) ==
  \/ l.kind \in {"not", "tool"}
  \/ l.atom \in p.facts
  \/ ~ Says(l.atom) /\ (l.atom \in p.visited \/ \A c \in Clauses(w, p.node) : c.head # l.atom)

(* A frame has the j-th literal of the c-th clause still before it.        *)
Ahead(f, c, j) == f.clause < c \/ (f.clause = c /\ f.literal <= j)

(* A goal visited has an answer, or every literal of its clauses is dealt  *)
(* with or still before a frame.                                           *)
Searched(w, p) ==
  \A v \in p.visited \ Read(w, p.node, p.facts) : \A c \in DOMAIN ProgOf(w, p) : ProgOf(w, p)[c].head = v =>
    \A j \in DOMAIN ProgOf(w, p)[c].body :
      \/ Handled(w, p, ProgOf(w, p)[c].body[j])
      \/ \E k \in DOMAIN p.stack : p.stack[k].goal = v /\ Ahead(p.stack[k], c, j)

(* When the walk and the runs are over, what was visited and has no answer *)
(* has no derivation at all, if none of it is read by delegation: the      *)
(* perfect model without it is closed.                                     *)
LEMMA NothingMissed ==
  ASSUME IInv, NEW p \in Process, NegatesOwnFacts(world), Searched(world, p), p.stack = <<>>,
         Derives(world, p.node, p.facts) \subseteq p.facts,
         \A a \in p.facts : Established(Consequences(world), p.node, a),
         \A r \in world.reads[p.node] : r.head \notin p.visited,
         NEW goal \in p.visited, goal \notin Read(world, p.node, p.facts)
  PROVE  <<p.node, goal>> \notin Perfect(world)
<1> DEFINE lower == LeastAgainst(world, Nodes \X Atoms)
           missing == {<<p.node, v>> : v \in p.visited \ Read(world, p.node, p.facts)}
           M == Perfect(world) \ missing
<1>1. Perfect(world) = LeastAgainst(world, lower) /\ Perfect(world) \subseteq Heads(world)
  BY DEF Perfect, LeastAgainst
<1>2. p.node \in Nodes /\ world \in Deployments
  BY DEF Process, IInv
<1>3. ASSUME NEW n \in Nodes, NEW cl \in Rules(world, n),
             \A l \in LiteralsOf(cl) : Permits(world, M, lower, n, l)
      PROVE  <<n, cl.head>> \in M
  <2>1. \A l \in LiteralsOf(cl) : Permits(world, Perfect(world), lower, n, l)
    BY <1>3 DEF Permits, Grants, Established
  <2>2. <<n, cl.head>> \in Perfect(world)
    <3> HIDE DEF lower
    <3> QED BY <1>1, <2>1, LeastClosed DEF ClosedAgainst
  <2>3. ASSUME <<n, cl.head>> \in missing PROVE FALSE
    <3>1. n = p.node /\ cl.head \in p.visited /\ cl.head \notin Read(world, n, p.facts)
          /\ cl.head \notin p.facts /\ cl \in Clauses(world, n)
      BY <2>3, ReadMore DEF Rules
    <3>2. PICK c \in DOMAIN ProgOf(world, p) : cl = ProgOf(world, p)[c]
      BY <3>1 DEF Clauses, ProgOf
    <3>3. PICK l \in LiteralsOf(cl) : ~ Holds(world, n, l, p.facts)
      BY <3>1 DEF Derives
    <3>4. PICK j \in DOMAIN cl.body : l = cl.body[j]
      BY <3>3 DEF LiteralsOf
    <3>5. Handled(world, p, l)
      BY <3>1, <3>2, <3>4 DEF Searched
    <3>6. Permits(world, M, lower, n, l)
      BY <1>3, <3>3
    <3>7. CASE l.kind = "not"
      <4>1. l.atom \in p.facts /\ ~ Says(l.atom)
        BY <3>1, <3>3, <3>7 DEF Holds, NegatesOwnFacts
      <4>2. <<n, l.atom>> \in Consequences(world)
        BY <3>1, <4>1 DEF Established
      <4>3. PICK d \in Rules(world, n) : d.head = l.atom
        <5>1. PICK m \in Nodes : \E e \in Rules(world, m) : <<n, l.atom>> = <<m, e.head>>
          BY <4>2 DEF Consequences, Heads
        <5> QED BY <5>1
      <4>4. d.body = <<>>
        BY <3>1, <3>3, <3>7, <4>3 DEF NegatesOwnFacts, NegatesGivenFacts
      <4>5. LiteralsOf(d) = {}
        BY <4>4 DEF LiteralsOf
      <4>6. <<n, l.atom>> \in lower
        BY <4>3, <4>5, LeastClosed DEF ClosedAgainst
      <4> QED BY <3>6, <3>7, <4>6 DEF Permits
    <3>8. CASE l.kind = "tool"
      BY <3>3, <3>6, <3>8 DEF Holds, Permits, Grants
    <3>9. CASE l.kind \notin {"not", "tool"}
      <4>1. l.atom \notin Read(world, n, p.facts) /\ l.atom \notin p.facts
        BY <3>3, <3>9, ReadMore DEF Holds
      <4>2. ~ Says(l.atom) /\ (l.atom \in p.visited \/ \A d \in Clauses(world, n) : d.head # l.atom)
        BY <3>1, <3>5, <3>9, <4>1 DEF Handled
      <4>3. <<n, l.atom>> \in M
        BY <3>6, <3>9, <4>2 DEF Permits, Grants, Established
      <4>4. <<n, l.atom>> \in Heads(world)
        BY <1>1, <4>3
      <4>5. \E d \in Clauses(world, n) : d.head = l.atom
        <5>1. PICK m \in Nodes : \E e \in Rules(world, m) : <<n, l.atom>> = <<m, e.head>>
          BY <4>4 DEF Heads
        <5>2. PICK e \in Rules(world, n) : e.head = l.atom
          BY <5>1
        <5> QED BY <4>2, <5>2, <1>2, ReadingTyped DEF Rules
      <4>6. <<n, l.atom>> \in missing
        BY <3>1, <4>1, <4>2, <4>5
      <4> QED BY <4>3, <4>6
    <3> QED BY <3>7, <3>8, <3>9
  <2> QED BY <2>2, <2>3
<1>4. ClosedAgainst(world, M, lower)
  BY <1>3 DEF ClosedAgainst
<1>5. M \in SUBSET Heads(world)
  BY <1>1
<1>6. Perfect(world) \subseteq M
  <2> HIDE DEF M, lower
  <2> QED BY <1>1, <1>4, <1>5 DEF LeastAgainst
<1>7. <<p.node, goal>> \in missing
  OBVIOUS
<1> QED BY <1>6, <1>7

-----------------------------------------------------------------------------
(* What the moves of a walk leave dealt with                               *)

LEMMA SearchedStep ==
  ASSUME NEW w, NEW p, NEW q, Searched(w, p), q.node = p.node,
         p.facts \subseteq q.facts, p.visited \subseteq q.visited,
         \A v \in q.visited \ p.visited :
           v \in Read(w, q.node, q.facts)
           \/ \E k \in DOMAIN q.stack : q.stack[k] = [goal |-> v, clause |-> 1, literal |-> 1],
         \A c \in DOMAIN ProgOf(w, p) : c \in Nat \ {0}
           /\ \A j \in DOMAIN ProgOf(w, p)[c].body : j \in Nat \ {0},
         \A k \in DOMAIN p.stack : \A c \in DOMAIN ProgOf(w, p) :
           ProgOf(w, p)[c].head = p.stack[k].goal =>
             \A j \in DOMAIN ProgOf(w, p)[c].body : Ahead(p.stack[k], c, j) =>
               \/ Handled(w, q, ProgOf(w, p)[c].body[j])
               \/ \E m \in DOMAIN q.stack : q.stack[m].goal = p.stack[k].goal /\ Ahead(q.stack[m], c, j)
  PROVE  Searched(w, q)
<1> SUFFICES ASSUME NEW v \in q.visited \ Read(w, q.node, q.facts), NEW c \in DOMAIN ProgOf(w, p), ProgOf(w, p)[c].head = v,
                    NEW j \in DOMAIN ProgOf(w, p)[c].body
             PROVE  \/ Handled(w, q, ProgOf(w, p)[c].body[j])
                    \/ \E k \in DOMAIN q.stack : q.stack[k].goal = v /\ Ahead(q.stack[k], c, j)
  BY DEF Searched, ProgOf
<1>1. CASE v \notin p.visited
  <2>1. PICK k \in DOMAIN q.stack : q.stack[k] = [goal |-> v, clause |-> 1, literal |-> 1]
    BY <1>1
  <2>2. c \in Nat \ {0} /\ j \in Nat \ {0}
    OBVIOUS
  <2>3. Ahead(q.stack[k], c, j) /\ q.stack[k].goal = v
    BY <2>1, <2>2 DEF Ahead
  <2> QED BY <2>3
<1>2. CASE v \in p.visited
  <2>1. v \in p.visited \ Read(w, p.node, p.facts)
    BY <1>2, ReadMore
  <2>2. CASE Handled(w, p, ProgOf(w, p)[c].body[j])
    BY <2>2 DEF Handled
  <2>3. CASE \E k \in DOMAIN p.stack : p.stack[k].goal = v /\ Ahead(p.stack[k], c, j)
    BY <2>3
  <2> QED BY <2>1, <2>2, <2>3 DEF Searched
<1> QED BY <1>1, <1>2

(* A process that keeps what it has open and visited.                      *)
LEMMA SearchedMore ==
  ASSUME NEW w, NEW p, NEW q, Searched(w, p), q.node = p.node,
         p.facts \subseteq q.facts, q.visited = p.visited, q.stack = p.stack
  PROVE  Searched(w, q)
<1> SUFFICES ASSUME NEW v \in q.visited \ Read(w, q.node, q.facts), NEW c \in DOMAIN ProgOf(w, p), ProgOf(w, p)[c].head = v,
                    NEW j \in DOMAIN ProgOf(w, p)[c].body
             PROVE  \/ Handled(w, q, ProgOf(w, p)[c].body[j])
                    \/ \E k \in DOMAIN q.stack : q.stack[k].goal = v /\ Ahead(q.stack[k], c, j)
  BY DEF Searched, ProgOf
<1>1. CASE Handled(w, p, ProgOf(w, p)[c].body[j])
  BY <1>1 DEF Handled
<1>2. CASE \E k \in DOMAIN p.stack : p.stack[k].goal = v /\ Ahead(p.stack[k], c, j)
  BY <1>2
<1>3. v \in p.visited \ Read(w, p.node, p.facts)
  BY ReadMore
<1> QED BY <1>1, <1>2, <1>3 DEF Searched

LEMMA Positions ==
  ASSUME NEW w \in Deployments, NEW p \in Process
  PROVE  \A c \in DOMAIN ProgOf(w, p) :
           /\ c \in Nat \ {0} /\ c <= Len(ProgOf(w, p)) /\ ProgOf(w, p)[c] \in Clauses(w, p.node)
           /\ \A j \in DOMAIN ProgOf(w, p)[c].body :
                j \in Nat \ {0} /\ j <= Len(ProgOf(w, p)[c].body)
<1>1. p.node \in Nodes
  BY DEF Process
<1>2. ProgOf(w, p) \in Seq(Clause)
  BY <1>1, ProgramTyped DEF ProgOf
<1>3. ASSUME NEW c \in DOMAIN ProgOf(w, p)
      PROVE  /\ c \in Nat \ {0} /\ c <= Len(ProgOf(w, p)) /\ ProgOf(w, p)[c] \in Clauses(w, p.node)
             /\ ProgOf(w, p)[c].body \in Seq(Literal)
  <2>1. ProgOf(w, p)[c] \in Clause /\ c \in 1..Len(ProgOf(w, p))
    BY <1>2
  <2> QED BY <2>1 DEF Clause, Clauses, ProgOf
<1> QED BY <1>3

(* What Enter does to the stack and to what is visited.                    *)
LEMMA EnterStack ==
  ASSUME NEW p \in Process, NEW a \in Atoms
  PROVE  /\ Enter(p, a).visited = p.visited \cup {a} /\ Enter(p, a).fetched = p.fetched
         /\ \/ a \in p.visited \/ Has(p, a)
            \/ \E k \in DOMAIN Enter(p, a).stack :
                 Enter(p, a).stack[k] = [goal |-> a, clause |-> 1, literal |-> 1]
         /\ \A k \in DOMAIN p.stack :
              k \in DOMAIN Enter(p, a).stack /\ Enter(p, a).stack[k] = p.stack[k]
         /\ \A k \in DOMAIN Enter(p, a).stack :
              \/ Enter(p, a).stack[k].goal = a
              \/ k \in DOMAIN p.stack /\ Enter(p, a).stack[k] = p.stack[k]
<1>1. CASE a \in p.visited
  BY <1>1 DEF Enter, Process
<1>2. CASE a \notin p.visited /\ Has(p, a)
  BY <1>2 DEF Enter, Process
<1>3. CASE a \notin p.visited /\ ~ Has(p, a)
  <2> DEFINE f == [goal |-> a, clause |-> 1, literal |-> 1]
             pushed == Append(p.stack, f)
  <2>1. Enter(p, a).stack = pushed /\ Enter(p, a).visited = p.visited \cup {a}
        /\ Enter(p, a).fetched = p.fetched
    BY <1>3 DEF Enter, Process
  <2>2. f \in Frame /\ f.goal = a
    BY DEF Frame
  <2>3. f = [goal |-> a, clause |-> 1, literal |-> 1]
    OBVIOUS
  <2> HIDE DEF f
  <2>4. /\ p.stack \in Seq(Frame) /\ DOMAIN pushed = DOMAIN p.stack \cup {Len(p.stack) + 1}
        /\ pushed[Len(p.stack) + 1] = f
        /\ \A j \in DOMAIN p.stack : pushed[j] = p.stack[j]
    BY <2>2 DEF Process
  <2> HIDE DEF pushed
  <2>5. Len(p.stack) + 1 \in DOMAIN pushed
    BY <2>4
  <2> QED BY <2>1, <2>2, <2>3, <2>4, <2>5
<1> QED BY <1>1, <1>2, <1>3

(* The frame on top is moved on, past what q has dealt with.               *)
LEMMA TopMoved ==
  ASSUME NEW w \in Deployments, NEW p \in Process, p.stack # <<>>, Searched(w, p), NEW q, q.node = p.node,
         q.facts = p.facts, p.visited \subseteq q.visited,
         NEW f, f.goal = FrameOf(p).goal,
         \A v \in q.visited \ p.visited :
           v \in Read(w, q.node, q.facts)
           \/ \E k \in DOMAIN q.stack : q.stack[k] = [goal |-> v, clause |-> 1, literal |-> 1],
         \A k \in DOMAIN p.stack :
           k \in DOMAIN q.stack /\ q.stack[k] = [p.stack EXCEPT ![Len(p.stack)] = f][k],
         \A c \in DOMAIN ProgOf(w, p) : ProgOf(w, p)[c].head = f.goal =>
           \A j \in DOMAIN ProgOf(w, p)[c].body : Ahead(FrameOf(p), c, j) =>
             Handled(w, q, ProgOf(w, p)[c].body[j]) \/ Ahead(f, c, j)
  PROVE  Searched(w, q)
<1>1. p.stack \in Seq(Frame) /\ FrameOf(p) = p.stack[Len(p.stack)]
  BY DEF Process, FrameOf
<1>2. ASSUME NEW k \in DOMAIN p.stack, NEW c \in DOMAIN ProgOf(w, p), ProgOf(w, p)[c].head = p.stack[k].goal,
             NEW j \in DOMAIN ProgOf(w, p)[c].body, Ahead(p.stack[k], c, j)
      PROVE  \/ Handled(w, q, ProgOf(w, p)[c].body[j])
             \/ \E m \in DOMAIN q.stack : q.stack[m].goal = p.stack[k].goal /\ Ahead(q.stack[m], c, j)
  <2>1. CASE k = Len(p.stack)
    <3>1. q.stack[k] = f /\ k \in DOMAIN q.stack
      BY <1>1, <2>1
    <3> QED BY <1>1, <1>2, <2>1, <3>1
  <2>2. CASE k # Len(p.stack)
    <3>1. q.stack[k] = p.stack[k] /\ k \in DOMAIN q.stack
      BY <1>1, <2>2
    <3> QED BY <1>2, <3>1
  <2> QED BY <2>1, <2>2
<1>3. \A c \in DOMAIN ProgOf(w, p) : c \in Nat \ {0}
        /\ \A j \in DOMAIN ProgOf(w, p)[c].body : j \in Nat \ {0}
  BY Positions
<1> QED BY <1>2, <1>3, SearchedStep

(* A literal that stands behind the moved frame is dealt with; past a      *)
(* clause or a goal there is none.                                         *)
LEMMA AheadOfLiteral ==
  ASSUME NEW f \in Frame, NEW c \in Nat, NEW j \in Nat, Ahead(f, c, j)
  PROVE  (c = f.clause /\ j = f.literal) \/ Ahead([f EXCEPT !.literal = @ + 1], c, j)
BY DEF Ahead, Frame

LEMMA AheadOfClause ==
  ASSUME NEW f \in Frame, NEW c \in Nat, NEW j \in Nat \ {0}, Ahead(f, c, j)
  PROVE  (c = f.clause /\ f.literal <= j) \/ Ahead([f EXCEPT !.clause = @ + 1, !.literal = 1], c, j)
BY DEF Ahead, Frame

-----------------------------------------------------------------------------
(* What holds of the search of one process                                 *)

(* A bundle for what x needs, proved if its node could prove it.           *)
FromBelow(w, b, x) ==
  <<b.node, b.goal>> \in Reachable(w, {x}) /\ (b.proved \/ b.node \notin w.provers)

(* The walk stands at a literal another node is asked for.                 *)
Asks(w, p) ==
  /\ w.prog[p.node][FrameOf(p).clause].head = FrameOf(p).goal
  /\ LitAt(w, p).kind \in {"atom", "open"} /\ Says(LitAt(w, p).atom)

(* What is open or was visited is needed by the goal of the process.       *)
WalkLeads(w, p) ==
  /\ \A k \in DOMAIN p.stack : Leads(w, PairOf(p), <<p.node, p.stack[k].goal>>)
  /\ \A v \in p.visited : Leads(w, PairOf(p), <<p.node, v>>)

SearchOK(w, p) ==
  /\ p.fetched \subseteq p.facts
  /\ Searched(w, p)
  /\ p.pc # "load" => p.goal \in p.visited
  /\ p.pc = "final" => p.stack = <<>>
  /\ WalkLeads(w, p)
  /\ \A j \in DOMAIN p.bundles : FromBelow(w, p.bundles[j], PairOf(p))
  /\ p.pc \in {"wait", "import"} => Asks(w, p)
  /\ p.pc = "import" =>
       /\ LitAt(w, p).atom \in p.facts \cup GoalsOf(p.reply)
       /\ \A j \in DOMAIN p.reply : FromBelow(w, p.reply[j], AskedPair(w, p))

(* A move of the walk: what the process has learnt stays as it is.         *)
LEMMA MoveSearch ==
  ASSUME NEW w, NEW p, NEW q, SearchOK(w, p), q.node = p.node, q.goal = p.goal, q.facts = p.facts,
         q.bundles = p.bundles, q.pc \notin {"load", "wait", "import"}, q.fetched \subseteq q.facts,
         Searched(w, q), q.goal \in q.visited, q.pc = "final" => q.stack = <<>>, WalkLeads(w, q)
  PROVE  SearchOK(w, q)
BY DEF SearchOK, PairOf

(* What a literal asks for is needed by the goal of its frame, and so by   *)
(* the goal of the process.                                                *)
LEMMA AskedNeeded ==
  ASSUME NEW w \in Deployments, NEW p \in Process, Placed(w, p), Asks(w, p), WalkLeads(w, p)
  PROVE  /\ <<p.node, FrameOf(p).goal>> \in Reachable(w, {PairOf(p)})
         /\ AskedPair(w, p) \in NeedsOf(w, <<p.node, FrameOf(p).goal>>)
         /\ NeedsLeads(w, PairOf(p), AskedPair(w, p))
         /\ Leads(w, PairOf(p), AskedPair(w, p))
<1> DEFINE cl == w.prog[p.node][FrameOf(p).clause]
           l == LitAt(w, p)
           x == <<p.node, FrameOf(p).goal>>
<1>1. p.node \in Nodes /\ p.stack \in Seq(Frame) /\ Len(p.stack) \in DOMAIN p.stack
  BY DEF Process, Placed
<1>2. cl \in Clauses(w, p.node) /\ l \in LiteralsOf(cl)
  BY DEF Placed, Clauses, LiteralsOf, LitAt
<1>3. cl.head = FrameOf(p).goal /\ l.kind \in {"atom", "open"} /\ Says(l.atom)
  BY DEF Asks
<1>4. x \in Heads(w)
  BY <1>1, <1>2, <1>3 DEF Heads, Rules
<1>5. x \in Reachable(w, {PairOf(p)})
  BY <1>1, <1>4 DEF WalkLeads, Leads, FrameOf
<1>6. AskedPair(w, p) \in NeedsOf(w, x)
  <2>1. l \in {k \in UNION {LiteralsOf(c) : c \in {d \in Clauses(w, x[1]) : d.head = x[2]}} :
                 k.kind \in {"atom", "open"}}
    BY <1>2, <1>3
  <2>2. AskedPair(w, p) = <<IF Says(l.atom) THEN Home[Speaker[l.atom]] ELSE x[1], l.atom>>
    BY <1>3 DEF AskedPair
  <2> HIDE DEF l, cl
  <2> QED BY <2>1, <2>2 DEF NeedsOf
<1> QED BY <1>5, <1>6, NeedsStep, NeedsFirst DEF Leads, NeedsLeads

(* A frame moved on within its goal.                                       *)
SameGoals(p, q) ==
  DOMAIN q.stack = DOMAIN p.stack /\ \A k \in DOMAIN p.stack : q.stack[k].goal = p.stack[k].goal

LEMMA PutFrameFields ==
  ASSUME NEW p \in Process, p.stack # <<>>, NEW f, f.goal = FrameOf(p).goal
  PROVE  /\ PutFrame(p, f).visited = p.visited /\ PutFrame(p, f).fetched = p.fetched
         /\ PutFrame(p, f).node = p.node /\ PutFrame(p, f).goal = p.goal
         /\ PutFrame(p, f).facts = p.facts /\ PutFrame(p, f).pc = p.pc
         /\ PutFrame(p, f).bundles = p.bundles
         /\ PutFrame(p, f).stack = [p.stack EXCEPT ![Len(p.stack)] = f]
         /\ DOMAIN PutFrame(p, f).stack = DOMAIN p.stack
         /\ SameGoals(p, PutFrame(p, f))
<1>1. p.stack \in Seq(Frame) /\ Len(p.stack) \in DOMAIN p.stack /\ FrameOf(p) = p.stack[Len(p.stack)]
  BY DEF Process, FrameOf
<1>2. /\ PutFrame(p, f).visited = p.visited /\ PutFrame(p, f).fetched = p.fetched
      /\ PutFrame(p, f).node = p.node /\ PutFrame(p, f).goal = p.goal
      /\ PutFrame(p, f).facts = p.facts /\ PutFrame(p, f).pc = p.pc
      /\ PutFrame(p, f).bundles = p.bundles
      /\ PutFrame(p, f).stack = [p.stack EXCEPT ![Len(p.stack)] = f]
  BY DEF PutFrame, Process
<1>3. \A k \in DOMAIN p.stack : [p.stack EXCEPT ![Len(p.stack)] = f][k].goal = p.stack[k].goal
  BY <1>1
<1> QED BY <1>2, <1>3 DEF SameGoals

(* The frame past its literal: for every other literal nothing changes.    *)
LEMMA LiteralPassed ==
  ASSUME NEW w \in Deployments, NEW p \in Process, p.stack # <<>>, Searched(w, p),
         NEW q, q.node = p.node, q.facts = p.facts, p.visited \subseteq q.visited,
         \A v \in q.visited \ p.visited :
           v \in Read(w, q.node, q.facts)
           \/ \E k \in DOMAIN q.stack : q.stack[k] = [goal |-> v, clause |-> 1, literal |-> 1],
         \A k \in DOMAIN p.stack : k \in DOMAIN q.stack /\ q.stack[k] = PastLiteral(p).stack[k],
         Handled(w, q, LitAt(w, p))
  PROVE  Searched(w, q)
<1> DEFINE f == [FrameOf(p) EXCEPT !.literal = @ + 1]
<1>1. FrameOf(p) \in Frame /\ f.goal = FrameOf(p).goal
  <2>1. FrameOf(p) \in Frame
    <3>1. p.stack \in Seq(Frame)
      BY DEF Process
    <3> QED BY <3>1 DEF FrameOf
  <2> QED BY <2>1 DEF Frame
<1>2. ASSUME NEW c \in DOMAIN ProgOf(w, p), NEW j \in DOMAIN ProgOf(w, p)[c].body, Ahead(FrameOf(p), c, j)
      PROVE  Handled(w, q, ProgOf(w, p)[c].body[j]) \/ Ahead(f, c, j)
  <2>1. c \in Nat /\ j \in Nat
    BY Positions
  <2>2. (c = FrameOf(p).clause /\ j = FrameOf(p).literal) \/ Ahead(f, c, j)
    BY <1>1, <1>2, <2>1, AheadOfLiteral
  <2> QED BY <2>2 DEF LitAt, ProgOf
<1>3. PastLiteral(p).stack = [p.stack EXCEPT ![Len(p.stack)] = f]
  BY <1>1, PutFrameFields DEF PastLiteral
<1> HIDE DEF f
<1> QED BY <1>1, <1>2, <1>3, TopMoved

LEMMA ClausePassed ==
  ASSUME NEW w \in Deployments, NEW p \in Process, p.stack # <<>>, Searched(w, p),
         FrameOf(p).clause \in DOMAIN ProgOf(w, p),
         \/ ProgOf(w, p)[FrameOf(p).clause].head # FrameOf(p).goal
         \/ FrameOf(p).literal > Len(ProgOf(w, p)[FrameOf(p).clause].body)
  PROVE  Searched(w, PastClause(p))
<1> DEFINE f == [FrameOf(p) EXCEPT !.clause = @ + 1, !.literal = 1]
           q == PastClause(p)
<1>1. FrameOf(p) \in Frame /\ f.goal = FrameOf(p).goal
  <2>1. FrameOf(p) \in Frame
    <3>1. p.stack \in Seq(Frame)
      BY DEF Process
    <3> QED BY <3>1 DEF FrameOf
  <2> QED BY <2>1 DEF Frame
<1>2. ASSUME NEW c \in DOMAIN ProgOf(w, p), ProgOf(w, p)[c].head = f.goal,
             NEW j \in DOMAIN ProgOf(w, p)[c].body, Ahead(FrameOf(p), c, j)
      PROVE  Handled(w, q, ProgOf(w, p)[c].body[j]) \/ Ahead(f, c, j)
  <2>1. c \in Nat /\ j \in Nat \ {0} /\ j <= Len(ProgOf(w, p)[c].body)
    BY Positions
  <2>2. (c = FrameOf(p).clause /\ FrameOf(p).literal <= j) \/ Ahead(f, c, j)
    BY <1>1, <1>2, <2>1, AheadOfClause
  <2>3. CASE c = FrameOf(p).clause /\ FrameOf(p).literal <= j
    <3>1. FrameOf(p).literal > Len(ProgOf(w, p)[c].body)
      BY <1>1, <1>2, <2>3
    <3>2. FrameOf(p).literal \in Nat /\ Len(ProgOf(w, p)[c].body) \in Nat
      <4>1. ProgOf(w, p)[c] \in Clause
        BY ProgramTyped DEF ProgOf, Process
      <4> QED BY <1>1, <4>1 DEF Frame, Clause
    <3> QED BY <2>1, <2>3, <3>1, <3>2
  <2> QED BY <2>2, <2>3
<1>3. /\ q.node = p.node /\ q.facts = p.facts /\ q.visited = p.visited
      /\ q.stack = [p.stack EXCEPT ![Len(p.stack)] = f] /\ DOMAIN q.stack = DOMAIN p.stack
  BY <1>1, PutFrameFields DEF PastClause
<1> HIDE DEF f, q
<1>4. Searched(w, q)
  BY <1>1, <1>2, <1>3, TopMoved
<1> QED BY <1>4 DEF q

LEMMA GoalPassed ==
  ASSUME NEW w \in Deployments, NEW p \in Process, p.stack # <<>>, Searched(w, p),
         FrameOf(p).clause > Len(ProgOf(w, p))
  PROVE  /\ Searched(w, PastGoal(p))
         /\ PastGoal(p).visited = p.visited /\ PastGoal(p).fetched = p.fetched
         /\ \A k \in DOMAIN PastGoal(p).stack : k \in DOMAIN p.stack /\ PastGoal(p).stack[k] = p.stack[k]
<1> DEFINE q == PastGoal(p)
           rest == SubSeq(p.stack, 1, Len(p.stack) - 1)
<1>1. p.stack \in Seq(Frame) /\ FrameOf(p) = p.stack[Len(p.stack)] /\ FrameOf(p) \in Frame
  BY DEF Process, FrameOf
<1>2. q.stack = rest /\ q.visited = p.visited /\ q.node = p.node /\ q.facts = p.facts /\ q.fetched = p.fetched
  BY DEF PastGoal, Process
<1>3. DOMAIN rest = DOMAIN p.stack \ {Len(p.stack)} /\ \A k \in DOMAIN rest : rest[k] = p.stack[k]
  BY <1>1
<1>4. p.node \in Nodes /\ Len(ProgOf(w, p)) \in Nat
  BY ProgramTyped DEF ProgOf, Process
<1> HIDE DEF rest, q
<1>5. ASSUME NEW k \in DOMAIN p.stack, NEW c \in DOMAIN ProgOf(w, p),
             NEW j \in DOMAIN ProgOf(w, p)[c].body, Ahead(p.stack[k], c, j)
      PROVE  \E m \in DOMAIN q.stack : q.stack[m].goal = p.stack[k].goal /\ Ahead(q.stack[m], c, j)
  <2>1. c \in Nat /\ c <= Len(ProgOf(w, p))
    BY Positions
  <2>2. k # Len(p.stack)
    BY <1>1, <1>4, <1>5, <2>1 DEF Ahead, Frame
  <2> QED BY <1>2, <1>3, <1>5, <2>2
<1>6. \A c \in DOMAIN ProgOf(w, p) : c \in Nat \ {0}
        /\ \A j \in DOMAIN ProgOf(w, p)[c].body : j \in Nat \ {0}
  BY Positions
<1>7. Searched(w, q)
  BY <1>2, <1>5, <1>6, SearchedStep
<1> QED BY <1>2, <1>3, <1>7 DEF q

-----------------------------------------------------------------------------
(* The steps of a process keep its search in order                         *)

(* The moves of the walk leave the rest of the process alone.              *)
SameButWalk(p, q) ==
  /\ q.node = p.node /\ q.goal = p.goal /\ q.facts = p.facts /\ q.pc = p.pc
  /\ q.bundles = p.bundles /\ q.fetched = p.fetched

LEMMA EnterFields ==
  ASSUME NEW p \in Process, NEW a \in Atoms
  PROVE  SameButWalk(p, Enter(p, a)) /\ Enter(p, a).visited = p.visited \cup {a}
<1>1. CASE a \in p.visited
  BY <1>1 DEF Enter, Process, SameButWalk
<1>2. CASE a \notin p.visited /\ Has(p, a)
  BY <1>2 DEF Enter, Process, SameButWalk
<1>3. CASE a \notin p.visited /\ ~ Has(p, a)
  BY <1>3 DEF Enter, Process, SameButWalk
<1> QED BY <1>1, <1>2, <1>3

LEMMA PastFields ==
  ASSUME NEW p \in Process, p.stack # <<>>, NEW q \in {PastLiteral(p), PastClause(p)}
  PROVE  SameButWalk(p, q) /\ q.visited = p.visited /\ SameGoals(p, q)
<1>1. FrameOf(p) \in Frame
  <2>1. p.stack \in Seq(Frame)
    BY DEF Process
  <2> QED BY <2>1 DEF FrameOf
<1>2. /\ [FrameOf(p) EXCEPT !.literal = @ + 1].goal = FrameOf(p).goal
      /\ [FrameOf(p) EXCEPT !.clause = @ + 1, !.literal = 1].goal = FrameOf(p).goal
  BY <1>1 DEF Frame
<1>3. CASE q = PastLiteral(p)
  BY <1>2, <1>3, PutFrameFields DEF PastLiteral, SameButWalk
<1>4. CASE q = PastClause(p)
  BY <1>2, <1>4, PutFrameFields DEF PastClause, SameButWalk
<1> QED BY <1>3, <1>4

LEMMA EnterSearched ==
  ASSUME NEW w \in Deployments, NEW p \in Process, NEW a \in Atoms, Searched(w, p),
         w = world, WalkLeads(w, p), Leads(w, PairOf(p), <<p.node, a>>)
  PROVE  Searched(w, Enter(p, a)) /\ WalkLeads(w, Enter(p, a))
<1> DEFINE q == Enter(p, a)
<1>1. /\ q.node = p.node /\ q.goal = p.goal /\ q.facts = p.facts /\ q.visited = p.visited \cup {a}
      /\ \/ a \in p.visited \/ a \in Read(w, p.node, p.facts)
         \/ \E k \in DOMAIN q.stack : q.stack[k] = [goal |-> a, clause |-> 1, literal |-> 1]
      /\ \A k \in DOMAIN p.stack : k \in DOMAIN q.stack /\ q.stack[k] = p.stack[k]
      /\ \A k \in DOMAIN q.stack :
           \/ q.stack[k].goal = a
           \/ k \in DOMAIN p.stack /\ q.stack[k] = p.stack[k]
  BY EnterOK, EnterStack DEF Has
<1> HIDE DEF q
<1>2. \A c \in DOMAIN ProgOf(w, p) : c \in Nat \ {0}
        /\ \A j \in DOMAIN ProgOf(w, p)[c].body : j \in Nat \ {0}
  BY Positions
<1>3. Searched(w, q)
  BY <1>1, <1>2, SearchedStep
<1>4. WalkLeads(w, q)
  BY <1>1 DEF WalkLeads, PairOf
<1> QED BY <1>3, <1>4 DEF q

LEMMA WalkSearch ==
  ASSUME IInv, depth > 0, SearchOK(world, Top),
         \/ StartWalk \/ Resume \/ NextClause \/ GoalDone \/ NextLiteral
         \/ ResolveLocal \/ WalkDone \/ ImportDone
  PROVE  \E q : Become(q) /\ SearchOK(world, q) /\ PairOf(q) = PairOf(Top)
<1>1. Top \in Process /\ ProcOK(world, depth, Top) /\ world \in Deployments
  BY TopOK
<1>2. Searched(world, Top) /\ WalkLeads(world, Top) /\ Top.fetched \subseteq Top.facts
      /\ (Top.pc # "load" => Top.goal \in Top.visited)
  BY DEF SearchOK
<1>3. ASSUME NEW q, Become(q), q.node = Top.node, q.goal = Top.goal, q.facts = Top.facts,
             q.bundles = Top.bundles, q.pc \notin {"load", "wait", "import"}, q.fetched \subseteq q.facts,
             Searched(world, q), q.goal \in q.visited, q.pc = "final" => q.stack = <<>>, WalkLeads(world, q)
      PROVE  \E r : Become(r) /\ SearchOK(world, r) /\ PairOf(r) = PairOf(Top)
  <2>1. SearchOK(world, q)
    BY <1>3, MoveSearch
  <2> QED BY <1>3, <2>1 DEF PairOf
<1>4. ASSUME NEW pc \in Pcs
      PROVE  LET p == [Top EXCEPT !.pc = pc]
             IN  /\ p \in Process /\ p.node = Top.node /\ p.goal = Top.goal /\ p.facts = Top.facts
                 /\ p.pc = pc /\ p.bundles = Top.bundles /\ p.stack = Top.stack
                 /\ p.visited = Top.visited /\ p.fetched = Top.fetched
                 /\ Searched(world, p) /\ WalkLeads(world, p)
  <2> DEFINE p == [Top EXCEPT !.pc = pc]
  <2>1. /\ p \in Process /\ p.node = Top.node /\ p.goal = Top.goal /\ p.facts = Top.facts
        /\ p.pc = pc /\ p.bundles = Top.bundles /\ p.stack = Top.stack
        /\ p.visited = Top.visited /\ p.fetched = Top.fetched
    BY <1>1 DEF Process
  <2> HIDE DEF p
  <2>2. Searched(world, p) /\ WalkLeads(world, p)
    BY <1>2, <2>1, SearchedMore DEF WalkLeads, PairOf
  <2> QED BY <2>1, <2>2 DEF p
<1>5. CASE StartWalk
  <2> DEFINE p == [Top EXCEPT !.pc = "walk"]
             q == Enter(p, Top.goal)
  <2>1. /\ p \in Process /\ p.node = Top.node /\ p.goal = Top.goal /\ p.facts = Top.facts
        /\ p.pc = "walk" /\ p.bundles = Top.bundles /\ p.fetched = Top.fetched
        /\ Searched(world, p) /\ WalkLeads(world, p)
    BY <1>4 DEF Pcs
  <2>2. Become(q) /\ Top.goal \in Atoms
    BY <1>1, <1>5 DEF StartWalk, Process
  <2> HIDE DEF p
  <2>3. Leads(world, PairOf(p), <<p.node, Top.goal>>)
    BY <2>1, LeadsSelf DEF PairOf
  <2>4. /\ q.node = Top.node /\ q.goal = Top.goal /\ q.facts = Top.facts /\ q.pc = "walk"
        /\ q.bundles = Top.bundles /\ q.fetched = Top.fetched /\ q.goal \in q.visited
    BY <2>1, <2>2, EnterFields DEF SameButWalk
  <2>5. Searched(world, q) /\ WalkLeads(world, q)
    BY <1>1, <2>1, <2>2, <2>3, EnterSearched
  <2> HIDE DEF q
  <2> QED BY <1>2, <1>3, <2>2, <2>4, <2>5
<1>6. CASE Resume
  <2> DEFINE p == [Top EXCEPT !.pc = "walk"]
  <2>1. Become(p) /\ Top.pc # "load"
    BY <1>6 DEF Resume
  <2>2. /\ p.node = Top.node /\ p.goal = Top.goal /\ p.facts = Top.facts
        /\ p.pc = "walk" /\ p.bundles = Top.bundles /\ p.fetched = Top.fetched
        /\ p.visited = Top.visited /\ Searched(world, p) /\ WalkLeads(world, p)
    BY <1>4 DEF Pcs
  <2> HIDE DEF p
  <2> QED BY <1>2, <1>3, <2>1, <2>2
<1>7. CASE WalkDone
  <2> DEFINE p == [Top EXCEPT !.pc = "final", !.passes = 0]
  <2>1. Become(p) /\ Top.pc # "load" /\ Top.stack = <<>>
    BY <1>7 DEF WalkDone
  <2>2. /\ p.node = Top.node /\ p.goal = Top.goal /\ p.facts = Top.facts
        /\ p.pc = "final" /\ p.bundles = Top.bundles /\ p.fetched = Top.fetched /\ p.stack = Top.stack
        /\ p.visited = Top.visited
    BY <1>1, FinalOK DEF Pcs
  <2> HIDE DEF p
  <2>3. Searched(world, p) /\ WalkLeads(world, p)
    BY <1>2, <2>2, SearchedMore DEF WalkLeads, PairOf
  <2> QED BY <1>2, <1>3, <2>1, <2>2, <2>3
<1>8. ASSUME Top.stack # <<>>
      PROVE  FrameOf(Top) \in Frame
  <2>1. Top.stack \in Seq(Frame)
    BY <1>1 DEF Process
  <2> QED BY <1>8, <2>1 DEF FrameOf
<1>9. ASSUME Top.stack # <<>>, NEW q \in {PastLiteral(Top), PastClause(Top)}
      PROVE  /\ q.node = Top.node /\ q.goal = Top.goal /\ q.facts = Top.facts /\ q.pc = Top.pc
             /\ q.bundles = Top.bundles /\ q.fetched = Top.fetched /\ q.visited = Top.visited
             /\ DOMAIN q.stack = DOMAIN Top.stack /\ WalkLeads(world, q)
  <2>1. SameButWalk(Top, q) /\ q.visited = Top.visited /\ SameGoals(Top, q)
    BY <1>1, <1>9, PastFields
  <2>2. WalkLeads(world, q)
    BY <1>2, <2>1 DEF WalkLeads, PairOf, SameButWalk, SameGoals
  <2> QED BY <2>1, <2>2 DEF SameButWalk, SameGoals
<1>10. CASE NextClause
  <2>1. /\ Top.stack # <<>> /\ Top.pc = "walk" /\ AtClause(Top) /\ Become(PastClause(Top))
        /\ \/ ClauseOf(Top).head # FrameOf(Top).goal
           \/ FrameOf(Top).literal > Len(ClauseOf(Top).body)
    BY <1>10 DEF NextClause, Walking
  <2>2. FrameOf(Top).clause \in DOMAIN ProgOf(world, Top)
    <3>1. ProgOf(world, Top) \in Seq(Clause)
      BY <1>1, ProgramTyped DEF ProgOf, Process
    <3> QED BY <1>8, <2>1, <3>1 DEF AtClause, ProgramOf, ProgOf, Frame
  <2>3. Searched(world, PastClause(Top))
    BY <1>1, <1>2, <2>1, <2>2, ClausePassed DEF ClauseOf, ProgramOf, ProgOf
  <2> QED BY <1>2, <1>3, <1>9, <2>1, <2>3
<1>11. CASE GoalDone
  <2>1. Top.stack # <<>> /\ Top.pc = "walk" /\ ~ AtClause(Top) /\ Become(PastGoal(Top))
    BY <1>11 DEF GoalDone, Walking
  <2>2. FrameOf(Top).clause > Len(ProgOf(world, Top))
    <3>1. ProgOf(world, Top) \in Seq(Clause)
      BY <1>1, ProgramTyped DEF ProgOf, Process
    <3> QED BY <1>8, <2>1, <3>1 DEF AtClause, ProgramOf, ProgOf, Frame
  <2>3. /\ Searched(world, PastGoal(Top))
        /\ PastGoal(Top).visited = Top.visited /\ PastGoal(Top).fetched = Top.fetched
        /\ \A k \in DOMAIN PastGoal(Top).stack :
             k \in DOMAIN Top.stack /\ PastGoal(Top).stack[k] = Top.stack[k]
    BY <1>1, <1>2, <2>1, <2>2, GoalPassed
  <2>4. /\ PastGoal(Top).node = Top.node /\ PastGoal(Top).goal = Top.goal /\ PastGoal(Top).facts = Top.facts
        /\ PastGoal(Top).pc = Top.pc /\ PastGoal(Top).bundles = Top.bundles
    BY <1>1, <2>1, StackOK
  <2>5. WalkLeads(world, PastGoal(Top))
    BY <1>2, <2>3, <2>4 DEF WalkLeads, PairOf
  <2> QED BY <1>2, <1>3, <2>1, <2>3, <2>4, <2>5
<1>12. ASSUME AtLiteral(Top)
       PROVE  /\ Top.stack # <<>> /\ Top.pc = "walk" /\ LiteralOf(Top) = LitAt(world, Top)
              /\ LitAt(world, Top) \in Literal /\ Placed(world, Top)
              /\ ClauseOf(Top).head = FrameOf(Top).goal
  BY <1>12, AtLiteralPlaced, PlacedLiteral DEF AtLiteral, LiteralOf, ClauseOf, ProgramOf, LitAt
<1>13. CASE NextLiteral
  <2>1. /\ AtLiteral(Top) /\ Become(PastLiteral(Top))
        /\ \/ Skipped(Top)
           \/ IsRemote(Top) /\ KnownRoute(Top) /\ Fetched(Top)
           \/ ~ Skipped(Top) /\ ~ IsRemote(Top) /\ Answered(Top)
    BY <1>13 DEF NextLiteral
  <2>2. Handled(world, PastLiteral(Top), LitAt(world, Top))
    <3>1. PastLiteral(Top).facts = Top.facts /\ PastLiteral(Top).node = Top.node
      BY <1>9, <1>12, <2>1
    <3> QED BY <1>1, <1>2, <1>12, <2>1, <3>1, ReadOwn
            DEF Skipped, IsRemote, Fetched, Answered, HasDerivation, Has, Handled, Process
  <2>3. Searched(world, PastLiteral(Top))
    BY <1>1, <1>2, <1>9, <1>12, <2>1, <2>2, LiteralPassed
  <2> QED BY <1>2, <1>3, <1>9, <1>12, <2>1, <2>3
<1>14. CASE ResolveLocal
  <2> DEFINE a == LitAt(world, Top).atom
             p == PastLiteral(Top)
             q == Enter(p, a)
  <2>1. AtLiteral(Top) /\ Become(q) /\ ~ Skipped(Top) /\ ~ IsRemote(Top) /\ ~ Answered(Top)
    BY <1>12, <1>14 DEF ResolveLocal
  <2>2. a \in Atoms /\ ~ Says(a) /\ HasDerivation(Top, a) /\ LitAt(world, Top).kind \in {"atom", "open"}
    BY <1>12, <2>1 DEF Skipped, IsRemote, Answered, Literal
  <2>3. p \in Process
    BY <1>1, <1>12, <2>1, StackOK
  <2>4. /\ p.node = Top.node /\ p.goal = Top.goal /\ p.facts = Top.facts /\ p.pc = "walk"
        /\ p.bundles = Top.bundles /\ p.fetched = Top.fetched /\ p.visited = Top.visited
        /\ DOMAIN p.stack = DOMAIN Top.stack /\ WalkLeads(world, p)
    BY <1>9, <1>12, <2>1
  <2>5. Leads(world, PairOf(p), <<p.node, a>>)
    <3> DEFINE x == <<Top.node, FrameOf(Top).goal>>
    <3>2. ClauseOf(Top) \in Clauses(world, Top.node) /\ LitAt(world, Top) \in LiteralsOf(ClauseOf(Top))
      BY <1>12, <2>1 DEF Placed, Clauses, LiteralsOf, LitAt, ClauseOf, ProgramOf
    <3>3. x \in Heads(world)
      BY <1>1, <1>12, <2>1, <3>2 DEF Heads, Rules, Process
    <3>4. x \in Reachable(world, {PairOf(Top)})
      <4>1. Top.stack \in Seq(Frame) /\ Len(Top.stack) \in DOMAIN Top.stack
        BY <1>1, <1>12, <2>1 DEF Process
      <4> QED BY <1>2, <3>3, <4>1 DEF WalkLeads, Leads, FrameOf
    <3>5. <<Top.node, a>> \in NeedsOf(world, x)
      <4>1. LitAt(world, Top) \in {k \in UNION {LiteralsOf(c) : c \in {d \in Clauses(world, x[1]) : d.head = x[2]}} :
                                    k.kind \in {"atom", "open"}}
        BY <1>12, <2>1, <2>2, <3>2
      <4>2. <<Top.node, a>> = <<IF Says(LitAt(world, Top).atom) THEN Home[Speaker[LitAt(world, Top).atom]]
                                ELSE x[1], LitAt(world, Top).atom>>
        BY <2>2
      <4> HIDE DEF x, a
      <4> QED BY <4>1, <4>2 DEF NeedsOf
    <3> HIDE DEF x, a, p
    <3> QED BY <2>4, <3>4, <3>5, NeedsStep DEF Leads, PairOf
  <2>6. /\ q.node = p.node /\ q.goal = p.goal /\ q.facts = p.facts /\ q.pc = p.pc
        /\ q.bundles = p.bundles /\ q.fetched = p.fetched /\ q.visited = p.visited \cup {a}
        /\ \/ a \in p.visited \/ a \in Read(world, p.node, p.facts)
           \/ \E k \in DOMAIN q.stack : q.stack[k] = [goal |-> a, clause |-> 1, literal |-> 1]
        /\ \A k \in DOMAIN p.stack : k \in DOMAIN q.stack /\ q.stack[k] = p.stack[k]
        /\ \A k \in DOMAIN q.stack :
             \/ q.stack[k].goal = a
             \/ k \in DOMAIN p.stack /\ q.stack[k] = p.stack[k]
    <3> HIDE DEF p, a
    <3> QED BY <2>2, <2>3, EnterOK, EnterStack DEF Has
  <2>7. Handled(world, q, LitAt(world, Top))
    BY <2>2, <2>6 DEF Handled
  <2> HIDE DEF q, a
  <2>8. \A k \in DOMAIN Top.stack : k \in DOMAIN q.stack /\ q.stack[k] = PastLiteral(Top).stack[k]
    BY <2>4, <2>6
  <2> HIDE DEF p
  <2>9. Searched(world, q)
    BY <1>1, <1>2, <1>12, <2>1, <2>4, <2>6, <2>7, <2>8, LiteralPassed
  <2>10. WalkLeads(world, q)
    BY <2>4, <2>5, <2>6 DEF WalkLeads, PairOf
  <2> QED BY <1>2, <1>3, <1>12, <2>1, <2>4, <2>6, <2>9, <2>10
<1>15. CASE ImportDone
  <2> DEFINE p == [Top EXCEPT !.fetched = @ \cup {LiteralOf(Top).atom}, !.pc = "rerun", !.passes = 0]
  <2>1. Top.pc = "import" /\ Top.reply = <<>> /\ Become(PastLiteral(p))
    BY <1>15 DEF ImportDone, Importing
  <2>2. Placed(world, Top)
    BY <1>1, <2>1 DEF ProcOK
  <2>3. LiteralOf(Top) = LitAt(world, Top) /\ LitAt(world, Top).atom \in Atoms /\ Top.stack # <<>>
    BY <2>2, PlacedLiteral DEF Placed, LiteralOf, ClauseOf, ProgramOf, LitAt
  <2>4. LitAt(world, Top).atom \in Top.facts
    BY <2>1 DEF SearchOK, GoalsOf
  <2>5. /\ p \in Process /\ p.stack = Top.stack /\ p.node = Top.node /\ p.goal = Top.goal
        /\ p.facts = Top.facts /\ p.pc = "rerun" /\ p.bundles = Top.bundles /\ p.visited = Top.visited
        /\ p.fetched = Top.fetched \cup {LitAt(world, Top).atom}
    BY <1>1, <2>3 DEF Process, Pcs
  <2> HIDE DEF p
  <2>6. FrameOf(p) = FrameOf(Top) /\ LitAt(world, p) = LitAt(world, Top)
    BY <2>5 DEF FrameOf, LitAt
  <2>7. Searched(world, p) /\ WalkLeads(world, p)
    BY <1>2, <2>5, SearchedMore DEF WalkLeads, PairOf
  <2> DEFINE q == PastLiteral(p)
  <2>9. /\ q.node = p.node /\ q.goal = p.goal /\ q.facts = p.facts /\ q.pc = p.pc
        /\ q.bundles = p.bundles /\ q.fetched = p.fetched /\ q.visited = p.visited
        /\ DOMAIN q.stack = DOMAIN p.stack
        /\ \A k \in DOMAIN p.stack : q.stack[k].goal = p.stack[k].goal
    BY <2>3, <2>5, PastFields DEF SameButWalk, SameGoals
  <2>10. Handled(world, q, LitAt(world, p))
    BY <2>4, <2>5, <2>6, <2>9 DEF Handled
  <2>11. Searched(world, q)
    <3>1. \A k \in DOMAIN p.stack : k \in DOMAIN q.stack /\ q.stack[k] = PastLiteral(p).stack[k]
      BY <2>9
    <3> HIDE DEF q
    <3> QED BY <1>1, <2>3, <2>5, <2>7, <2>9, <2>10, <3>1, LiteralPassed
  <2>12. WalkLeads(world, q)
    BY <2>7, <2>9 DEF WalkLeads, PairOf
  <2> HIDE DEF q
  <2>13. Become(q)
    BY <2>1 DEF q
  <2> QED BY <1>2, <1>3, <2>1, <2>4, <2>5, <2>9, <2>11, <2>12, <2>13
<1> QED BY <1>5, <1>6, <1>7, <1>10, <1>11, <1>13, <1>14, <1>15

LEMMA EvaluateSearch ==
  ASSUME IInv, depth > 0, SearchOK(world, Top), Evaluate
  PROVE  \E q : Become(q) /\ SearchOK(world, q) /\ PairOf(q) = PairOf(Top)
<1> DEFINE q == [Top EXCEPT !.facts = @ \cup Derives(world, Top.node, Top.facts), !.passes = @ + 1]
<1>1. Become(q) /\ Top.pc \notin {"wait", "import"} /\ Top \in Process
  BY TopOK DEF Evaluate, Evaluating
<1>2. /\ q.node = Top.node /\ q.goal = Top.goal /\ q.pc = Top.pc /\ Top.facts \subseteq q.facts
      /\ q.visited = Top.visited /\ q.fetched = Top.fetched /\ q.stack = Top.stack
      /\ q.bundles = Top.bundles
  BY <1>1 DEF Process
<1> HIDE DEF q
<1>3. Searched(world, q)
  BY <1>2, SearchedMore DEF SearchOK
<1>4. WalkLeads(world, q) /\ PairOf(q) = PairOf(Top)
  BY <1>2 DEF SearchOK, WalkLeads, PairOf
<1>5. SearchOK(world, q)
  BY <1>1, <1>2, <1>3, <1>4 DEF SearchOK
<1> QED BY <1>1, <1>4, <1>5

(* What is imported for a statement is needed by who asked for it.         *)
LEMMA ImportSearch ==
  ASSUME IInv, depth > 0, SearchOK(world, Top), ImportBundle
  PROVE  \E q : Become(q) /\ SearchOK(world, q) /\ PairOf(q) = PairOf(Top)
<1> DEFINE b == Head(Top.reply)
           q == [Top EXCEPT !.facts = @ \cup {b.goal}, !.bundles = AddBundle(@, b), !.reply = Tail(@)]
<1>1. Top.pc = "import" /\ Top.reply # <<>> /\ Become(q)
  BY DEF ImportBundle, Importing
<1>2. Top \in Process /\ ProcOK(world, depth, Top) /\ world \in Deployments
  BY TopOK
<1>3. Top.reply \in Seq(Bundle) /\ Top.bundles \in Seq(Bundle)
  BY <1>2 DEF Process
<1>4. b = Top.reply[1] /\ 1 \in DOMAIN Top.reply /\ b \in Bundle
  BY <1>1, <1>3
<1>5. /\ \A j \in DOMAIN Tail(Top.reply) : j + 1 \in DOMAIN Top.reply /\ Tail(Top.reply)[j] = Top.reply[j + 1]
      /\ \A j \in DOMAIN Top.reply : j # 1 => j - 1 \in DOMAIN Tail(Top.reply) /\ Tail(Top.reply)[j - 1] = Top.reply[j]
  <2>1. /\ Len(Top.reply) \in Nat /\ DOMAIN Tail(Top.reply) = 1..(Len(Top.reply) - 1)
        /\ DOMAIN Top.reply = 1..Len(Top.reply)
        /\ \A j \in 1..(Len(Top.reply) - 1) : Tail(Top.reply)[j] = Top.reply[j + 1]
    BY <1>1, <1>3
  <2>2. ASSUME NEW j \in DOMAIN Top.reply, j # 1
        PROVE  j - 1 \in DOMAIN Tail(Top.reply) /\ Tail(Top.reply)[j - 1] = Top.reply[j]
    <3>1. j - 1 \in 1..(Len(Top.reply) - 1) /\ (j - 1) + 1 = j
      BY <2>1, <2>2
    <3> QED BY <2>1, <3>1
  <2> QED BY <2>1, <2>2
<1>6. \A j \in DOMAIN AddBundle(Top.bundles, b) :
        AddBundle(Top.bundles, b)[j] = b \/ \E k \in DOMAIN Top.bundles : AddBundle(Top.bundles, b)[j] = Top.bundles[k]
  BY <1>3, <1>4, AddedBundle
<1>7. /\ q.node = Top.node /\ q.goal = Top.goal /\ q.pc = "import" /\ q.facts = Top.facts \cup {b.goal}
      /\ q.visited = Top.visited /\ q.fetched = Top.fetched /\ q.stack = Top.stack
      /\ q.bundles = AddBundle(Top.bundles, b) /\ q.reply = Tail(Top.reply)
  BY <1>1, <1>2 DEF Process
<1> HIDE DEF q, b
<1>8. Searched(world, q) /\ WalkLeads(world, q) /\ PairOf(q) = PairOf(Top)
  BY <1>7, SearchedMore DEF SearchOK, WalkLeads, PairOf
<1>9. LitAt(world, q) = LitAt(world, Top) /\ AskedPair(world, q) = AskedPair(world, Top)
      /\ Asks(world, q)
  BY <1>1, <1>7 DEF LitAt, AskedPair, FrameOf, SearchOK, Asks
<1>10. LitAt(world, q).atom \in q.facts \cup GoalsOf(q.reply)
  <2>1. GoalsOf(Top.reply) \subseteq {b.goal} \cup GoalsOf(Tail(Top.reply))
    <3>1. ASSUME NEW j \in DOMAIN Top.reply
          PROVE  Top.reply[j].goal \in {b.goal} \cup GoalsOf(Tail(Top.reply))
      <4>1. CASE j = 1
        BY <1>4, <4>1
      <4>2. CASE j # 1
        BY <1>5, <4>2 DEF GoalsOf
      <4> QED BY <4>1, <4>2
    <3> QED BY <3>1 DEF GoalsOf
  <2>2. LitAt(world, Top).atom \in Top.facts \cup GoalsOf(Top.reply)
    BY <1>1 DEF SearchOK
  <2> QED BY <1>7, <1>9, <2>1, <2>2
<1>11. \A j \in DOMAIN q.reply : FromBelow(world, q.reply[j], AskedPair(world, q))
  BY <1>1, <1>5, <1>7, <1>9 DEF SearchOK
<1>12. \A j \in DOMAIN q.bundles : FromBelow(world, q.bundles[j], PairOf(q))
  <2>1. FromBelow(world, b, AskedPair(world, Top))
    BY <1>1, <1>4 DEF SearchOK
  <2>2. Leads(world, PairOf(Top), AskedPair(world, Top))
    BY <1>1, <1>2, AskedNeeded DEF SearchOK, ProcOK
  <2>3. FromBelow(world, b, PairOf(Top))
    BY <2>1, <2>2, LeadsThrough DEF FromBelow
  <2> QED BY <1>6, <1>7, <1>8, <2>3 DEF SearchOK
<1>13. SearchOK(world, q)
  <2>1. q.fetched \subseteq q.facts /\ q.goal \in q.visited
    BY <1>1, <1>7 DEF SearchOK
  <2> QED BY <1>7, <1>8, <1>9, <1>10, <1>11, <1>12, <2>1 DEF SearchOK
<1> QED BY <1>1, <1>8, <1>13

LEMMA NewSearch ==
  ASSUME NEW w, NEW n, NEW g PROVE SearchOK(w, NewProcess(n, g))
<1>1. /\ NewProcess(n, g).visited = {} /\ NewProcess(n, g).fetched = {}
      /\ NewProcess(n, g).stack = <<>> /\ NewProcess(n, g).bundles = <<>>
      /\ NewProcess(n, g).pc = "load"
  BY DEF NewProcess
<1>2. Searched(w, NewProcess(n, g)) /\ WalkLeads(w, NewProcess(n, g))
  BY <1>1 DEF Searched, WalkLeads
<1> QED BY <1>1, <1>2 DEF SearchOK

-----------------------------------------------------------------------------
(* The passes of a run                                                     *)

(* Every pass of a run stored the head of a clause.                        *)
Stored(w, p) == p.facts \cap HeadsAt(w, p.node)
PassesOK(w, p) == p.passes \in Nat /\ p.passes <= Cardinality(Stored(w, p))
Counted == \A i \in 1..depth : PassesOK(world, calls[i])

LEMMA HeadsFinite ==
  ASSUME NEW w \in Deployments, NEW n \in Nodes
  PROVE  IsFiniteSet(HeadsAt(w, n))
<1> DEFINE D == 1..Len(w.prog[n])
           f == [i \in D |-> w.prog[n][i].head]
<1>1. w.prog[n] \in Seq(Clause) /\ Len(w.prog[n]) \in Nat /\ DOMAIN w.prog[n] = D
  BY ProgramTyped
<1>2. IsFiniteSet(D)
  BY <1>1, FS_Interval
<1>3. f \in Surjection(D, HeadsAt(w, n))
  BY <1>1 DEF HeadsAt, Clauses, Surjection
<1> HIDE DEF D, f
<1> QED BY <1>2, <1>3, FS_Surjection

LEMMA StoredMore ==
  ASSUME NEW w \in Deployments, NEW n \in Nodes, NEW facts, NEW more, facts \subseteq more
  PROVE  /\ Cardinality(facts \cap HeadsAt(w, n)) \in Nat
         /\ Cardinality(facts \cap HeadsAt(w, n)) <= Cardinality(more \cap HeadsAt(w, n))
         /\ Cardinality(more \cap HeadsAt(w, n)) <= Cardinality(HeadsAt(w, n))
         /\ Cardinality(HeadsAt(w, n)) \in Nat
         /\ Cardinality(facts \cap HeadsAt(w, n)) = Cardinality(more \cap HeadsAt(w, n))
              => facts \cap HeadsAt(w, n) = more \cap HeadsAt(w, n)
         /\ Cardinality(more \cap HeadsAt(w, n)) = Cardinality(HeadsAt(w, n))
              => HeadsAt(w, n) \subseteq more
<1> DEFINE H == HeadsAt(w, n)
           S == facts \cap H
           U == more \cap H
<1>1. IsFiniteSet(H) /\ S \in SUBSET U /\ U \in SUBSET H
  BY HeadsFinite
<1> HIDE DEF H, S, U
<1>2. /\ IsFiniteSet(U) /\ Cardinality(U) <= Cardinality(H)
      /\ Cardinality(H) = Cardinality(U) => H = U
  BY <1>1, FS_Subset
<1>3. /\ IsFiniteSet(S) /\ Cardinality(S) <= Cardinality(U)
      /\ Cardinality(U) = Cardinality(S) => U = S
  BY <1>1, <1>2, FS_Subset
<1>4. Cardinality(S) \in Nat /\ Cardinality(U) \in Nat /\ Cardinality(H) \in Nat
  BY <1>1, <1>2, <1>3, FS_CardinalityType
<1> QED BY <1>2, <1>3, <1>4 DEF H, S, U

(* So a run that may make as many passes as its node has heads is over     *)
(* only when there is nothing new.                                         *)
LEMMA NotCut ==
  ASSUME NEW w \in Deployments, NEW p \in Process, PassesOK(w, p), ~ MayBeCut(w),
         p.passes = MaxPasses
  PROVE  Derives(w, p.node, p.facts) \subseteq p.facts
<1> DEFINE H == HeadsAt(w, p.node)
<1>1. p.node \in Nodes
  BY DEF Process
<1>2. /\ Cardinality(Stored(w, p)) \in Nat /\ Cardinality(Stored(w, p)) <= Cardinality(H)
      /\ Cardinality(H) \in Nat
      /\ Cardinality(Stored(w, p)) = Cardinality(H) => H \subseteq p.facts
  BY <1>1, StoredMore DEF Stored
<1>3. Cardinality(H) <= MaxPasses
  BY <1>1, <1>2, QueryAssumption DEF MayBeCut
<1>4. Cardinality(Stored(w, p)) = Cardinality(H)
  <2> HIDE DEF H
  <2>1. ASSUME NEW s \in Nat, NEW h \in Nat, s <= h, h <= MaxPasses, MaxPasses <= s PROVE s = h
    BY <2>1, QueryAssumption
  <2> QED BY <1>2, <1>3, <2>1 DEF PassesOK
<1>5. Derives(w, p.node, p.facts) \subseteq H
  BY DEF Derives, HeadsAt
<1> QED BY <1>2, <1>4, <1>5

LEMMA SamePasses ==
  ASSUME NEW w \in Deployments, NEW p, p.node \in Nodes, PassesOK(w, p), NEW q, q.node = p.node,
         p.facts \subseteq q.facts, q.passes \in {p.passes, 0}
  PROVE  PassesOK(w, q)
<1>1. /\ Cardinality(Stored(w, p)) \in Nat /\ Cardinality(Stored(w, p)) <= Cardinality(Stored(w, q))
      /\ Cardinality(Stored(w, q)) \in Nat
  BY StoredMore DEF Stored
<1> QED BY <1>1 DEF PassesOK

LEMMA NewPasses ==
  ASSUME NEW w \in Deployments, NEW n \in Nodes, NEW g PROVE PassesOK(w, NewProcess(n, g))
<1>1. NewProcess(n, g).passes = 0 /\ NewProcess(n, g).node = n
  BY DEF NewProcess
<1>2. Cardinality(Stored(w, NewProcess(n, g))) \in Nat
  BY <1>1, StoredMore DEF Stored
<1> QED BY <1>1, <1>2 DEF PassesOK

LEMMA BecomeCounted ==
  ASSUME IInv, Counted, depth > 0, NEW q, Become(q), PassesOK(world, q)
  PROVE  Counted'
<1>1. depth' = depth /\ calls' = [calls EXCEPT ![depth] = q] /\ world' = world
      /\ 1..depth \subseteq DOMAIN calls
  BY QueryAssumption DEF Become, IInv
<1>2. \A i \in 1..depth : calls'[i] = calls[i] \/ calls'[i] = q
  BY <1>1
<1> QED BY <1>1, <1>2 DEF Counted

LEMMA EvaluateCounted ==
  ASSUME IInv, Counted, Evaluate PROVE Counted'
<1> DEFINE new == Derives(world, Top.node, Top.facts)
           q == [Top EXCEPT !.facts = @ \cup new, !.passes = @ + 1]
           old == Stored(world, Top)
<1>1. depth > 0 /\ Become(q) /\ ~ (new \subseteq Top.facts)
  BY DEF Evaluate, Evaluating, RunOver, Settled
<1>2. Top \in Process /\ world \in Deployments /\ Top.node \in Nodes /\ PassesOK(world, Top)
  BY <1>1, TopOK DEF Process, Counted, Top
<1>3. new \subseteq HeadsAt(world, Top.node) /\ new \subseteq Atoms
  BY <1>2, ProgramTyped DEF Derives, HeadsAt, Clause
<1>4. q.node = Top.node /\ q.facts = Top.facts \cup new /\ q.passes = Top.passes + 1
  <2> HIDE DEF new
  <2> QED BY <1>2, <1>3, PassOK
<1> DEFINE now == (Top.facts \cup new) \cap HeadsAt(world, Top.node)
<1>5. old # now /\ Stored(world, q) = now /\ old = Top.facts \cap HeadsAt(world, Top.node)
  <2> HIDE DEF q
  <2> QED BY <1>1, <1>3, <1>4 DEF Stored
<1> HIDE DEF q
<1>6. /\ Cardinality(old) \in Nat /\ Cardinality(old) <= Cardinality(Stored(world, q))
      /\ Cardinality(Stored(world, q)) \in Nat
      /\ Cardinality(old) # Cardinality(Stored(world, q))
  <2> DEFINE n == Top.node
             F == Top.facts
             G == Top.facts \cup new
  <2>1. F \subseteq G /\ G \subseteq G /\ n \in Nodes /\ world \in Deployments
    BY <1>2
  <2>2. /\ Cardinality(F \cap HeadsAt(world, n)) \in Nat
        /\ Cardinality(F \cap HeadsAt(world, n)) <= Cardinality(G \cap HeadsAt(world, n))
        /\ Cardinality(F \cap HeadsAt(world, n)) = Cardinality(G \cap HeadsAt(world, n))
             => F \cap HeadsAt(world, n) = G \cap HeadsAt(world, n)
    <3> HIDE DEF n, F, G
    <3> QED BY <2>1, StoredMore
  <2>3. Cardinality(G \cap HeadsAt(world, n)) \in Nat
    <3> HIDE DEF n, F, G
    <3> QED BY <2>1, StoredMore
  <2>4. F \cap HeadsAt(world, n) = old /\ G \cap HeadsAt(world, n) = now
    BY <1>5
  <2> HIDE DEF now, old, n, F, G
  <2> QED BY <1>5, <2>2, <2>3, <2>4
<1>7. PassesOK(world, q)
  <2> HIDE DEF old, new
  <2>1. Top.passes \in Nat /\ Top.passes <= Cardinality(old)
    BY <1>2 DEF PassesOK, old
  <2> QED BY <1>4, <1>6, <2>1 DEF PassesOK
<1> QED BY <1>1, <1>7, BecomeCounted

LEMMA NextCounted ==
  ASSUME IInv, Counted, [Next]_vars
  PROVE  Counted'
<1>1. world' = world
  BY NextWorld
<1>2. ASSUME depth > 0
      PROVE  /\ Top \in Process /\ Top.node \in Nodes /\ PassesOK(world, Top) /\ world \in Deployments
             /\ depth \in Nat
  BY <1>2, TopOK DEF Process, Counted, Top
<1>3. CASE \E a \in Asked : Ask(a[1], a[2])
  <2>1. PICK a \in Asked : Ask(a[1], a[2])
    BY <1>3
  <2>2. depth' = 1 /\ calls'[1] = NewProcess(a[1], a[2])
    BY <2>1, QueryAssumption DEF Ask, IInv
  <2>3. PassesOK(world, NewProcess(a[1], a[2]))
    BY NewPasses, QueryAssumption DEF IInv
  <2> QED BY <1>1, <2>2, <2>3 DEF Counted
<1>4. CASE Evaluate
  BY <1>4, EvaluateCounted
<1>5. CASE \/ StartWalk \/ Resume \/ NextClause \/ GoalDone \/ NextLiteral
           \/ ResolveLocal \/ WalkDone \/ ImportDone
  <2>1. depth > 0 /\ \E q : Become(q) /\ Quiet(Top, q)
    BY <1>5, QuietMoves
  <2>2. PICK q : Become(q) /\ Quiet(Top, q)
    BY <2>1
  <2>3. PassesOK(world, q)
    BY <1>2, <2>1, <2>2, SamePasses DEF Quiet
  <2> QED BY <2>1, <2>2, <2>3, BecomeCounted
<1>6. CASE CallNode
  <2> DEFINE a == LiteralOf(Top).atom
             waiting == [Top EXCEPT !.pc = "wait"]
             called == NewProcess(Home[Speaker[a]], a)
  <2>1. /\ depth > 0 /\ depth' = depth + 1 /\ depth < MaxDepth /\ AtLiteral(Top) /\ Says(a)
        /\ calls' = [calls EXCEPT ![depth] = waiting, ![depth + 1] = called]
    BY <1>6 DEF CallNode, IsRemote
  <2>2. waiting.node = Top.node /\ waiting.facts = Top.facts /\ waiting.passes = Top.passes
    BY <1>2, <2>1, PcOK DEF Pcs
  <2> HIDE DEF waiting
  <2>3. PassesOK(world, waiting)
    BY <1>2, <2>1, <2>2, SamePasses
  <2>4. a \in Atoms
    BY <2>1, AtLiteralPlaced, PlacedLiteral
  <2>5. PassesOK(world, called)
    BY <1>2, <2>1, <2>4, NewPasses, QueryAssumption DEF Says
  <2> HIDE DEF called, a
  <2>6. 1..(depth + 1) \subseteq DOMAIN calls /\ depth \in Nat
    BY <1>2, <2>1, QueryAssumption DEF IInv
  <2>7. ASSUME NEW i \in 1..(depth + 1) PROVE PassesOK(world, calls'[i])
    <3>1. CASE i = depth + 1
      BY <2>1, <2>5, <2>6, <3>1
    <3>2. CASE i = depth
      BY <2>1, <2>3, <2>6, <3>2
    <3>3. CASE i \in 1..depth /\ i # depth
      BY <2>1, <2>6, <3>3 DEF Counted
    <3> QED BY <2>6, <3>1, <3>2, <3>3
  <2> QED BY <1>1, <2>1, <2>7 DEF Counted
<1>7. CASE CallFails \/ NoAnswers \/ ImportFails \/ RespondToUser \/ Lost
  <2>1. depth' = 0
    BY <1>7 DEF CallFails, NoAnswers, ImportFails, RespondToUser, Lost, Abort
  <2> QED BY <2>1 DEF Counted
<1>8. CASE Respond
  <2> DEFINE caller == calls[depth - 1]
             q == [caller EXCEPT !.pc = "import", !.reply = Response(Top)]
  <2>1. depth > 1 /\ depth' = depth - 1 /\ calls' = [calls EXCEPT ![depth - 1] = q]
    BY <1>8 DEF Respond
  <2>2. depth \in Nat /\ depth - 1 \in 1..depth /\ 1..(depth - 1) \subseteq DOMAIN calls
        /\ world \in Deployments
    BY <2>1, QueryAssumption DEF IInv
  <2>3. caller \in Process /\ caller.node \in Nodes /\ PassesOK(world, caller)
    BY <2>2 DEF IInv, ProcOK, Counted, Process
  <2>4. q.node = caller.node /\ q.facts = caller.facts /\ q.passes = caller.passes
    BY <2>3 DEF Process
  <2> HIDE DEF q, caller
  <2>5. PassesOK(world, q)
    BY <2>2, <2>3, <2>4, SamePasses
  <2>6. ASSUME NEW i \in 1..(depth - 1) PROVE PassesOK(world, calls'[i])
    BY <2>1, <2>2, <2>5 DEF Counted
  <2> QED BY <1>1, <2>1, <2>6 DEF Counted
<1>9. CASE ImportBundle
  <2> DEFINE b == Head(Top.reply)
             q == [Top EXCEPT !.facts = @ \cup {b.goal}, !.bundles = AddBundle(@, b), !.reply = Tail(@)]
  <2>1. depth > 0 /\ Become(q)
    BY <1>9 DEF ImportBundle, Importing
  <2>2. q.node = Top.node /\ q.facts = Top.facts \cup {b.goal} /\ q.passes = Top.passes
    BY <1>2, <2>1 DEF Process
  <2> HIDE DEF q, b
  <2>3. PassesOK(world, q)
    BY <1>2, <2>1, <2>2, SamePasses
  <2> QED BY <2>1, <2>3, BecomeCounted
<1>10. CASE UNCHANGED vars
  BY <1>10 DEF vars, Counted
<1> QED BY <1>3, <1>4, <1>5, <1>6, <1>7, <1>8, <1>9, <1>10 DEF Next, Work

LEMMA SpecCounted == Spec => []Counted
<1>1. Init => Counted
  BY DEF Init, Counted
<1> QED BY <1>1, NextCounted, SpecIInv, PTL DEF Spec

-----------------------------------------------------------------------------
(* A statement asked for that stands for a cause.                          *)
Refused(w, p) ==
  \/ AskedPair(w, p) \notin Perfect(w)
  \/ Speaker[LitAt(w, p).atom] \notin w.routes[p.node]
  \/ LitAt(w, p).kind = "open"
  \/ AskedPair(w, p) \in Reachable(w, NeedsOf(w, AskedPair(w, p)))
  \/ p.node \in w.provers /\ \E y \in Reachable(w, {AskedPair(w, p)}) : y[1] \notin w.provers

LEMMA RefusedCause ==
  ASSUME NEW w \in Deployments, NEW p \in Process, Placed(w, p), Asks(w, p), WalkLeads(w, p),
         NEW root, Leads(w, root, PairOf(p)), Refused(w, p)
  PROVE  Cause(w, root)
<1> DEFINE cl == w.prog[p.node][FrameOf(p).clause]
           l == LitAt(w, p)
           x == <<p.node, FrameOf(p).goal>>
<1>1. x \in Reachable(w, {root})
  BY AskedNeeded, LeadsThrough
<1>2. cl \in {d \in Clauses(w, x[1]) : d.head = x[2]} /\ l \in LiteralsOf(cl)
  BY DEF Placed, Clauses, LiteralsOf, LitAt, Asks
<1>3. l.kind \in {"atom", "open"} /\ Says(l.atom)
  BY DEF Asks
<1>4. LET home == Home[Speaker[l.atom]]
      IN  \/ <<home, l.atom>> \notin Perfect(w)
          \/ Speaker[l.atom] \notin w.routes[x[1]]
          \/ l.kind = "open"
          \/ <<home, l.atom>> \in Reachable(w, NeedsOf(w, <<home, l.atom>>))
          \/ x[1] \in w.provers /\ \E y \in Reachable(w, {<<home, l.atom>>}) : y[1] \notin w.provers
  BY DEF Refused, AskedPair
<1> HIDE DEF cl, l, x
<1> QED BY <1>1, <1>2, <1>3, <1>4 DEF Cause

-----------------------------------------------------------------------------
(* The processes of a query: each was asked for what the one before stands *)
(* at, and so is needed by all before it.                                  *)
Linked(w, d, cs) ==
  /\ \A i \in 1..d : Leads(w, PairOf(cs[1]), PairOf(cs[i]))
  /\ \A i, j \in 1..d : i < j => NeedsLeads(w, PairOf(cs[i]), PairOf(cs[j]))
  /\ \A i \in 1..d : i < d => PairOf(cs[i + 1]) = AskedPair(w, cs[i])

Explained ==
  /\ \A i \in 1..depth : SearchOK(world, calls[i])
  /\ Linked(world, depth, calls)
  /\ depth > 0 => outcome = Pending
  /\ outcome = Failed /\ NegatesOwnFacts(world) /\ EnoughProcesses => Cause(world, RootOf)

(* The process at work goes on with the same question.                     *)
LEMMA BecomeExplained ==
  ASSUME IInv, Explained, depth > 0, NEW q, Become(q), SearchOK(world, q), PairOf(q) = PairOf(Top)
  PROVE  Explained'
<1>1. depth \in 1..MaxDepth /\ depth \in Nat /\ DOMAIN calls = 1..MaxDepth
  BY QueryAssumption DEF IInv
<1>2. /\ world' = world /\ depth' = depth /\ outcome' = outcome /\ outcome # Failed
      /\ \A i \in 1..depth : calls'[i] = IF i = depth THEN q ELSE calls[i]
  BY <1>1 DEF Become, Explained, Pending, Failed
<1>3. \A i \in 1..depth : PairOf(calls'[i]) = PairOf(calls[i])
  BY <1>2 DEF Top
<1>4. \A i \in 1..depth : SearchOK(world, calls'[i])
  BY <1>2 DEF Explained
<1>5. Linked(world, depth, calls')
  <2>1. 1 \in 1..depth /\ \A i \in 1..depth : i < depth => i + 1 \in 1..depth /\ calls'[i] = calls[i]
    BY <1>1, <1>2
  <2> QED BY <1>3, <2>1 DEF Explained, Linked
<1> QED BY <1>2, <1>4, <1>5 DEF Explained

(* A query that fails had a cause to.                                      *)
LEMMA AbortExplained ==
  ASSUME Explained, NEW error, Abort(error),
         error = Failed /\ NegatesOwnFacts(world) /\ EnoughProcesses => Cause(world, RootOf)
  PROVE  Explained'
<1>1. world' = world /\ calls' = calls /\ depth' = 0 /\ outcome' = error /\ RootOf' = RootOf
  BY DEF Abort, RootOf
<1>2. \A i \in 1..depth' : FALSE
  BY <1>1
<1>3. Linked(world, depth', calls')
  BY <1>2 DEF Linked
<1> QED BY <1>1, <1>2, <1>3 DEF Explained

(* What the process at work asks for is needed by every process.           *)
LEMMA AskedByAll ==
  ASSUME IInv, Explained, depth > 0, Placed(world, Top), Asks(world, Top)
  PROVE  /\ Leads(world, PairOf(calls[1]), AskedPair(world, Top))
         /\ \A i \in 1..depth : NeedsLeads(world, PairOf(calls[i]), AskedPair(world, Top))
<1>1. Top \in Process /\ world \in Deployments /\ depth \in 1..depth /\ Top = calls[depth]
  BY TopOK DEF Top
<1>2. WalkLeads(world, Top)
  BY <1>1 DEF Explained, SearchOK
<1>3. NeedsLeads(world, PairOf(Top), AskedPair(world, Top)) /\ Leads(world, PairOf(Top), AskedPair(world, Top))
  BY <1>1, <1>2, AskedNeeded
<1>4. Leads(world, PairOf(calls[1]), PairOf(Top))
  BY <1>1 DEF Explained, Linked
<1>5. ASSUME NEW i \in 1..depth PROVE NeedsLeads(world, PairOf(calls[i]), AskedPair(world, Top))
  <2>1. CASE i = depth
    BY <1>1, <1>3, <2>1
  <2>2. CASE i < depth
    <3>1. NeedsLeads(world, PairOf(calls[i]), PairOf(Top))
      BY <1>1, <2>2 DEF Explained, Linked
    <3> QED BY <1>3, <3>1, NeedsThrough DEF Leads, NeedsLeads
  <2>3. depth \in Nat
    BY TopOK
  <2> QED BY <2>1, <2>2, <2>3
<1> QED BY <1>3, <1>4, <1>5, LeadsOn

(* What a process waits for is a cause, when there is one.                 *)
LEMMA WaitingCause ==
  ASSUME IInv, Explained, NEW i \in 1..depth,
         i < depth \/ (Placed(world, Top) /\ Asks(world, Top)),
         Refused(world, calls[i])
  PROVE  Cause(world, RootOf)
<1>1. calls[i] \in Process /\ world \in Deployments /\ SearchOK(world, calls[i])
      /\ depth \in Nat /\ i \in Nat
  BY DEF IInv, ProcOK, Explained
<1>2. Placed(world, calls[i]) /\ Asks(world, calls[i])
  <2>1. CASE i < depth
    <3>1. calls[i].pc = "wait"
      BY <2>1 DEF IInv
    <3> QED BY <1>1, <3>1 DEF IInv, ProcOK, SearchOK
  <2>2. CASE i = depth
    BY <2>2 DEF Top
  <2> QED BY <1>1, <2>1, <2>2
<1>3. Leads(world, RootOf, PairOf(calls[i]))
  BY DEF Explained, Linked, RootOf, PairOf
<1> QED BY <1>1, <1>2, <1>3, RefusedCause DEF SearchOK

(* No answer: the goal does not hold, and who asked for it has a cause.    *)
LEMMA NoAnswersCause ==
  ASSUME IInv, Explained, Counted, NegatesOwnFacts(world), NoAnswers
  PROVE  Cause(world, RootOf)
<1> SUFFICES ASSUME ~ MayBeCut(world),
                    \A x \in Reachable(world, {RootOf}) : \A r \in world.reads[x[1]] : r.head # x[2]
             PROVE  Cause(world, RootOf)
  BY DEF Cause
<1>8. /\ depth > 0 /\ Top.pc = "final" /\ Top.goal \notin Read(world, Top.node, Top.facts)
      /\ Derives(world, Top.node, Top.facts) \subseteq Top.facts \/ Top.passes = MaxPasses
  BY DEF NoAnswers, Finishing, Evaluating, RunOver, Settled, HasAnswer, Has
<1>2. Top \in Process /\ ProcOK(world, depth, Top) /\ depth \in 1..depth /\ depth \in Nat /\ Top = calls[depth]
      /\ world \in Deployments /\ Top.node \in Nodes
  BY <1>8, TopOK DEF Top, Process
<1>1. /\ depth > 0 /\ Top.pc = "final" /\ Top.goal \notin Read(world, Top.node, Top.facts)
      /\ Derives(world, Top.node, Top.facts) \subseteq Top.facts
  BY <1>2, <1>8, NotCut DEF Counted
<1>7. ASSUME NEW r \in world.reads[Top.node], r.head \in Top.visited PROVE FALSE
  <2> DEFINE x == <<Top.node, r.head>>
  <2>1. r \in Rules(world, Top.node)
    BY <1>2, ReadingTyped
  <2>2. x \in Heads(world)
    BY <1>2, <2>1 DEF Heads
  <2>3. Leads(world, PairOf(Top), x) /\ Leads(world, RootOf, PairOf(Top))
    BY <1>2, <1>7 DEF Explained, SearchOK, WalkLeads, Linked, RootOf, PairOf
  <2>4. x \in Reachable(world, {RootOf})
    BY <2>2, <2>3, LeadsOn DEF Leads
  <2> QED BY <2>4
<1>3. Searched(world, Top) /\ Top.goal \in Top.visited /\ Top.stack = <<>>
  BY <1>1, <1>2 DEF Explained, SearchOK
<1>4. PairOf(Top) \notin Perfect(world)
  BY <1>1, <1>2, <1>3, <1>7, NothingMissed DEF ProcOK, PairOf
<1>5. CASE depth = 1
  BY <1>2, <1>4, <1>5 DEF RootOf, PairOf, Cause
<1>6. CASE depth # 1
  <2>1. depth - 1 \in 1..depth /\ depth - 1 < depth /\ (depth - 1) + 1 = depth
    BY <1>2, <1>6
  <2>2. AskedPair(world, calls[depth - 1]) = PairOf(Top)
    <3>1. PairOf(calls[(depth - 1) + 1]) = AskedPair(world, calls[depth - 1])
      BY <2>1 DEF Explained, Linked
    <3> QED BY <1>2, <2>1, <3>1
  <2>3. Refused(world, calls[depth - 1])
    BY <1>4, <2>2 DEF Refused
  <2> QED BY <2>1, <2>3, WaitingCause
<1> QED BY <1>5, <1>6

(* A bundle refused for want of a proof comes from below what was asked.   *)
LEMMA ImportFailsCause ==
  ASSUME IInv, Explained, ImportFails
  PROVE  Cause(world, RootOf)
<1>1. /\ depth > 0 /\ Top.pc = "import" /\ Top.reply # <<>>
      /\ Top.node \in world.provers /\ ~ Head(Top.reply).proved
  BY DEF ImportFails, Importing, Verified
<1>2. Top \in Process /\ ProcOK(world, depth, Top) /\ depth \in 1..depth /\ Top = calls[depth]
  BY <1>1, TopOK DEF Top
<1>3. SearchOK(world, Top) /\ Placed(world, Top)
  BY <1>1, <1>2 DEF Explained, ProcOK
<1>4. Head(Top.reply) = Top.reply[1] /\ 1 \in DOMAIN Top.reply
  <2>1. Top.reply \in Seq(Bundle)
    BY <1>2 DEF Process
  <2> QED BY <1>1, <2>1
<1>5. FromBelow(world, Head(Top.reply), AskedPair(world, Top)) /\ Asks(world, Top)
  BY <1>1, <1>3, <1>4 DEF SearchOK
<1>6. Refused(world, Top)
  <2> DEFINE y == <<Head(Top.reply).node, Head(Top.reply).goal>>
  <2>1. y \in Reachable(world, {AskedPair(world, Top)}) /\ y[1] \notin world.provers
    BY <1>1, <1>5 DEF FromBelow
  <2> HIDE DEF y
  <2> QED BY <1>1, <2>1 DEF Refused
<1> QED BY <1>2, <1>3, <1>5, <1>6, WaitingCause

(* When every process waits for another one, a statement is needed for     *)
(* itself: there are fewer of them than processes.                         *)
LEMMA CycleCause ==
  ASSUME IInv, Explained, EnoughProcesses, depth = MaxDepth, Placed(world, Top), Asks(world, Top)
  PROVE  Cause(world, RootOf)
<1> DEFINE statements == {a \in Atoms : Says(a)}
           asked == [i \in 1..depth |-> LitAt(world, calls[i]).atom]
           home(a) == <<Home[Speaker[a]], a>>
<1>1. depth \in Nat \ {0} /\ depth \in 1..depth /\ Top = calls[depth]
  BY QueryAssumption DEF Top
<1>2. IsFiniteSet(1..depth) /\ Cardinality(1..depth) = depth
  BY <1>1, FS_Interval
<1>3. IsFiniteSet(statements) /\ Cardinality(statements) < Cardinality(1..depth)
  BY <1>2, FS_Subset DEF EnoughProcesses
<1>4. ASSUME NEW i \in 1..depth
      PROVE  /\ Placed(world, calls[i]) /\ Asks(world, calls[i]) /\ calls[i] \in Process
             /\ AskedPair(world, calls[i]) = home(asked[i]) /\ asked[i] \in statements
  <2>1. Placed(world, calls[i]) /\ Asks(world, calls[i]) /\ calls[i] \in Process
    <3>1. CASE i < depth
      <4>1. calls[i].pc = "wait"
        BY <3>1 DEF IInv
      <4> QED BY <4>1 DEF IInv, ProcOK, Explained, SearchOK
    <3>2. CASE i = depth
      BY <1>1, <3>2 DEF IInv, ProcOK
    <3> QED BY <1>1, <3>1, <3>2
  <2>2. LitAt(world, calls[i]).atom \in Atoms
    BY <2>1, ProgramTyped DEF Placed, LitAt, Literal, Process, IInv
  <2> QED BY <2>1, <2>2 DEF Asks, AskedPair
<1>5. asked \in [1..depth -> statements]
  BY <1>4
<1>6. PICK i, j \in 1..depth : i # j /\ asked[i] = asked[j]
  <2> DEFINE S == 1..depth
  <2>1. IsFiniteSet(S) /\ IsFiniteSet(statements) /\ Cardinality(statements) < Cardinality(S)
        /\ asked \in [S -> statements]
    BY <1>2, <1>3, <1>5
  <2> HIDE DEF asked, statements, S
  <2>2. \E i, j \in S : i # j /\ asked[i] = asked[j]
    BY <2>1, FS_PigeonHole
  <2> QED BY <2>2 DEF S
<1>7. ASSUME NEW k \in 1..depth, NEW m \in 1..depth, k < m, asked[k] = asked[m]
      PROVE  Cause(world, RootOf)
  <2>1. k \in Nat /\ m \in Nat /\ k < depth /\ k + 1 \in 1..depth /\ k + 1 <= m
    BY <1>1, <1>7
  <2>2. AskedPair(world, calls[k]) = AskedPair(world, calls[m])
    BY <1>4, <1>7
  <2>3. PairOf(calls[k + 1]) = AskedPair(world, calls[k])
    BY <2>1 DEF Explained, Linked
  <2>4. NeedsLeads(world, PairOf(calls[k + 1]), AskedPair(world, calls[m]))
    <3>1. CASE m = depth
      BY <1>1, <2>1, <3>1, AskedByAll
    <3>2. CASE m < depth
      <4>1. m + 1 \in 1..depth /\ k + 1 < m + 1
        BY <1>1, <1>7, <2>1, <3>2
      <4>2. PairOf(calls[m + 1]) = AskedPair(world, calls[m])
        BY <3>2 DEF Explained, Linked
      <4>3. NeedsLeads(world, PairOf(calls[k + 1]), PairOf(calls[m + 1]))
        BY <2>1, <4>1 DEF Explained, Linked
      <4> QED BY <4>2, <4>3
    <3> QED BY <1>1, <2>1, <3>1, <3>2
  <2> DEFINE y == AskedPair(world, calls[k])
  <2>5. NeedsLeads(world, y, y)
    BY <2>2, <2>3, <2>4
  <2>6. y \notin Heads(world) => y \notin Perfect(world)
    BY DEF Perfect, LeastAgainst
  <2>7. Refused(world, calls[k])
    BY <2>5, <2>6 DEF Refused, NeedsLeads
  <2> QED BY <2>1, <2>7, WaitingCause
<1>8. CASE i < j
  BY <1>6, <1>7, <1>8
<1>9. CASE j < i
  BY <1>6, <1>7, <1>9
<1> QED BY <1>1, <1>6, <1>8, <1>9

LEMMA CallFailsCause ==
  ASSUME IInv, Explained, EnoughProcesses, CallFails
  PROVE  Cause(world, RootOf)
<1>1. /\ depth > 0 /\ AtLiteral(Top) /\ IsRemote(Top)
      /\ ~ KnownRoute(Top) \/ LiteralOf(Top).kind = "open" \/ depth = MaxDepth
  BY DEF CallFails
<1>2. Placed(world, Top)
  BY <1>1, AtLiteralPlaced
<1>3. LiteralOf(Top) = LitAt(world, Top)
  BY DEF LiteralOf, ClauseOf, ProgramOf, LitAt
<1>4. Asks(world, Top)
  BY <1>1, <1>2, <1>3, PlacedLiteral
     DEF Asks, AtLiteral, IsRemote, Skipped, ClauseOf, ProgramOf, Literal
<1>5. CASE depth = MaxDepth
  BY <1>2, <1>4, <1>5, CycleCause
<1>6. CASE ~ KnownRoute(Top) \/ LiteralOf(Top).kind = "open"
  <2>1. Refused(world, Top)
    BY <1>3, <1>6 DEF Refused, KnownRoute
  <2>2. depth \in 1..depth /\ Top = calls[depth]
    BY <1>1, TopOK DEF Top
  <2> QED BY <1>2, <1>4, <2>1, <2>2, WaitingCause
<1> QED BY <1>1, <1>5, <1>6

-----------------------------------------------------------------------------
LEMMA AskExplained ==
  ASSUME IInv, Explained, NEW n, NEW g, Ask(n, g) PROVE Explained'
<1>1. /\ world' = world /\ depth' = 1 /\ outcome' = outcome /\ outcome = Pending
      /\ calls'[1] = NewProcess(n, g)
  BY QueryAssumption DEF Ask, IInv
<1>2. \A i \in 1..1 : i = 1 /\ ~ (i < 1)
  OBVIOUS
<1>3. \A i \in 1..depth' : SearchOK(world, calls'[i])
  BY <1>1, <1>2, NewSearch
<1>4. Linked(world, 1, calls')
  BY <1>2, LeadsSelf DEF Linked
<1> QED BY <1>1, <1>3, <1>4 DEF Explained, Pending, Failed

LEMMA CallExplained ==
  ASSUME IInv, Explained, CallNode PROVE Explained'
<1> DEFINE a == LiteralOf(Top).atom
           waiting == [Top EXCEPT !.pc = "wait"]
           called == NewProcess(Home[Speaker[a]], a)
<1>1. /\ depth > 0 /\ AtLiteral(Top) /\ IsRemote(Top) /\ depth < MaxDepth
      /\ depth' = depth + 1 /\ world' = world /\ outcome' = outcome
      /\ calls' = [calls EXCEPT ![depth] = waiting, ![depth + 1] = called]
  BY DEF CallNode
<1>2. Top \in Process /\ depth \in 1..depth /\ depth \in Nat \ {0} /\ Top = calls[depth]
      /\ Placed(world, Top) /\ SearchOK(world, Top)
  BY <1>1, TopOK, AtLiteralPlaced DEF Top, Explained
<1>3. LiteralOf(Top) = LitAt(world, Top)
  BY DEF LiteralOf, ClauseOf, ProgramOf, LitAt
<1>4. Asks(world, Top)
  BY <1>1, <1>2, <1>3, PlacedLiteral
     DEF Asks, AtLiteral, IsRemote, Skipped, ClauseOf, ProgramOf, Literal
<1>5. PairOf(called) = AskedPair(world, Top) /\ SearchOK(world, called)
  BY <1>3, NewSearch DEF PairOf, AskedPair, NewProcess
<1>6. /\ waiting.node = Top.node /\ waiting.goal = Top.goal /\ waiting.facts = Top.facts
      /\ waiting.pc = "wait" /\ waiting.stack = Top.stack /\ waiting.bundles = Top.bundles
      /\ waiting.visited = Top.visited /\ waiting.fetched = Top.fetched
  BY <1>2 DEF Process, Pcs
<1> HIDE DEF a, waiting, called
<1>7. PairOf(waiting) = PairOf(Top) /\ AskedPair(world, waiting) = AskedPair(world, Top)
      /\ Asks(world, waiting) /\ WalkLeads(world, waiting)
  BY <1>2, <1>4, <1>6 DEF PairOf, AskedPair, LitAt, FrameOf, Asks, WalkLeads, SearchOK
<1>8. SearchOK(world, waiting)
  <2>1. Searched(world, waiting)
    BY <1>2, <1>6, SearchedMore DEF SearchOK
  <2>2. Top.pc # "load"
    BY <1>1 DEF AtLiteral
  <2> QED BY <1>2, <1>6, <1>7, <2>1, <2>2 DEF SearchOK
<1>9. /\ calls'[depth] = waiting /\ calls'[depth + 1] = called
      /\ \A i \in 1..depth : i < depth => calls'[i] = calls[i]
  BY <1>1, <1>2, QueryAssumption DEF IInv
<1>10. /\ PairOf(calls'[depth + 1]) = AskedPair(world, Top)
       /\ \A i \in 1..depth : PairOf(calls'[i]) = PairOf(calls[i])
                            /\ AskedPair(world, calls'[i]) = AskedPair(world, calls[i])
  BY <1>2, <1>5, <1>7, <1>9
<1>11. \A i \in 1..(depth + 1) : i \in 1..depth \/ i = depth + 1
  BY <1>2
<1>12. \A i \in 1..(depth + 1) : SearchOK(world, calls'[i])
  <2>1. \A i \in 1..depth : i < depth \/ i = depth
    BY <1>2
  <2> QED BY <1>5, <1>8, <1>9, <1>11, <2>1 DEF Explained
<1>13. Linked(world, depth + 1, calls')
  <2>1. /\ Leads(world, PairOf(calls[1]), AskedPair(world, Top))
        /\ \A i \in 1..depth : NeedsLeads(world, PairOf(calls[i]), AskedPair(world, Top))
    BY <1>1, <1>2, <1>4, AskedByAll
  <2>2. 1 \in 1..depth
    BY <1>2
  <2>3. \A i \in 1..(depth + 1) : Leads(world, PairOf(calls'[1]), PairOf(calls'[i]))
    BY <1>10, <1>11, <2>1, <2>2 DEF Explained, Linked
  <2>4. ASSUME NEW i \in 1..(depth + 1), NEW j \in 1..(depth + 1), i < j
        PROVE  NeedsLeads(world, PairOf(calls'[i]), PairOf(calls'[j]))
    <3>1. i \in 1..depth
      BY <1>2, <2>4
    <3>2. CASE j \in 1..depth
      BY <1>10, <2>4, <3>1, <3>2 DEF Explained, Linked
    <3>3. CASE j = depth + 1
      BY <1>10, <2>1, <3>1, <3>3
    <3> QED BY <1>11, <3>2, <3>3
  <2>5. ASSUME NEW i \in 1..(depth + 1), i < depth + 1
        PROVE  PairOf(calls'[i + 1]) = AskedPair(world, calls'[i])
    <3>1. i \in 1..depth
      BY <1>2, <2>5
    <3>2. CASE i = depth
      BY <1>2, <1>10, <3>1, <3>2
    <3>3. CASE i # depth
      <4>1. i < depth /\ i + 1 \in 1..depth
        BY <1>2, <3>1, <3>3
      <4> QED BY <1>10, <3>1, <4>1 DEF Explained, Linked
    <3> QED BY <3>2, <3>3
  <2> QED BY <2>3, <2>4, <2>5 DEF Linked
<1>14. (\A i \in 1..depth' : SearchOK(world, calls'[i])) /\ Linked(world, depth', calls')
  BY <1>1, <1>12, <1>13
<1>15. outcome' = Pending /\ outcome' # Failed
  BY <1>1 DEF Explained, Pending, Failed
<1> QED BY <1>1, <1>14, <1>15 DEF Explained

(* A response holds what was asked for, and what it needed.                *)
LEMMA RespondExplained ==
  ASSUME IInv, Explained, Respond PROVE Explained'
<1> DEFINE caller == calls[depth - 1]
           own == OwnBundle(Top)
           q == [caller EXCEPT !.pc = "import", !.reply = Response(Top)]
<1>1. /\ depth > 1 /\ Top.goal \in Read(world, Top.node, Top.facts) /\ depth' = depth - 1
      /\ world' = world /\ outcome' = outcome /\ calls' = [calls EXCEPT ![depth - 1] = q]
  BY DEF Respond, HasAnswer, Has
<1>2. depth > 0 /\ depth \in Nat
  BY <1>1 DEF IInv
<1>3. /\ Top \in Process /\ ProcOK(world, depth, Top) /\ depth \in 1..depth /\ Top = calls[depth]
      /\ SearchOK(world, Top)
  BY <1>2, TopOK DEF Top, Explained
<1>4. depth - 1 \in 1..depth /\ depth - 1 < depth /\ (depth - 1) + 1 = depth /\ 1..(depth - 1) \subseteq 1..depth
      /\ 1..(depth - 1) \subseteq DOMAIN calls
  BY <1>1, <1>2, QueryAssumption DEF IInv
<1>5. caller \in Process /\ SearchOK(world, caller) /\ caller.pc = "wait"
  BY <1>4 DEF IInv, ProcOK, Explained
<1>6. AskedPair(world, caller) = PairOf(Top) /\ LitAt(world, caller).atom = Top.goal
  <2>1. PairOf(calls[(depth - 1) + 1]) = AskedPair(world, caller)
    BY <1>4 DEF Explained, Linked
  <2> QED BY <1>3, <1>4, <2>1 DEF AskedPair, PairOf
<1>7. own \in Bundle /\ Top.bundles \in Seq(Bundle) /\ own.goal = Top.goal
  BY <1>3 DEF Process, Bundle, OwnBundle
<1>8. FromBelow(world, own, PairOf(Top))
  <2>1. PairOf(Top) \in Heads(world)
    <3>1. Established(Consequences(world), Top.node, Top.goal)
      BY <1>1, <1>3, TopOK, ReadEstablishes DEF ProcOK, Process
    <3>2. Says(Top.goal) /\ Top.node = Home[Speaker[Top.goal]]
      BY <1>1, <1>3 DEF ProcOK
    <3> QED BY <3>1, <3>2 DEF Established, PairOf, Consequences
  <2>2. PairOf(Top) \in Reachable(world, {PairOf(Top)})
    BY <2>1, LeadsSelf DEF Leads
  <2>3. own.node = Top.node /\ own.goal = Top.goal /\ (own.proved \/ own.node \notin world.provers)
    BY DEF OwnBundle
  <2> HIDE DEF own
  <2> QED BY <2>2, <2>3 DEF FromBelow, PairOf
<1> HIDE DEF own
<1>9. \A j \in DOMAIN Response(Top) : FromBelow(world, Response(Top)[j], PairOf(Top))
  <2>1. \A j \in DOMAIN Response(Top) :
          Response(Top)[j] = own \/ \E k \in DOMAIN Top.bundles : Response(Top)[j] = Top.bundles[k]
    BY <1>7, AddedBundle DEF Response, own
  <2> QED BY <1>3, <1>8, <2>1 DEF SearchOK
<1>10. Top.goal \in GoalsOf(Response(Top))
  <2>1. CASE Response(Top) = Append(Top.bundles, own)
    <3>1. Len(Top.bundles) + 1 \in DOMAIN Response(Top) /\ Response(Top)[Len(Top.bundles) + 1] = own
      BY <1>7, <2>1
    <3> QED BY <1>7, <3>1 DEF GoalsOf
  <2>2. CASE Response(Top) # Append(Top.bundles, own)
    <3>1. Response(Top) = Top.bundles /\ \E i \in DOMAIN Top.bundles : Top.bundles[i].goal = own.goal
      BY <2>2 DEF Response, AddBundle, own
    <3> QED BY <1>7, <3>1 DEF GoalsOf
  <2> QED BY <2>1, <2>2
<1>11. /\ q.node = caller.node /\ q.goal = caller.goal /\ q.facts = caller.facts /\ q.pc = "import"
       /\ q.stack = caller.stack /\ q.bundles = caller.bundles /\ q.reply = Response(Top)
       /\ q.visited = caller.visited /\ q.fetched = caller.fetched
  BY <1>5 DEF Process
<1> HIDE DEF q
<1>12. /\ PairOf(q) = PairOf(caller) /\ AskedPair(world, q) = AskedPair(world, caller)
       /\ LitAt(world, q) = LitAt(world, caller) /\ Asks(world, q) /\ WalkLeads(world, q)
  BY <1>5, <1>11 DEF PairOf, AskedPair, LitAt, FrameOf, Asks, WalkLeads, SearchOK
<1>13. SearchOK(world, q)
  <2>1. Searched(world, q)
    BY <1>5, <1>11, SearchedMore DEF SearchOK
  <2>2. /\ LitAt(world, q).atom \in q.facts \cup GoalsOf(q.reply)
        /\ \A j \in DOMAIN q.reply : FromBelow(world, q.reply[j], AskedPair(world, q))
    BY <1>6, <1>9, <1>10, <1>11, <1>12
  <2>3. \A j \in DOMAIN q.bundles : FromBelow(world, q.bundles[j], PairOf(q))
    BY <1>5, <1>11, <1>12 DEF SearchOK
  <2>4. q.fetched \subseteq q.facts /\ q.goal \in q.visited
    BY <1>5, <1>11 DEF SearchOK
  <2> QED BY <1>11, <1>12, <2>1, <2>2, <2>3, <2>4 DEF SearchOK
<1> HIDE DEF caller
<1>14. \A i \in 1..(depth - 1) : calls'[i] = IF i = depth - 1 THEN q ELSE calls[i]
  BY <1>1, <1>4
<1>15. \A i \in 1..(depth - 1) : PairOf(calls'[i]) = PairOf(calls[i])
  BY <1>12, <1>14 DEF caller
<1>16. \A i \in 1..(depth - 1) : SearchOK(world, calls'[i])
  BY <1>4, <1>13, <1>14 DEF Explained
<1>17. Linked(world, depth - 1, calls')
  <2>1. 1 \in 1..(depth - 1)
    BY <1>1, <1>2
  <2>2. /\ \A i \in 1..(depth - 1) : Leads(world, PairOf(calls'[1]), PairOf(calls'[i]))
        /\ \A i, j \in 1..(depth - 1) : i < j => NeedsLeads(world, PairOf(calls'[i]), PairOf(calls'[j]))
    BY <1>4, <1>15, <2>1 DEF Explained, Linked
  <2>3. ASSUME NEW i \in 1..(depth - 1), i < depth - 1
        PROVE  PairOf(calls'[i + 1]) = AskedPair(world, calls'[i])
    <3>1. i + 1 \in 1..(depth - 1) /\ i \in 1..depth /\ i < depth /\ calls'[i] = calls[i]
      BY <1>2, <1>14, <2>3
    <3> QED BY <1>15, <3>1 DEF Explained, Linked
  <2> QED BY <2>2, <2>3 DEF Linked
<1> QED BY <1>1, <1>2, <1>16, <1>17 DEF Explained, Pending, Failed

LEMMA NextExplained ==
  ASSUME IInv, Explained, Counted, [Next]_vars
  PROVE  Explained'
<1>1. CASE \E a \in Asked : Ask(a[1], a[2])
  BY <1>1, AskExplained
<1>2. CASE Evaluate
  <2>1. depth > 0 /\ SearchOK(world, Top)
    BY <1>2, TopOK DEF Evaluate, Evaluating, Explained, Top
  <2> QED BY <1>2, <2>1, EvaluateSearch, BecomeExplained
<1>3. CASE \/ StartWalk \/ Resume \/ NextClause \/ GoalDone \/ NextLiteral
           \/ ResolveLocal \/ WalkDone \/ ImportDone
  <2>1. depth > 0
    BY <1>3, QuietMoves
  <2>2. SearchOK(world, Top)
    BY <2>1, TopOK DEF Explained, Top
  <2> QED BY <1>3, <2>1, <2>2, WalkSearch, BecomeExplained
<1>4. CASE ImportBundle
  <2>1. depth > 0 /\ SearchOK(world, Top)
    BY <1>4, TopOK DEF ImportBundle, Importing, Explained, Top
  <2> QED BY <1>4, <2>1, ImportSearch, BecomeExplained
<1>5. CASE CallNode
  BY <1>5, CallExplained
<1>6. CASE CallFails
  BY <1>6, CallFailsCause, AbortExplained DEF CallFails
<1>7. CASE NoAnswers
  BY <1>7, NoAnswersCause, AbortExplained DEF NoAnswers
<1>8. CASE ImportFails
  BY <1>8, ImportFailsCause, AbortExplained DEF ImportFails
<1>9. CASE Lost
  BY <1>9, AbortExplained DEF Lost, Broken, Failed
<1>10. CASE Respond
  BY <1>10, RespondExplained
<1>11. CASE RespondToUser
  <2>1. /\ world' = world /\ depth' = 0 /\ outcome' = Answer(Top, Response(Top))
    BY <1>11 DEF RespondToUser
  <2>2. \A i \in 1..depth' : FALSE
    BY <2>1
  <2>3. Linked(world, depth', calls') /\ outcome' # Failed
    BY <2>1, <2>2 DEF Linked, Answer, Failed
  <2> QED BY <2>1, <2>2, <2>3 DEF Explained
<1>12. CASE UNCHANGED vars
  BY <1>12 DEF vars, Explained, RootOf
<1> QED BY <1>1, <1>2, <1>3, <1>4, <1>5, <1>6, <1>7, <1>8, <1>9, <1>10, <1>11, <1>12 DEF Next, Work

(* README.md 105-109: what can be resolved by live nodes is. Where only    *)
(* atoms a node's own program gives are negated, and there is a process    *)
(* for every statement that may be asked for, a query that fails, without  *)
(* a process lost, has a cause in the deployment: the goal does not hold,  *)
(* a node has more heads than a run makes passes, something that is needed *)
(* may be read by delegation, or a statement that is needed is refuted,    *)
(* unrouted, open, needed for itself or unproved. Of the rest the walk     *)
(* overlooks nothing.                                                      *)
THEOREM QueryFailsForCause ==
  EnoughProcesses => (Spec => [](NegatesOwnFacts(world) => FailsForCause))
<1> SUFFICES ASSUME EnoughProcesses PROVE Spec => [](NegatesOwnFacts(world) => FailsForCause)
  OBVIOUS
<1>1. Init => Explained
  BY DEF Init, Explained, Linked, Pending, Failed
<1>2. Explained => (NegatesOwnFacts(world) => FailsForCause)
  BY DEF Explained, FailsForCause
<1> QED BY <1>1, <1>2, NextExplained, SpecIInv, SpecCounted, PTL DEF Spec

-----------------------------------------------------------------------------
(* Runs of processes                                                       *)

(* What one process does, whatever becomes of the query: its next state,   *)
(* unless it waits for a response or has its own ready.                    *)
Settles(w, p) == Derives(w, p.node, p.facts) \subseteq p.facts \/ p.passes = MaxPasses
EnterIn(w, p, a) ==
  IF a \in p.visited THEN p
  ELSE IF a \in Read(w, p.node, p.facts) THEN [p EXCEPT !.visited = @ \cup {a}]
  ELSE [p EXCEPT !.visited = @ \cup {a},
                 !.stack = Append(@, [goal |-> a, clause |-> 1, literal |-> 1])]
Ended(w, p) == p.pc = "final" /\ Settles(w, p)
WalkMove(w, p) ==
  IF p.stack = <<>> THEN [p EXCEPT !.pc = "final", !.passes = 0]
  ELSE IF ~ (FrameOf(p).clause <= Len(ProgOf(w, p))) THEN PastGoal(p)
  ELSE IF \/ ProgOf(w, p)[FrameOf(p).clause].head # FrameOf(p).goal
          \/ FrameOf(p).literal > Len(ProgOf(w, p)[FrameOf(p).clause].body)
    THEN PastClause(p)
  ELSE IF LitAt(w, p).kind \in {"not", "tool"} THEN PastLiteral(p)
  ELSE IF Says(LitAt(w, p).atom)
    THEN IF LitAt(w, p).atom \in p.fetched THEN PastLiteral(p) ELSE [p EXCEPT !.pc = "wait"]
  ELSE IF \/ LitAt(w, p).atom \in Read(w, p.node, p.facts)
          \/ ~ \E c \in Clauses(w, p.node) : c.head = LitAt(w, p).atom
    THEN PastLiteral(p)
  ELSE EnterIn(w, PastLiteral(p), LitAt(w, p).atom)
ImportMove(w, p) ==
  IF p.reply # <<>>
  THEN [p EXCEPT !.facts = @ \cup {Head(p.reply).goal}, !.bundles = AddBundle(@, Head(p.reply)),
                 !.reply = Tail(@)]
  ELSE PastLiteral([p EXCEPT !.fetched = @ \cup {LitAt(w, p).atom}, !.pc = "rerun", !.passes = 0])
Move(w, p) ==
  IF p.pc = "walk" THEN WalkMove(w, p)
  ELSE IF p.pc = "import" THEN ImportMove(w, p)
  ELSE IF ~ Settles(w, p)
    THEN [p EXCEPT !.facts = @ \cup Derives(w, p.node, p.facts), !.passes = @ + 1]
  ELSE IF p.pc = "load" THEN EnterIn(w, [p EXCEPT !.pc = "walk"], p.goal)
  ELSE [p EXCEPT !.pc = "walk"]

(* The response of a process in deployment w, and who gets it.             *)
OwnOf(w, p) == [node |-> p.node, goal |-> p.goal, proved |-> p.node \in w.provers]
ResponseOf(w, p) == AddBundle(p.bundles, OwnOf(w, p))
Return(w, p, f) == [p EXCEPT !.pc = "import", !.reply = ResponseOf(w, f)]
Asker(w, p, y) == p.pc = "wait" /\ AskedPair(w, p) = y

(* From p in one step to q, when those in S have ended or not.             *)
Follows(w, S, p, q) ==
  /\ q \in Process
  /\ \/ p.pc # "wait" /\ ~ Ended(w, p) /\ q = Move(w, p)
     \/ \E f \in S : Ended(w, f) /\ Asker(w, p, PairOf(f)) /\ q = Return(w, p, f)

(* The states processes get into, those they ask included.                 *)
RunClosed(w, S) ==
  /\ \A n \in Nodes, g \in Atoms : NewProcess(n, g) \in S
  /\ \A p \in S, q \in Process : Follows(w, S, p, q) => q \in S
Runs(w) == {p \in Process : \A S \in SUBSET Process : RunClosed(w, S) => p \in S}

(* What comes of p.                                                        *)
AfterClosed(w, p, S) ==
  /\ p \in S
  /\ \A q \in S, r \in Process : Follows(w, Runs(w), q, r) => r \in S
After(w, p) == {q \in Process : \A S \in SUBSET Process : AfterClosed(w, p, S) => q \in S}

LEMMA NewProcessTyped ==
  ASSUME NEW n \in Nodes, NEW g \in Atoms PROVE NewProcess(n, g) \in Process
BY DEF NewProcess, Process, Pcs

LEMMA FollowsRuns ==
  ASSUME NEW w, NEW p \in Runs(w), NEW q, Follows(w, Runs(w), p, q)
  PROVE  q \in Runs(w)
<1> SUFFICES ASSUME NEW S \in SUBSET Process, RunClosed(w, S) PROVE q \in S
  BY DEF Runs, Follows
<1>1. p \in S /\ Runs(w) \subseteq S /\ q \in Process
  BY DEF Runs, Follows
<1>2. Follows(w, S, p, q)
  <2> HIDE DEF Runs
  <2> QED BY <1>1 DEF Follows
<1> QED BY <1>1, <1>2 DEF RunClosed

LEMMA NewRuns ==
  ASSUME NEW w, NEW n \in Nodes, NEW g \in Atoms PROVE NewProcess(n, g) \in Runs(w)
BY NewProcessTyped DEF Runs, RunClosed

(* What holds of new processes and is kept in every step holds of all: the *)
(* induction over runs.                                                    *)
LEMMA RunsInduct ==
  ASSUME NEW w, NEW D \in SUBSET Runs(w),
         \A n \in Nodes, g \in Atoms : NewProcess(n, g) \in D,
         \A p \in D, q \in Runs(w) : Follows(w, D, p, q) => q \in D
  PROVE  Runs(w) \subseteq D
<1>1. D \in SUBSET Process
  BY DEF Runs
<1>2. ASSUME NEW p \in D, NEW q \in Process, Follows(w, D, p, q) PROVE q \in D
  <2>1. Follows(w, Runs(w), p, q)
    BY <1>2 DEF Follows
  <2>2. q \in Runs(w)
    BY <2>1, FollowsRuns
  <2> QED BY <1>2, <2>2
<1>3. RunClosed(w, D)
  BY <1>2 DEF RunClosed
<1> QED BY <1>1, <1>3 DEF Runs

LEMMA AfterSelf ==
  ASSUME NEW w, NEW p \in Process PROVE p \in After(w, p)
BY DEF After, AfterClosed

LEMMA AfterStep ==
  ASSUME NEW w, NEW p, NEW q \in After(w, p), NEW r, Follows(w, Runs(w), q, r)
  PROVE  r \in After(w, p)
<1> SUFFICES ASSUME NEW S \in SUBSET Process, AfterClosed(w, p, S) PROVE r \in S
  BY DEF After, Follows
<1>1. q \in S /\ r \in Process
  BY DEF After, Follows
<1> QED BY <1>1 DEF AfterClosed

(* What comes of p is p, or comes of one that p gets to.                   *)
LEMMA AfterFirst ==
  ASSUME NEW w, NEW p \in Process, NEW q \in After(w, p), q # p
  PROVE  \E r \in Process : Follows(w, Runs(w), p, r) /\ q \in After(w, r)
<1> DEFINE S == {p} \cup {v \in Process : \E r \in Process : Follows(w, Runs(w), p, r) /\ v \in After(w, r)}
<1>1. ASSUME NEW v \in S, NEW u \in Process, Follows(w, Runs(w), v, u) PROVE u \in S
  <2>1. CASE v = p
    BY <1>1, <2>1, AfterSelf
  <2>2. CASE v # p
    <3>1. PICK r \in Process : Follows(w, Runs(w), p, r) /\ v \in After(w, r)
      BY <2>2
    <3>2. u \in After(w, r)
      BY <1>1, <3>1, AfterStep
    <3> QED BY <3>1, <3>2
  <2> QED BY <2>1, <2>2
<1>2. S \in SUBSET Process /\ p \in S
  OBVIOUS
<1> HIDE DEF S
<1>3. AfterClosed(w, p, S)
  BY <1>1, <1>2 DEF AfterClosed
<1>4. q \in S
  BY <1>2, <1>3 DEF After
<1> QED BY <1>4 DEF S

(* Nothing comes of a process that has ended.                              *)
LEMMA EndedLast ==
  ASSUME NEW w, NEW f \in Process, Ended(w, f) PROVE After(w, f) = {f}
<1>1. \A r : ~ Follows(w, Runs(w), f, r)
  BY DEF Follows, Ended, Asker
<1>2. ASSUME NEW q \in After(w, f) PROVE q = f
  BY <1>1, AfterFirst
<1> QED BY <1>2, AfterSelf

(* A process keeps its node and goal.                                      *)
LEMMA MoveKeepsPair ==
  ASSUME NEW w, NEW p \in Process PROVE PairOf(Move(w, p)) = PairOf(p)
<1>1. \A v, c, l : /\ [p EXCEPT !.pc = v].node = p.node /\ [p EXCEPT !.pc = v].goal = p.goal
                   /\ [p EXCEPT !.stack = v].node = p.node /\ [p EXCEPT !.stack = v].goal = p.goal
                   /\ [p EXCEPT !.pc = v, !.passes = c].node = p.node
                   /\ [p EXCEPT !.pc = v, !.passes = c].goal = p.goal
                   /\ [p EXCEPT !.facts = v, !.passes = c].node = p.node
                   /\ [p EXCEPT !.facts = v, !.passes = c].goal = p.goal
                   /\ [p EXCEPT !.facts = v, !.bundles = c, !.reply = l].node = p.node
                   /\ [p EXCEPT !.facts = v, !.bundles = c, !.reply = l].goal = p.goal
                   /\ [p EXCEPT !.fetched = v, !.pc = c, !.passes = l].node = p.node
                   /\ [p EXCEPT !.fetched = v, !.pc = c, !.passes = l].goal = p.goal
                   /\ DOMAIN [p EXCEPT !.fetched = v, !.pc = c, !.passes = l] = DOMAIN p
                   /\ DOMAIN [p EXCEPT !.pc = v] = DOMAIN p
                   /\ DOMAIN [p EXCEPT !.stack = v] = DOMAIN p
  BY DEF Process
<1>2. {"node", "goal"} \subseteq DOMAIN p
  BY DEF Process
<1>3. ASSUME NEW r, {"node", "goal"} \subseteq DOMAIN r
      PROVE  /\ PastLiteral(r).node = r.node /\ PastLiteral(r).goal = r.goal
             /\ PastClause(r).node = r.node /\ PastClause(r).goal = r.goal
             /\ PastGoal(r).node = r.node /\ PastGoal(r).goal = r.goal
             /\ {"node", "goal"} \subseteq DOMAIN PastLiteral(r)
  BY <1>3 DEF PastLiteral, PastClause, PastGoal, PutFrame
<1>4. ASSUME NEW r, NEW a, {"node", "goal"} \subseteq DOMAIN r
      PROVE  EnterIn(w, r, a).node = r.node /\ EnterIn(w, r, a).goal = r.goal
  BY <1>4 DEF EnterIn
<1>5. CASE p.pc = "walk"
  <2>1. WalkMove(w, p).node = p.node /\ WalkMove(w, p).goal = p.goal
    BY <1>1, <1>2, <1>3, <1>4 DEF WalkMove
  <2> QED BY <1>5, <2>1 DEF Move, PairOf
<1>6. CASE p.pc = "import"
  <2>1. CASE p.reply = <<>>
    <3> DEFINE r == [p EXCEPT !.fetched = @ \cup {LitAt(w, p).atom}, !.pc = "rerun", !.passes = 0]
    <3>1. r.node = p.node /\ r.goal = p.goal /\ {"node", "goal"} \subseteq DOMAIN r
      BY <1>1, <1>2
    <3>2. ImportMove(w, p) = PastLiteral(r)
      BY <2>1 DEF ImportMove
    <3> HIDE DEF r
    <3>3. ImportMove(w, p).node = p.node /\ ImportMove(w, p).goal = p.goal
      BY <1>3, <3>1, <3>2
    <3> QED BY <1>6, <3>3 DEF Move, PairOf
  <2>2. CASE p.reply # <<>>
    <3>1. ImportMove(w, p).node = p.node /\ ImportMove(w, p).goal = p.goal
      BY <1>1, <2>2 DEF ImportMove
    <3> QED BY <1>6, <3>1 DEF Move, PairOf
  <2> QED BY <2>1, <2>2
<1>7. CASE p.pc \notin {"walk", "import"}
  BY <1>1, <1>2, <1>4, <1>7 DEF Move, PairOf
<1> QED BY <1>5, <1>6, <1>7

LEMMA FollowsPair ==
  ASSUME NEW w, NEW S, NEW p \in Process, NEW q, Follows(w, S, p, q) PROVE PairOf(q) = PairOf(p)
<1>1. \A f : PairOf(Return(w, p, f)) = PairOf(p)
  BY DEF Return, PairOf, Process
<1> QED BY <1>1, MoveKeepsPair DEF Follows

(* Every state of a process comes of the new process for its question.     *)
LEMMA FromNew ==
  ASSUME NEW w, NEW q \in Runs(w) PROVE q \in After(w, NewProcess(q.node, q.goal))
<1> DEFINE D == {v \in Runs(w) : v \in After(w, NewProcess(v.node, v.goal))}
<1>1. ASSUME NEW n \in Nodes, NEW g \in Atoms PROVE NewProcess(n, g) \in D
  <2>1. NewProcess(n, g).node = n /\ NewProcess(n, g).goal = g
    BY DEF NewProcess
  <2> QED BY <2>1, NewRuns, NewProcessTyped, AfterSelf
<1>2. ASSUME NEW v \in D, NEW u \in Runs(w), Follows(w, D, v, u) PROVE u \in D
  <2>1. v \in Process /\ v \in Runs(w) /\ v \in After(w, NewProcess(v.node, v.goal))
    BY DEF Runs
  <2>2. PairOf(u) = PairOf(v)
    BY <1>2, <2>1, FollowsPair
  <2>3. Follows(w, Runs(w), v, u)
    BY <1>2 DEF Follows
  <2>4. u \in After(w, NewProcess(v.node, v.goal))
    BY <2>1, <2>3, AfterStep
  <2> QED BY <2>2, <2>4 DEF PairOf
<1>3. D \in SUBSET Runs(w)
  OBVIOUS
<1> HIDE DEF D
<1>4. Runs(w) \subseteq D
  BY <1>1, <1>2, <1>3, RunsInduct
<1> QED BY <1>4 DEF D

(* Two states of processes for one question: one comes of the other.       *)
Compared(w, p) ==
  \A q \in Runs(w) : PairOf(q) = PairOf(p) => q \in After(w, p) \/ p \in After(w, q)

LEMMA ComparedEnded ==
  ASSUME NEW w, NEW f \in Runs(w), Compared(w, f), Ended(w, f), NEW g \in Runs(w), Ended(w, g), PairOf(g) = PairOf(f)
  PROVE  g = f
<1>1. f \in Process /\ g \in Process
  BY DEF Runs
<1>2. After(w, f) = {f} /\ After(w, g) = {g}
  BY <1>1, EndedLast
<1> QED BY <1>2 DEF Compared

LEMMA ComparedStep ==
  ASSUME NEW w, NEW D \in SUBSET Runs(w), \A f \in D : Compared(w, f),
         NEW p, NEW q, Follows(w, D, p, q), NEW r, Follows(w, Runs(w), p, r)
  PROVE  r = q
<1>1. CASE p.pc # "wait"
  BY <1>1 DEF Follows, Asker
<1>2. CASE p.pc = "wait"
  <2>1. PICK f \in D : Ended(w, f) /\ Asker(w, p, PairOf(f)) /\ q = Return(w, p, f)
    BY <1>2 DEF Follows
  <2>2. PICK g \in Runs(w) : Ended(w, g) /\ Asker(w, p, PairOf(g)) /\ r = Return(w, p, g)
    BY <1>2 DEF Follows
  <2>3. PairOf(g) = PairOf(f)
    BY <2>1, <2>2 DEF Asker
  <2>4. g = f
    BY <2>1, <2>2, <2>3, ComparedEnded
  <2> QED BY <2>1, <2>2, <2>4
<1> QED BY <1>1, <1>2

LEMMA RunsCompared ==
  ASSUME NEW w, NEW p \in Runs(w) PROVE Compared(w, p)
<1> DEFINE D == {v \in Runs(w) : Compared(w, v)}
<1>1. ASSUME NEW n \in Nodes, NEW g \in Atoms PROVE NewProcess(n, g) \in D
  <2>1. NewProcess(n, g) \in Runs(w) /\ PairOf(NewProcess(n, g)) = <<n, g>>
    BY NewRuns DEF NewProcess, PairOf
  <2>2. ASSUME NEW q \in Runs(w), PairOf(q) = <<n, g>> PROVE q \in After(w, NewProcess(n, g))
    <3>1. q.node = n /\ q.goal = g
      BY <2>2 DEF PairOf
    <3> QED BY <3>1, FromNew
  <2> QED BY <2>1, <2>2 DEF Compared
<1>2. ASSUME NEW v \in D, NEW u \in Runs(w), Follows(w, D, v, u) PROVE u \in D
  <2>1. v \in Process /\ u \in Process /\ v \in Runs(w) /\ Compared(w, v) /\ D \in SUBSET Runs(w)
    BY DEF Runs
  <2>2. PairOf(u) = PairOf(v) /\ Follows(w, Runs(w), v, u)
    <3>1. Follows(w, Runs(w), v, u)
      BY <1>2 DEF Follows
    <3> QED BY <2>1, <3>1, FollowsPair
  <2>3. ASSUME NEW q \in Runs(w), PairOf(q) = PairOf(u) PROVE q \in After(w, u) \/ u \in After(w, q)
    <3>1. q \in Process
      BY DEF Runs
    <3>2. CASE v \in After(w, q)
      BY <2>2, <3>2, AfterStep
    <3>3. CASE q = v
      BY <2>2, <3>1, <3>3, AfterSelf, AfterStep
    <3>4. CASE q \in After(w, v) /\ q # v
      <4>1. PICK r \in Process : Follows(w, Runs(w), v, r) /\ q \in After(w, r)
        BY <2>1, <3>4, AfterFirst
      <4>2. \A f \in D : Compared(w, f)
        OBVIOUS
      <4> HIDE DEF D
      <4>3. r = u
        BY <1>2, <2>1, <4>1, <4>2, ComparedStep
      <4> QED BY <4>1, <4>3
    <3> QED BY <2>1, <2>2, <2>3, <3>2, <3>3, <3>4 DEF Compared
  <2> QED BY <2>3 DEF Compared
<1>3. D \in SUBSET Runs(w)
  OBVIOUS
<1> HIDE DEF D
<1>4. Runs(w) \subseteq D
  BY <1>1, <1>2, <1>3, RunsInduct
<1> QED BY <1>4 DEF D

(* A process has one next state.                                           *)
LEMMA FollowsOne ==
  ASSUME NEW w, NEW p, NEW q, Follows(w, Runs(w), p, q), NEW r, Follows(w, Runs(w), p, r)
  PROVE  r = q
BY RunsCompared, ComparedStep

-----------------------------------------------------------------------------
(* Questions that come back                                                *)

(* A process asks for y when it is asked for x.                            *)
AsksFor(w, x, y) == \E p \in Runs(w) : PairOf(p) = x /\ Asker(w, p, y)

(* Questions of which each is asked on the way to another are never        *)
(* answered.                                                               *)
LEMMA CycleUnanswered ==
  ASSUME NEW w, NEW C, \A x \in C : \E y \in C : AsksFor(w, x, y),
         NEW f \in Runs(w), Ended(w, f)
  PROVE  PairOf(f) \notin C
<1> DEFINE Waits(p) == \E y \in C : Asker(w, p, y)
           D == {q \in Runs(w) : PairOf(q) \in C => \E p \in After(w, q) : p \in Process /\ Waits(p)}
<1>1. ASSUME NEW n \in Nodes, NEW g \in Atoms PROVE NewProcess(n, g) \in D
  <2>1. NewProcess(n, g) \in Runs(w) /\ PairOf(NewProcess(n, g)) = <<n, g>>
    BY NewRuns DEF NewProcess, PairOf
  <2>2. ASSUME <<n, g>> \in C PROVE \E p \in After(w, NewProcess(n, g)) : p \in Process /\ Waits(p)
    <3>1. PICK y \in C : AsksFor(w, <<n, g>>, y)
      BY <2>2
    <3>2. PICK p \in Runs(w) : PairOf(p) = <<n, g>> /\ Asker(w, p, y)
      BY <3>1 DEF AsksFor
    <3>3. p.node = n /\ p.goal = g /\ p \in Process
      BY <3>2 DEF PairOf, Runs
    <3>4. p \in After(w, NewProcess(n, g))
      BY <3>3, FromNew
    <3> QED BY <3>2, <3>3, <3>4
  <2> QED BY <2>1, <2>2
<1>2. ASSUME NEW q \in D, NEW r \in Runs(w), Follows(w, D, q, r) PROVE r \in D
  <2>1. q \in Process /\ r \in Process /\ q \in Runs(w)
    BY DEF Runs
  <2>2. PairOf(r) = PairOf(q) /\ Follows(w, Runs(w), q, r)
    <3>1. Follows(w, Runs(w), q, r)
      BY <1>2 DEF Follows
    <3> QED BY <2>1, <3>1, FollowsPair
  <2>3. ASSUME PairOf(q) \in C PROVE \E p \in After(w, r) : p \in Process /\ Waits(p)
    <3>1. PICK p \in After(w, q) : p \in Process /\ Waits(p)
      BY <2>3
    <3>2. CASE p = q
      <4>1. PICK y \in C : Asker(w, q, y)
        BY <3>1, <3>2
      <4>2. PICK g \in D : Ended(w, g) /\ Asker(w, q, PairOf(g))
        BY <1>2, <4>1 DEF Follows, Asker
      <4>3. PairOf(g) \in C /\ g \in Process
        BY <4>1, <4>2 DEF Asker, Runs
      <4>4. PICK u \in After(w, g) : Waits(u)
        BY <4>3
      <4>5. u = g
        BY <4>2, <4>3, <4>4, EndedLast
      <4> QED BY <4>2, <4>4, <4>5 DEF Ended, Asker
    <3>3. CASE p # q
      <4>1. PICK u \in Process : Follows(w, Runs(w), q, u) /\ p \in After(w, u)
        BY <2>1, <3>1, <3>3, AfterFirst
      <4>2. u = r
        BY <2>2, <4>1, FollowsOne
      <4> QED BY <3>1, <4>1, <4>2
    <3> QED BY <3>2, <3>3
  <2> QED BY <2>2, <2>3
<1>3. D \in SUBSET Runs(w)
  OBVIOUS
<1> HIDE DEF D
<1>4. f \in D
  BY <1>1, <1>2, <1>3, RunsInduct
<1>5. ASSUME PairOf(f) \in C PROVE FALSE
  <2>1. PICK p \in After(w, f) : Waits(p)
    BY <1>4, <1>5 DEF D
  <2>2. p = f
    BY <2>1, EndedLast DEF Runs
  <2> QED BY <2>1, <2>2 DEF Ended, Asker
<1> QED BY <1>5

-----------------------------------------------------------------------------
(* Whose evidence a process holds                                          *)

BelowClosed(w, x, B) ==
  \A y \in Nodes \X Atoms : AsksFor(w, x, y) \/ (\E z \in B : AsksFor(w, z, y)) => y \in B
Below(w, x) == {y \in Nodes \X Atoms : \A B \in SUBSET (Nodes \X Atoms) : BelowClosed(w, x, B) => y \in B}

LEMMA BelowNext ==
  ASSUME NEW w, NEW x, NEW y \in Nodes \X Atoms, AsksFor(w, x, y) PROVE y \in Below(w, x)
BY DEF Below, BelowClosed

LEMMA BelowThrough ==
  ASSUME NEW w, NEW x, NEW y \in Nodes \X Atoms, AsksFor(w, x, y) PROVE Below(w, y) \subseteq Below(w, x)
<1> SUFFICES ASSUME NEW z \in Below(w, y), NEW B \in SUBSET (Nodes \X Atoms), BelowClosed(w, x, B)
             PROVE  z \in B
  BY DEF Below
<1>1. y \in B
  BY DEF BelowClosed
<1>2. BelowClosed(w, y, B)
  BY <1>1 DEF BelowClosed
<1> QED BY <1>2 DEF Below

(* What is asked in the end is asked at once or by one asked at once.      *)
LEMMA BelowFirst ==
  ASSUME NEW w, NEW x, NEW z \in Below(w, x)
  PROVE  \E y \in Nodes \X Atoms : AsksFor(w, x, y) /\ (z = y \/ z \in Below(w, y))
<1> DEFINE B == {v \in Nodes \X Atoms :
                   \E y \in Nodes \X Atoms : AsksFor(w, x, y) /\ (v = y \/ v \in Below(w, y))}
<1>1. ASSUME NEW u \in Nodes \X Atoms, NEW v \in B, AsksFor(w, v, u) PROVE u \in B
  <2>1. PICK y \in Nodes \X Atoms : AsksFor(w, x, y) /\ (v = y \/ v \in Below(w, y))
    OBVIOUS
  <2>2. u \in Below(w, y)
    <3>1. CASE v = y
      BY <1>1, <3>1, BelowNext
    <3>2. CASE v \in Below(w, y)
      <4> SUFFICES ASSUME NEW A \in SUBSET (Nodes \X Atoms), BelowClosed(w, y, A) PROVE u \in A
        BY DEF Below
      <4>1. v \in A
        BY <3>2 DEF Below
      <4> QED BY <1>1, <4>1 DEF BelowClosed
    <3> QED BY <2>1, <3>1, <3>2
  <2> QED BY <2>1, <2>2
<1>2. \A u \in Nodes \X Atoms : AsksFor(w, x, u) => u \in B
  OBVIOUS
<1>3. B \in SUBSET (Nodes \X Atoms)
  OBVIOUS
<1> HIDE DEF B
<1>4. BelowClosed(w, x, B)
  BY <1>1, <1>2 DEF BelowClosed
<1>5. z \in B
  BY <1>3, <1>4 DEF Below
<1> QED BY <1>5 DEF B

(* A question that is needed for itself is never answered.                 *)
LEMMA SelfUnanswered ==
  ASSUME NEW w, NEW f \in Runs(w), Ended(w, f) PROVE PairOf(f) \notin Below(w, PairOf(f))
<1> DEFINE x == PairOf(f)
           C == {z \in Nodes \X Atoms : (z = x \/ z \in Below(w, x)) /\ x \in Below(w, z)}
<1> SUFFICES ASSUME x \in Below(w, x) PROVE FALSE
  OBVIOUS
<1>1. ASSUME NEW z \in C PROVE \E y \in C : AsksFor(w, z, y)
  <2>1. x \in Below(w, z) /\ (z = x \/ z \in Below(w, x))
    OBVIOUS
  <2>2. PICK y \in Nodes \X Atoms : AsksFor(w, z, y) /\ (x = y \/ x \in Below(w, y))
    <3> HIDE DEF x, C
    <3> QED BY <2>1, BelowFirst
  <2>3. y \in Below(w, x)
    <3> HIDE DEF C, x
    <3>1. CASE z = x
      BY <2>2, <3>1, BelowNext
    <3>2. CASE z \in Below(w, x)
      BY <2>2, <3>2 DEF Below, BelowClosed
    <3> QED BY <2>1, <3>1, <3>2
  <2>4. x \in Below(w, y)
    BY <2>2
  <2> QED BY <2>2, <2>3, <2>4
<1>2. x \in C
  <2>1. x \in Nodes \X Atoms
    BY DEF Below
  <2> QED BY <2>1
<1> HIDE DEF C
<1>3. \A z \in C : \E y \in C : AsksFor(w, z, y)
  BY <1>1
<1>4. PairOf(f) \in C
  BY <1>2
<1> HIDE DEF x
<1> QED BY <1>3, <1>4, CycleUnanswered

(* What a process holds.                                                   *)
Holding(p) == {PairOf(p.bundles[j]) : j \in DOMAIN p.bundles} \cup {PairOf(p.reply[j]) : j \in DOMAIN p.reply}

LEMMA MoveHolds ==
  ASSUME NEW w, NEW p \in Process PROVE Holding(Move(w, p)) \subseteq Holding(p)
<1>1. \A v, c, l : /\ [p EXCEPT !.pc = v].bundles = p.bundles /\ [p EXCEPT !.pc = v].reply = p.reply
                   /\ [p EXCEPT !.pc = v, !.passes = c].bundles = p.bundles
                   /\ [p EXCEPT !.pc = v, !.passes = c].reply = p.reply
                   /\ [p EXCEPT !.facts = v, !.passes = c].bundles = p.bundles
                   /\ [p EXCEPT !.facts = v, !.passes = c].reply = p.reply
                   /\ [p EXCEPT !.fetched = v, !.pc = c, !.passes = l].bundles = p.bundles
                   /\ [p EXCEPT !.fetched = v, !.pc = c, !.passes = l].reply = p.reply
                   /\ DOMAIN [p EXCEPT !.fetched = v, !.pc = c, !.passes = l] = DOMAIN p
                   /\ DOMAIN [p EXCEPT !.pc = v] = DOMAIN p
  BY DEF Process
<1>2. {"bundles", "reply"} \subseteq DOMAIN p
  BY DEF Process
<1>3. ASSUME NEW r, {"bundles", "reply"} \subseteq DOMAIN r
      PROVE  /\ PastLiteral(r).bundles = r.bundles /\ PastLiteral(r).reply = r.reply
             /\ PastClause(r).bundles = r.bundles /\ PastClause(r).reply = r.reply
             /\ PastGoal(r).bundles = r.bundles /\ PastGoal(r).reply = r.reply
             /\ {"bundles", "reply"} \subseteq DOMAIN PastLiteral(r)
  BY <1>3 DEF PastLiteral, PastClause, PastGoal, PutFrame
<1>4. ASSUME NEW r, NEW a, {"bundles", "reply"} \subseteq DOMAIN r
      PROVE  EnterIn(w, r, a).bundles = r.bundles /\ EnterIn(w, r, a).reply = r.reply
  BY <1>4 DEF EnterIn
<1>5. CASE p.pc = "walk"
  <2>1. WalkMove(w, p).bundles = p.bundles /\ WalkMove(w, p).reply = p.reply
    BY <1>1, <1>2, <1>3, <1>4 DEF WalkMove
  <2> QED BY <1>5, <2>1 DEF Move, Holding
<1>6. CASE p.pc = "import" /\ p.reply = <<>>
  <2>1. ImportMove(w, p).bundles = p.bundles /\ ImportMove(w, p).reply = p.reply
    BY <1>1, <1>2, <1>3, <1>6 DEF ImportMove
  <2> QED BY <1>6, <2>1 DEF Move, Holding
<1>7. CASE p.pc = "import" /\ p.reply # <<>>
  <2> DEFINE b == Head(p.reply)
  <2>1. /\ Move(w, p).bundles = AddBundle(p.bundles, b) /\ Move(w, p).reply = Tail(p.reply)
    BY <1>7 DEF Move, ImportMove, Process
  <2>2. /\ p.reply \in Seq(Bundle) /\ p.bundles \in Seq(Bundle) /\ b = p.reply[1] /\ 1 \in DOMAIN p.reply
        /\ \A j \in DOMAIN Tail(p.reply) : j + 1 \in DOMAIN p.reply /\ Tail(p.reply)[j] = p.reply[j + 1]
    BY <1>7 DEF Process
  <2>3. b \in Bundle
    BY <2>2
  <2> HIDE DEF b
  <2>4. \A j \in DOMAIN AddBundle(p.bundles, b) :
          AddBundle(p.bundles, b)[j] = b \/ \E k \in DOMAIN p.bundles : AddBundle(p.bundles, b)[j] = p.bundles[k]
    BY <2>2, <2>3, AddedBundle
  <2> QED BY <2>1, <2>2, <2>4 DEF Holding
<1>8. CASE p.pc \notin {"walk", "import"}
  BY <1>1, <1>2, <1>4, <1>8 DEF Move, Holding
<1> QED BY <1>5, <1>6, <1>7, <1>8

(* A process holds evidence of what is asked below it only.                *)
LEMMA HoldsBelow ==
  ASSUME NEW w, NEW p \in Runs(w) PROVE Holding(p) \subseteq Below(w, PairOf(p))
<1> DEFINE D == {v \in Runs(w) : Holding(v) \subseteq Below(w, PairOf(v))}
<1>1. ASSUME NEW n \in Nodes, NEW g \in Atoms PROVE NewProcess(n, g) \in D
  BY NewRuns DEF NewProcess, Holding
<1>2. ASSUME NEW v \in D, NEW u \in Runs(w), Follows(w, D, v, u) PROVE u \in D
  <2>1. v \in Process /\ PairOf(u) = PairOf(v) /\ Holding(v) \subseteq Below(w, PairOf(v)) /\ v \in Runs(w)
    BY <1>2, FollowsPair DEF Runs
  <2>2. CASE u = Move(w, v)
    BY <2>1, <2>2, MoveHolds
  <2>3. CASE \E f \in D : Ended(w, f) /\ Asker(w, v, PairOf(f)) /\ u = Return(w, v, f)
    <3>1. PICK f \in D : Ended(w, f) /\ Asker(w, v, PairOf(f)) /\ u = Return(w, v, f)
      BY <2>3
    <3>2. f \in Process /\ Holding(f) \subseteq Below(w, PairOf(f))
      BY DEF Runs
    <3>3. PairOf(f) \in Nodes \X Atoms
      BY <3>2 DEF PairOf, Process
    <3>4. AsksFor(w, PairOf(v), PairOf(f))
      BY <2>1, <3>1 DEF AsksFor
    <3>5. PairOf(f) \in Below(w, PairOf(v)) /\ Below(w, PairOf(f)) \subseteq Below(w, PairOf(v))
      BY <3>3, <3>4, BelowNext, BelowThrough
    <3>6. u.bundles = v.bundles /\ u.reply = AddBundle(f.bundles, OwnOf(w, f))
      BY <2>1, <3>1 DEF Return, Process, ResponseOf
    <3>7. /\ f.bundles \in Seq(Bundle) /\ OwnOf(w, f) \in Bundle /\ PairOf(OwnOf(w, f)) = PairOf(f)
      <4>1. f.node \in Nodes /\ f.goal \in Atoms /\ (f.node \in w.provers) \in BOOLEAN
        BY <3>2 DEF Process
      <4>2. ASSUME NEW proved \in BOOLEAN
            PROVE  [node |-> f.node, goal |-> f.goal, proved |-> proved] \in Bundle
        BY <4>1 DEF Bundle
      <4> QED BY <3>2, <4>1, <4>2 DEF Process, OwnOf, PairOf
    <3>8. \A j \in DOMAIN u.reply : u.reply[j] = OwnOf(w, f) \/ \E k \in DOMAIN f.bundles : u.reply[j] = f.bundles[k]
      <4> HIDE DEF D
      <4> QED BY <3>6, <3>7, AddedBundle
    <3>9. Holding(u) \subseteq Holding(v) \cup Holding(f) \cup {PairOf(f)}
      BY <3>6, <3>7, <3>8 DEF Holding
    <3> QED BY <2>1, <3>2, <3>5, <3>9
  <2> QED BY <1>2, <2>2, <2>3 DEF Follows
<1>3. D \in SUBSET Runs(w)
  OBVIOUS
<1> HIDE DEF D
<1>4. Runs(w) \subseteq D
  BY <1>1, <1>2, <1>3, RunsInduct
<1> QED BY <1>4 DEF D

(* So the bundle a process makes of its own answer is new, and comes last. *)
LEMMA OwnLast ==
  ASSUME NEW w, NEW p \in Runs(w), Ended(w, p)
  PROVE  ResponseOf(w, p) = Append(p.bundles, OwnOf(w, p))
<1>1. PairOf(p) \notin Holding(p)
  BY HoldsBelow, SelfUnanswered
<1>2. OwnOf(w, p).node = p.node /\ OwnOf(w, p).goal = p.goal
  BY DEF OwnOf
<1> QED BY <1>1, <1>2 DEF Holding, PairOf, ResponseOf, AddBundle

-----------------------------------------------------------------------------
(* The processes of a query are in their runs                              *)

Running == \A i \in 1..depth : calls[i] \in Runs(world)

(* The steps of the process at work are its moves.                         *)
LEMMA MoveMade ==
  ASSUME IInv, \/ Evaluate \/ StartWalk \/ Resume \/ NextClause \/ GoalDone \/ NextLiteral
               \/ ResolveLocal \/ WalkDone \/ ImportBundle \/ ImportDone
  PROVE  depth > 0 /\ Become(Move(world, Top)) /\ Top.pc # "wait" /\ ~ Ended(world, Top)
<1>1. CASE Evaluate
  BY <1>1 DEF Evaluate, Evaluating, RunOver, Settled, Move, Settles, Ended
<1>0. \A q, a : EnterIn(world, q, a) = Enter(q, a)
  BY DEF EnterIn, Enter, Has
<1>2. CASE StartWalk \/ Resume
  BY <1>0, <1>2 DEF StartWalk, Resume, Evaluating, RunOver, Settled, Move, Settles, Ended
<1> DEFINE p == Top
<1>3. LiteralOf(p) = LitAt(world, p) /\ ClauseOf(p) = ProgOf(world, p)[FrameOf(p).clause]
      /\ ProgramOf(p) = ProgOf(world, p)
  BY DEF LiteralOf, ClauseOf, ProgramOf, LitAt, ProgOf
<1>4. CASE ImportBundle \/ ImportDone
  <2>1. ImportMove(world, p) = IF p.reply # <<>>
          THEN [p EXCEPT !.facts = @ \cup {Head(p.reply).goal}, !.bundles = AddBundle(@, Head(p.reply)),
                         !.reply = Tail(@)]
          ELSE PastLiteral([p EXCEPT !.fetched = @ \cup {LiteralOf(p).atom}, !.pc = "rerun",
                                     !.passes = 0])
    BY <1>3 DEF ImportMove
  <2>2. Move(world, p) = ImportMove(world, p) /\ depth > 0 /\ Top.pc = "import"
    BY <1>4 DEF Move, ImportBundle, ImportDone, Importing
  <2> QED BY <1>4, <2>1, <2>2 DEF ImportBundle, ImportDone, Importing, Ended
<1>5. CASE NextClause \/ GoalDone \/ WalkDone
  <2>1. Move(world, p) = WalkMove(world, p) /\ depth > 0 /\ Top.pc = "walk"
    BY <1>5 DEF Move, NextClause, GoalDone, WalkDone, Walking
  <2> QED BY <1>3, <1>5, <2>1 DEF WalkMove, NextClause, GoalDone, WalkDone, Walking, AtClause, Ended
<1>6. CASE NextLiteral \/ ResolveLocal
  <2>1. Move(world, p) = WalkMove(world, p) /\ depth > 0 /\ Top.pc = "walk" /\ AtLiteral(Top)
    BY <1>6 DEF Move, NextLiteral, ResolveLocal, AtLiteral
  <2>2. FrameOf(p).literal \in Nat /\ Len(ClauseOf(p).body) \in Nat
    <3>1. Placed(world, Top) /\ Top \in Process /\ world \in Deployments
      BY <2>1, TopOK, AtLiteralPlaced
    <3>2. p.stack \in Seq(Frame) /\ p.stack # <<>> /\ p.node \in Nodes
      BY <3>1 DEF Process, Placed
    <3>3. FrameOf(p) \in Frame
      BY <3>2 DEF FrameOf
    <3>4. ClauseOf(p) \in Clause
      BY <3>1, <3>2, ProgramTyped DEF Placed, ClauseOf, ProgramOf
    <3> QED BY <3>3, <3>4 DEF Frame, Clause
  <2>3. /\ p.stack # <<>> /\ FrameOf(p).clause <= Len(ProgOf(world, p))
        /\ ProgOf(world, p)[FrameOf(p).clause].head = FrameOf(p).goal
        /\ ~ (FrameOf(p).literal > Len(ProgOf(world, p)[FrameOf(p).clause].body))
    BY <1>3, <2>1, <2>2 DEF AtLiteral, AtClause
  <2>4. /\ Skipped(p) <=> LitAt(world, p).kind \in {"not", "tool"}
        /\ IsRemote(p) <=> ~ Skipped(p) /\ Says(LitAt(world, p).atom)
        /\ Fetched(p) <=> LitAt(world, p).atom \in p.fetched
        /\ Answered(p) <=> \/ LitAt(world, p).atom \in Read(world, p.node, p.facts)
                           \/ ~ \E c \in Clauses(world, p.node) : c.head = LitAt(world, p).atom
    BY <1>3 DEF Skipped, IsRemote, Fetched, Answered, Has, HasDerivation
  <2>5. CASE NextLiteral
    <3>1. Become(PastLiteral(p))
      BY <2>5 DEF NextLiteral
    <3>2. WalkMove(world, p) = PastLiteral(p)
      BY <2>3, <2>4, <2>5 DEF NextLiteral, WalkMove
    <3> QED BY <2>1, <3>1, <3>2 DEF Ended
  <2>6. CASE ResolveLocal
    <3>1. Become(Enter(PastLiteral(p), LitAt(world, p).atom))
      BY <1>3, <2>6 DEF ResolveLocal
    <3>2. WalkMove(world, p) = Enter(PastLiteral(p), LitAt(world, p).atom)
      BY <1>0, <2>3, <2>4, <2>6 DEF ResolveLocal, WalkMove
    <3> QED BY <2>1, <3>1, <3>2 DEF Ended
  <2> QED BY <1>6, <2>5, <2>6
<1> QED BY <1>1, <1>2, <1>4, <1>5, <1>6

LEMMA CallMade ==
  ASSUME IInv, CallNode
  PROVE  /\ Move(world, Top) = [Top EXCEPT !.pc = "wait"] /\ Top.pc # "wait" /\ ~ Ended(world, Top)
<1> DEFINE p == Top
<1>1. /\ depth > 0 /\ AtLiteral(p) /\ IsRemote(p) /\ ~ Fetched(p)
  BY DEF CallNode
<1>2. LiteralOf(p) = LitAt(world, p) /\ ClauseOf(p) = ProgOf(world, p)[FrameOf(p).clause]
      /\ ProgramOf(p) = ProgOf(world, p)
  BY DEF LiteralOf, ClauseOf, ProgramOf, LitAt, ProgOf
<1>3. FrameOf(p).literal \in Nat /\ Len(ClauseOf(p).body) \in Nat
  <2>1. Placed(world, Top) /\ Top \in Process /\ world \in Deployments
    BY <1>1, TopOK, AtLiteralPlaced
  <2>2. p.stack \in Seq(Frame) /\ p.stack # <<>> /\ p.node \in Nodes
    BY <2>1 DEF Process, Placed
  <2>3. FrameOf(p) \in Frame
    BY <2>2 DEF FrameOf
  <2>4. ClauseOf(p) \in Clause
    BY <2>1, <2>2, ProgramTyped DEF Placed, ClauseOf, ProgramOf
  <2> QED BY <2>3, <2>4 DEF Frame, Clause
<1>4. /\ p.stack # <<>> /\ FrameOf(p).clause <= Len(ProgOf(world, p)) /\ p.pc = "walk"
      /\ ProgOf(world, p)[FrameOf(p).clause].head = FrameOf(p).goal
      /\ ~ (FrameOf(p).literal > Len(ProgOf(world, p)[FrameOf(p).clause].body))
  BY <1>1, <1>2, <1>3 DEF AtLiteral, AtClause
<1>5. /\ LitAt(world, p).kind \notin {"not", "tool"} /\ Says(LitAt(world, p).atom)
      /\ LitAt(world, p).atom \notin p.fetched
  BY <1>1, <1>2 DEF Skipped, IsRemote, Fetched
<1>6. WalkMove(world, p) = [p EXCEPT !.pc = "wait"]
  BY <1>4, <1>5 DEF WalkMove
<1> QED BY <1>4, <1>6 DEF Move, Ended

(* What becomes of the process at work.                                    *)
LEMMA BecomeParts ==
  ASSUME IInv, depth > 0, NEW q, Become(q)
  PROVE  /\ world' = world /\ depth' = depth /\ outcome' = outcome
         /\ \A i \in 1..depth : calls'[i] = IF i = depth THEN q ELSE calls[i]
         /\ IInv' => q \in Process
<1>1. depth \in 1..depth /\ 1..depth \subseteq DOMAIN calls
  BY QueryAssumption DEF IInv
<1> QED BY <1>1 DEF Become, IInv, ProcOK

LEMMA NextRunning ==
  ASSUME IInv, IInv', Explained, Running, [Next]_vars
  PROVE  Running'
<1>1. world' = world
  BY NextWorld
<1>2. ASSUME depth > 0
      PROVE  Top \in Runs(world) /\ Top = calls[depth] /\ depth \in 1..depth /\ depth \in Nat
  BY <1>2, TopOK DEF Running, Top
<1>3. CASE \/ Evaluate \/ StartWalk \/ Resume \/ NextClause \/ GoalDone \/ NextLiteral
           \/ ResolveLocal \/ WalkDone \/ ImportBundle \/ ImportDone
  <2>1. depth > 0 /\ Become(Move(world, Top)) /\ Top.pc # "wait" /\ ~ Ended(world, Top)
    BY <1>3, MoveMade
  <2>2. Move(world, Top) \in Process
    BY <2>1, BecomeParts
  <2>3. Move(world, Top) \in Runs(world)
    BY <1>2, <2>1, <2>2, FollowsRuns DEF Follows
  <2>4. depth' = depth /\ \A i \in 1..depth : calls'[i] = IF i = depth THEN Move(world, Top) ELSE calls[i]
    BY <2>1, BecomeParts
  <2> QED BY <1>1, <2>3, <2>4 DEF Running
<1>4. CASE CallNode
  <2> DEFINE called == NewProcess(Home[Speaker[LiteralOf(Top).atom]], LiteralOf(Top).atom)
  <2>1. /\ depth > 0 /\ depth < MaxDepth /\ depth' = depth + 1 /\ AtLiteral(Top) /\ IsRemote(Top)
        /\ calls' = [calls EXCEPT ![depth] = [Top EXCEPT !.pc = "wait"], ![depth + 1] = called]
    BY <1>4 DEF CallNode
  <2>2. Move(world, Top) = [Top EXCEPT !.pc = "wait"] /\ Top.pc # "wait" /\ ~ Ended(world, Top)
    BY <1>4, CallMade
  <2>3. LiteralOf(Top).atom \in Atoms /\ Home[Speaker[LiteralOf(Top).atom]] \in Nodes
    BY <2>1, AtLiteralPlaced, PlacedLiteral, QueryAssumption DEF IsRemote, Says
  <2>4. called \in Runs(world)
    BY <2>3, NewRuns
  <2>5. [Top EXCEPT !.pc = "wait"] \in Process
    BY <1>2, <2>1, TopOK, PcOK DEF Pcs
  <2>6. [Top EXCEPT !.pc = "wait"] \in Runs(world)
    BY <1>2, <2>1, <2>2, <2>5, FollowsRuns DEF Follows
  <2> HIDE DEF called
  <2>7. 1..(depth + 1) \subseteq DOMAIN calls
    BY <1>2, <2>1, QueryAssumption DEF IInv
  <2>8. ASSUME NEW i \in 1..(depth + 1) PROVE calls'[i] \in Runs(world)
    <3>1. CASE i = depth + 1
      BY <2>1, <2>4, <2>7, <3>1
    <3>2. CASE i = depth
      BY <1>2, <2>1, <2>6, <2>7, <3>2
    <3>3. CASE i \in 1..depth /\ i # depth
      BY <1>2, <2>1, <2>7, <3>3 DEF Running
    <3> QED BY <1>2, <2>1, <3>1, <3>2, <3>3
  <2> QED BY <1>1, <2>1, <2>8 DEF Running
<1>5. CASE \E a \in Asked : Ask(a[1], a[2])
  <2>1. PICK a \in Asked : Ask(a[1], a[2])
    BY <1>5
  <2>2. depth' = 1 /\ calls'[1] = NewProcess(a[1], a[2]) /\ a[1] \in Nodes /\ a[2] \in Atoms
    BY <2>1, QueryAssumption DEF Ask, IInv
  <2> QED BY <1>1, <2>2, NewRuns DEF Running
<1>6. CASE CallFails \/ NoAnswers \/ ImportFails \/ Lost \/ RespondToUser
  <2>1. depth' = 0
    BY <1>6 DEF CallFails, NoAnswers, ImportFails, Lost, RespondToUser, Abort
  <2> QED BY <2>1 DEF Running
<1>7. CASE Respond
  <2> DEFINE caller == calls[depth - 1]
             q == [caller EXCEPT !.pc = "import", !.reply = Response(Top)]
  <2>1. /\ depth > 1 /\ depth' = depth - 1 /\ calls' = [calls EXCEPT ![depth - 1] = q]
        /\ Top.pc = "final" /\ RunOver
    BY <1>7 DEF Respond, Finishing
  <2>2. depth > 0 /\ depth \in Nat
    BY <2>1 DEF IInv
  <2>3. /\ depth - 1 \in 1..depth /\ depth - 1 < depth /\ (depth - 1) + 1 = depth
        /\ 1..(depth - 1) \subseteq 1..depth /\ 1..(depth - 1) \subseteq DOMAIN calls
    BY <2>1, <2>2, QueryAssumption DEF IInv
  <2>4. caller \in Runs(world) /\ caller.pc = "wait"
    BY <2>3 DEF Running, IInv
  <2>5. Asker(world, caller, PairOf(Top))
    <3>1. PairOf(calls[(depth - 1) + 1]) = AskedPair(world, caller)
      BY <2>3 DEF Explained, Linked
    <3> QED BY <1>2, <2>2, <2>3, <2>4, <3>1 DEF Asker
  <2>6. Ended(world, Top)
    BY <2>1 DEF Ended, RunOver, Settled, Settles
  <2>7. q = Return(world, caller, Top)
    BY DEF Return, ResponseOf, Response, OwnOf, OwnBundle
  <2>8. q \in Process
    <3> HIDE DEF q
    <3>1. calls'[depth - 1] = q
      BY <2>1, <2>3
    <3>2. depth - 1 \in 1..depth'
      BY <2>1, <2>2
    <3> QED BY <3>1, <3>2 DEF IInv, ProcOK
  <2> HIDE DEF q, caller
  <2>9. Follows(world, Runs(world), caller, q)
    BY <1>2, <2>2, <2>5, <2>6, <2>7, <2>8 DEF Follows
  <2>10. q \in Runs(world)
    BY <2>4, <2>9, FollowsRuns
  <2>11. \A i \in 1..(depth - 1) : calls'[i] \in Runs(world)
    BY <2>1, <2>3, <2>10 DEF Running
  <2> QED BY <1>1, <2>1, <2>11 DEF Running
<1>8. CASE UNCHANGED vars
  BY <1>8 DEF vars, Running
<1> QED BY <1>3, <1>4, <1>5, <1>6, <1>7, <1>8 DEF Next, Work

(* A query that came back gets no response past the place it came back to. *)
LEMMA NextReturned ==
  ASSUME IInv, IInv', Explained, Running, Returned, [Next]_vars
  PROVE  Returned' \/ outcome' \in {Failed, Broken}
<1>1. PICK i \in 1..depth, j \in 1..depth : i < j /\ PairOf(calls[i]) = PairOf(calls[j])
  BY DEF Returned, PairOf
<1>2. depth > 1 /\ depth \in Nat
  BY <1>1 DEF IInv
<1>3. Top \in Runs(world) /\ Top = calls[depth] /\ depth \in 1..depth
  BY <1>2, TopOK DEF Running, Top
<1>4. ASSUME i \in 1..depth', j \in 1..depth',
             PairOf(calls'[i]) = PairOf(calls[i]), PairOf(calls'[j]) = PairOf(calls[j])
      PROVE  Returned'
  BY <1>1, <1>4 DEF Returned, PairOf
<1>5. CASE \/ Evaluate \/ StartWalk \/ Resume \/ NextClause \/ GoalDone \/ NextLiteral
           \/ ResolveLocal \/ WalkDone \/ ImportBundle \/ ImportDone
  <2>1. Become(Move(world, Top))
    BY <1>5, MoveMade
  <2>2. depth' = depth /\ \A k \in 1..depth : calls'[k] = IF k = depth THEN Move(world, Top) ELSE calls[k]
    BY <1>2, <2>1, BecomeParts
  <2>3. PairOf(Move(world, Top)) = PairOf(Top)
    BY <1>3, MoveKeepsPair DEF Runs
  <2> QED BY <1>1, <1>3, <1>4, <2>2, <2>3
<1>6. CASE CallNode
  <2> DEFINE called == NewProcess(Home[Speaker[LiteralOf(Top).atom]], LiteralOf(Top).atom)
             waiting == [Top EXCEPT !.pc = "wait"]
  <2>1. /\ depth' = depth + 1 /\ depth < MaxDepth
        /\ calls' = [calls EXCEPT ![depth] = waiting, ![depth + 1] = called]
    BY <1>6 DEF CallNode
  <2>2. PairOf(waiting) = PairOf(Top)
    BY <1>3 DEF Runs, Process, PairOf
  <2> HIDE DEF called, waiting
  <2>3. 1..(depth + 1) \subseteq DOMAIN calls
    BY <1>2, <2>1, QueryAssumption DEF IInv
  <2>4. \A k \in 1..depth : PairOf(calls'[k]) = PairOf(calls[k]) /\ k \in 1..depth'
    BY <1>2, <1>3, <2>1, <2>2, <2>3
  <2> QED BY <1>1, <1>4, <2>4
<1>7. CASE CallFails \/ NoAnswers \/ ImportFails \/ Lost
  BY <1>7 DEF CallFails, NoAnswers, ImportFails, Lost, Abort
<1>8. CASE Respond /\ j < depth
  <2>1. depth' = depth - 1
        /\ calls' = [calls EXCEPT ![depth - 1] = [@ EXCEPT !.pc = "import", !.reply = Response(Top)]]
    BY <1>8 DEF Respond
  <2>2. 1..(depth - 1) \subseteq DOMAIN calls /\ 1..(depth - 1) \subseteq 1..depth
    BY <1>2, QueryAssumption DEF IInv
  <2>3. ASSUME NEW k \in 1..(depth - 1) PROVE PairOf(calls'[k]) = PairOf(calls[k])
    <3>1. calls[k] \in Process
      BY <2>2 DEF IInv, ProcOK
    <3>2. \A r : PairOf([calls[k] EXCEPT !.pc = "import", !.reply = r]) = PairOf(calls[k])
      BY <3>1 DEF Process, PairOf
    <3> QED BY <2>1, <2>2, <3>2
  <2>4. i \in 1..(depth - 1) /\ j \in 1..(depth - 1)
    BY <1>1, <1>2, <1>8
  <2> QED BY <1>4, <2>1, <2>3, <2>4
<1>9. CASE Respond /\ j = depth
  <2> DEFINE C == {PairOf(calls[k]) : k \in i..depth}
  <2>1. Ended(world, Top)
    BY <1>9 DEF Respond, Finishing, Ended, RunOver, Settled, Settles
  <2>2. ASSUME NEW k \in i..depth, k < depth
        PROVE  k + 1 \in i..depth /\ AsksFor(world, PairOf(calls[k]), PairOf(calls[k + 1]))
    <3>1. k \in 1..depth /\ k + 1 \in i..depth
      BY <1>1, <1>2, <2>2
    <3>2. calls[k] \in Runs(world) /\ calls[k].pc = "wait" /\ PairOf(calls[k + 1]) = AskedPair(world, calls[k])
      BY <2>2, <3>1 DEF Running, IInv, Explained, Linked
    <3> QED BY <3>1, <3>2 DEF AsksFor, Asker
  <2>3. ASSUME NEW x \in C PROVE \E y \in C : AsksFor(world, x, y)
    <3>1. PICK k \in i..depth : x = PairOf(calls[k])
      OBVIOUS
    <3>2. CASE k < depth
      BY <2>2, <3>1, <3>2
    <3>3. CASE k = depth
      <4>1. x = PairOf(calls[i]) /\ i \in i..depth /\ i < depth
        BY <1>1, <1>2, <1>9, <3>1, <3>3
      <4> QED BY <2>2, <4>1
    <3> QED BY <1>2, <3>1, <3>2, <3>3
  <2>4. PairOf(Top) \in C
    <3>1. depth \in i..depth
      BY <1>1, <1>2
    <3> QED BY <1>3, <3>1
  <2> HIDE DEF C
  <2>5. \A x \in C : \E y \in C : AsksFor(world, x, y)
    BY <2>3
  <2> QED BY <1>3, <2>1, <2>4, <2>5, CycleUnanswered
<1>10. CASE RespondToUser \/ \E a \in Asked : Ask(a[1], a[2])
  BY <1>2, <1>10 DEF RespondToUser, Ask
<1>11. CASE UNCHANGED vars
  BY <1>11 DEF vars, Returned
<1>12. j < depth \/ j = depth
  BY <1>1, <1>2
<1> QED BY <1>5, <1>6, <1>7, <1>8, <1>9, <1>10, <1>11, <1>12 DEF Next, Work

LEMMA SpecExplained == Spec => []Explained
<1>1. Init => Explained
  BY DEF Init, Explained, Linked, Pending, Failed
<1> QED BY <1>1, NextExplained, SpecIInv, SpecCounted, PTL DEF Spec

LEMMA SpecRunning == Spec => []Running
<1>1. Init => Running
  BY DEF Init, Running
<1> QED BY <1>1, InitIInv, NextIInv, NextRunning, SpecIInv, SpecExplained, PTL DEF Spec

(* distributed.c 1735: visited_goals is kept per process, so that a query  *)
(* whose nodes need each other's statements comes back to a question a     *)
(* process already waits for; from then on no answer ever gets past that   *)
(* process: the query only ever fails, or goes on coming back.             *)
THEOREM QueryReturnedFails == Spec => ReturnedFails
<1>1. IInv /\ IInv' /\ Explained /\ Running /\ [Next]_vars
        => [Returned => Returned' \/ outcome' \in {Failed, Broken}]_vars
  BY NextReturned DEF vars
<1> QED BY <1>1, SpecIInv, SpecExplained, SpecRunning, PTL DEF Spec, ReturnedFails

-----------------------------------------------------------------------------
(* The last bundle of an answer is the answer's own                        *)

Shaped(o) ==
  IsAnswer(o) => /\ o.bundles \in Seq(Bundle) /\ Len(o.bundles) > 0
                 /\ o.bundles[Len(o.bundles)].goal = o.goal
                 /\ \A j \in 1..(Len(o.bundles) - 1) : Says(o.bundles[j].goal)

LEMMA NextShaped ==
  ASSUME IInv, Running, Shaped(outcome), [Next]_vars
  PROVE  Shaped(outcome')
<1>1. CASE RespondToUser
  <2>1. depth = 1 /\ outcome' = Answer(Top, Response(Top)) /\ Ended(world, Top)
    BY <1>1 DEF RespondToUser, Finishing, Ended, RunOver, Settled, Settles
  <2>2. Top \in Runs(world) /\ Top \in Process /\ ProcOK(world, depth, Top) /\ world \in Deployments
    BY <2>1, TopOK DEF Running, Top
  <2>3. Response(Top) = Append(Top.bundles, OwnBundle(Top))
    <3>1. ResponseOf(world, Top) = Append(Top.bundles, OwnOf(world, Top))
      BY <2>1, <2>2, OwnLast
    <3> QED BY <3>1 DEF ResponseOf, Response, OwnOf, OwnBundle
  <2>4. Top.bundles \in Seq(Bundle) /\ OwnBundle(Top) \in Bundle /\ OwnBundle(Top).goal = Top.goal
    <3>1. Top.node \in Nodes /\ Top.goal \in Atoms /\ (Top.node \in world.provers) \in BOOLEAN
      BY <2>2 DEF Process
    <3>2. ASSUME NEW proved \in BOOLEAN
          PROVE  [node |-> Top.node, goal |-> Top.goal, proved |-> proved] \in Bundle
      BY <3>1 DEF Bundle
    <3> QED BY <2>2, <3>1, <3>2 DEF Process, OwnBundle
  <2>5. \A j \in DOMAIN Top.bundles : Says(Top.bundles[j].goal)
    BY <2>2 DEF ProcOK, Evident
  <2>6. outcome'.bundles = Response(Top) /\ outcome'.goal = Top.goal
    BY <2>1 DEF Answer
  <2> DEFINE own == OwnBundle(Top)
  <2> HIDE DEF own
  <2>7. /\ Append(Top.bundles, own) \in Seq(Bundle) /\ Len(Append(Top.bundles, own)) = Len(Top.bundles) + 1
        /\ Len(Top.bundles) \in Nat
        /\ Append(Top.bundles, own)[Len(Top.bundles) + 1] = own
        /\ \A j \in 1..Len(Top.bundles) : Append(Top.bundles, own)[j] = Top.bundles[j] /\ j \in DOMAIN Top.bundles
    BY <2>4 DEF own
  <2>8. outcome'.bundles = Append(Top.bundles, own)
    BY <2>3, <2>6 DEF own
  <2>9. Len(outcome'.bundles) = Len(Top.bundles) + 1
    BY <2>7, <2>8
  <2>10. Len(outcome'.bundles) - 1 = Len(Top.bundles) /\ Len(outcome'.bundles) > 0
    BY <2>7, <2>9
  <2>11. outcome'.bundles \in Seq(Bundle) /\ outcome'.bundles[Len(outcome'.bundles)].goal = outcome'.goal
    BY <2>4, <2>6, <2>7, <2>8, <2>9 DEF own
  <2>12. \A j \in 1..(Len(outcome'.bundles) - 1) : Says(outcome'.bundles[j].goal)
    BY <2>5, <2>7, <2>8, <2>10
  <2> QED BY <2>10, <2>11, <2>12 DEF Shaped
<1>2. CASE CallFails \/ NoAnswers \/ ImportFails \/ Lost
  BY <1>2 DEF CallFails, NoAnswers, ImportFails, Lost, Abort, Shaped, IsAnswer, Failed, Broken
<1>3. CASE outcome' = outcome
  BY <1>3
<1>4. \/ RespondToUser \/ CallFails \/ NoAnswers \/ ImportFails \/ Lost \/ outcome' = outcome
  BY DEF Next, Work, vars, Ask, Evaluate, StartWalk, Resume, NextClause, GoalDone, NextLiteral,
         ResolveLocal, CallNode, WalkDone, Respond, ImportBundle, ImportDone, Become
<1> QED BY <1>1, <1>2, <1>3, <1>4

-----------------------------------------------------------------------------
(* Replaying with negation                                                 *)

(* The deployment without the clauses that negate a given fact of their    *)
(* node: where only given facts are negated, what is left of a negated     *)
(* literal is settled before anything is fetched.                          *)
Refuted(w, n, c) == \E l \in LiteralsOf(c) : l.kind = "not" /\ l.atom \in Given(w, n)
Sifted(w) ==
  [prog |-> [n \in Nodes |-> [k \in {i \in DOMAIN w.prog[n] : ~ Refuted(w, n, w.prog[n][i])} |-> w.prog[n][k]]],
   reads |-> w.reads, replies |-> w.replies]

LEMMA SiftedClauses ==
  ASSUME NEW w, NEW n \in Nodes
  PROVE  Clauses(Sifted(w), n) = {c \in Clauses(w, n) : ~ Refuted(w, n, c)}
<1> DEFINE left == {i \in DOMAIN w.prog[n] : ~ Refuted(w, n, w.prog[n][i])}
<1>1. Sifted(w).prog[n] = [k \in left |-> w.prog[n][k]]
  BY DEF Sifted
<1>2. Clauses(Sifted(w), n) = {w.prog[n][k] : k \in left}
  BY <1>1 DEF Clauses
<1> QED BY <1>2 DEF Clauses

(* What one pass derives from facts that follow, follows, also past the    *)
(* negated literals: facts behind a clause with one hold the given facts.  *)
LEMMA PassSifted ==
  ASSUME NEW w \in Deployments, NegatesGivenFacts(w), NEW n \in Nodes, NEW given, NEW facts,
         facts # {} => Given(w, n) \subseteq facts,
         \A a \in facts : KeepsAt(Sifted(w), n, given, a)
  PROVE  \A a \in Derives(w, n, facts) : KeepsAt(Sifted(w), n, given, a)
<1> SUFFICES ASSUME NEW a \in Derives(w, n, facts), NEW S \in SUBSET Atoms,
                    given \subseteq S, StoresAt(Sifted(w), n, S)
             PROVE  a \in S
  BY DEF KeepsAt
<1>1. PICK c \in Clauses(w, n) : a = c.head /\ \A l \in LiteralsOf(c) : Holds(w, n, l, facts)
  BY DEF Derives
<1>0. Sifted(w).reads = w.reads /\ Sifted(w).replies = w.replies
  BY DEF Sifted
<1>2. \A l \in LiteralsOf(c) : HoldsUntested(Sifted(w), n, l, S)
  <2>1. facts \subseteq S
    BY DEF KeepsAt
  <2>2. Read(w, n, facts) \subseteq Read(Sifted(w), n, S)
    BY <1>0, <2>1 DEF Read
  <2> QED BY <1>0, <1>1, <2>2 DEF Holds, HoldsUntested
<1>3. ~ Refuted(w, n, c)
  <2> SUFFICES ASSUME NEW l \in LiteralsOf(c), l.kind = "not", l.atom \in Given(w, n) PROVE FALSE
    BY DEF Refuted
  <2>1. PICK k \in LiteralsOf(c) : k.kind = "atom"
    BY DEF NegatesGivenFacts
  <2>2. facts # {}
    BY <1>1, <2>1, ReadFound, ReadingTyped DEF Holds
  <2>3. l.atom \in facts
    BY <2>2
  <2> QED BY <1>1, <2>3 DEF Holds
<1>4. c \in Clauses(Sifted(w), n)
  BY <1>3, SiftedClauses
<1> QED BY <1>1, <1>2, <1>4 DEF StoresAt

SiftedChains == NegatesGivenFacts(world) => ChainsIn(Sifted(world))

LEMMA NextSifted ==
  ASSUME IInv, Stratified, SiftedChains, [Next]_vars
  PROVE  SiftedChains'
<1>1. world' = world
  BY NextWorld
<1> SUFFICES ASSUME NegatesGivenFacts(world), NEW s, s = Sifted(world) PROVE ChainsIn(s)'
  BY <1>1 DEF SiftedChains
<1>2. ChainsIn(s)
  BY DEF SiftedChains
<1>3. ASSUME depth > 0 PROVE PassKeepsIn(s)
  <2>1. Top.node \in Nodes /\ StratOK(world, Top) /\ world \in Deployments
    BY <1>3, TopOK DEF Stratified, Top, Process
  <2>2. Top.facts # {} => Given(world, Top.node) \subseteq Top.facts
    BY <2>1 DEF StratOK
  <2> QED BY <2>1, <2>2, PassSifted DEF PassKeepsIn
<1>4. s.reads = world.reads
  BY DEF Sifted
<1> QED BY <1>2, <1>3, <1>4, NextChainsIn

LEMMA SpecSifted == Spec => []SiftedChains
<1>1. Init => SiftedChains /\ Stratified
  BY DEF Init, SiftedChains, ChainsIn, Stratified, Pending, IsAnswer
<1> QED BY <1>1, NextStratified, NextSifted, SpecIInv, PTL DEF Spec

-----------------------------------------------------------------------------
(* The facts of a node, pass by pass                                       *)

(* f is the run of passes at n over what is given.                         *)
IsPasses(w, n, given, f) ==
  f = [i \in Nat |-> IF i = 0 THEN given ELSE LET last == f[i - 1] IN last \cup Derives(w, n, last)]

(* f is one up to the k-th pass.                                           *)
PassesTo(w, n, given, k, f) ==
  /\ f[0] = given
  /\ \A i \in 1..k : f[i] = f[i - 1] \cup Derives(w, n, f[i - 1])

(* A set of numbers with 0 in it and every next one holds all.             *)
LEMMA AllNumbers ==
  ASSUME NEW S, 0 \in S, \A k \in Nat : k \in S => k + 1 \in S
  PROVE  Nat \subseteq S
<1> DEFINE T == Nat \ S
<1> SUFFICES ASSUME T # {} PROVE FALSE
  OBVIOUS
<1>1. PICK m \in T : \A k \in T : ~ (<<k, m>> \in OpToRel(<, Nat))
  BY NatLessThanWellFounded, WFMin
<1>2. m \in Nat \ {0}
  BY <1>1
<1>3. m - 1 \in Nat /\ (m - 1) + 1 = m /\ m - 1 < m
  BY <1>2
<1>4. m - 1 \notin T
  BY <1>1, <1>2, <1>3 DEF OpToRel
<1> QED BY <1>1, <1>3, <1>4

LEMMA PassesAgree ==
  ASSUME NEW w, NEW n, NEW given, NEW k \in Nat, NEW f, PassesTo(w, n, given, k, f),
         NEW m \in Nat, NEW g, PassesTo(w, n, given, m, g)
  PROVE  \A i \in Nat : i <= k /\ i <= m => f[i] = g[i]
<1> DEFINE S == {i \in Nat : i <= k /\ i <= m => f[i] = g[i]}
<1>1. 0 \in S
  BY DEF PassesTo
<1>2. ASSUME NEW i \in Nat, i \in S PROVE i + 1 \in S
  <2> SUFFICES ASSUME i + 1 <= k, i + 1 <= m PROVE f[i + 1] = g[i + 1]
    OBVIOUS
  <2>1. i + 1 \in 1..k /\ i + 1 \in 1..m /\ (i + 1) - 1 = i /\ i <= k /\ i <= m
    OBVIOUS
  <2>2. f[i] = g[i]
    BY <1>2, <2>1
  <2>3. f[i + 1] = f[i] \cup Derives(w, n, f[i])
    BY <2>1 DEF PassesTo
  <2>4. g[i + 1] = g[i] \cup Derives(w, n, g[i])
    BY <2>1 DEF PassesTo
  <2> QED BY <2>2, <2>3, <2>4
<1> HIDE DEF S
<1>3. Nat \subseteq S
  BY <1>1, <1>2, AllNumbers
<1> QED BY <1>3 DEF S

LEMMA PassesReach ==
  ASSUME NEW w, NEW n, NEW given
  PROVE  \A k \in Nat : \E f : PassesTo(w, n, given, k, f)
<1> DEFINE S == {k \in Nat : \E f : PassesTo(w, n, given, k, f)}
<1>1. 0 \in S
  <2>1. PassesTo(w, n, given, 0, [i \in {0} |-> given])
    BY DEF PassesTo
  <2> QED BY <2>1
<1>2. ASSUME NEW k \in Nat, k \in S PROVE k + 1 \in S
  <2>1. PICK f : PassesTo(w, n, given, k, f)
    BY <1>2
  <2> DEFINE g == [i \in 0..(k + 1) |-> IF i = k + 1 THEN f[k] \cup Derives(w, n, f[k]) ELSE f[i]]
  <2>2. g[0] = given
    BY <2>1 DEF PassesTo
  <2>3. ASSUME NEW i \in 1..(k + 1) PROVE g[i] = g[i - 1] \cup Derives(w, n, g[i - 1])
    <3>1. i \in 0..(k + 1) /\ i - 1 \in 0..(k + 1) /\ i - 1 # k + 1
      OBVIOUS
    <3>2. g[i - 1] = f[i - 1]
      BY <3>1
    <3>3. CASE i = k + 1
      BY <3>1, <3>2, <3>3
    <3>4. CASE i # k + 1
      <4>1. i \in 1..k /\ g[i] = f[i]
        BY <3>1, <3>4
      <4>2. f[i] = f[i - 1] \cup Derives(w, n, f[i - 1])
        BY <2>1, <4>1 DEF PassesTo
      <4> HIDE DEF g
      <4> QED BY <3>2, <4>1, <4>2
    <3> QED BY <3>3, <3>4
  <2> HIDE DEF g
  <2>4. PassesTo(w, n, given, k + 1, g)
    BY <2>2, <2>3 DEF PassesTo
  <2> QED BY <2>4
<1> HIDE DEF S
<1>3. Nat \subseteq S
  BY <1>1, <1>2, AllNumbers
<1> QED BY <1>3 DEF S

LEMMA PassesExist ==
  ASSUME NEW w, NEW n, NEW given PROVE \E f : IsPasses(w, n, given, f)
<1> DEFINE upto(k) == CHOOSE f : PassesTo(w, n, given, k, f)
           h == [i \in Nat |-> upto(i)[i]]
           rhs(i) == IF i = 0 THEN given ELSE h[i - 1] \cup Derives(w, n, h[i - 1])
<1>1. ASSUME NEW k \in Nat PROVE PassesTo(w, n, given, k, upto(k))
  BY PassesReach
<1>2. ASSUME NEW i \in Nat PROVE h[i] = rhs(i)
  <2>1. CASE i = 0
    <3>1. upto(0)[0] = given
      BY <1>1 DEF PassesTo
    <3> QED BY <2>1, <3>1
  <2>2. CASE i # 0
    <3>1. i - 1 \in Nat /\ i - 1 <= i /\ i - 1 <= i - 1 /\ i \in 1..i
      BY <2>2
    <3> HIDE DEF upto
    <3>2. upto(i)[i] = upto(i)[i - 1] \cup Derives(w, n, upto(i)[i - 1])
      BY <1>1, <3>1 DEF PassesTo
    <3>3. upto(i)[i - 1] = upto(i - 1)[i - 1]
      BY <1>1, <3>1, PassesAgree
    <3>4. h[i] = upto(i)[i] /\ h[i - 1] = upto(i - 1)[i - 1]
      BY <3>1
    <3> HIDE DEF h
    <3> QED BY <2>2, <3>2, <3>3, <3>4
  <2> QED BY <2>1, <2>2
<1>3. h = [i \in Nat |-> h[i]]
  OBVIOUS
<1>4. h = [i \in Nat |-> rhs(i)]
  <2> HIDE DEF h, rhs
  <2> QED BY <1>2, <1>3
<1>5. IsPasses(w, n, given, h)
  <2> HIDE DEF h
  <2> QED BY <1>4 DEF IsPasses
<1> QED BY <1>5

(* After as many passes as there are atoms nothing new is derived: each    *)
(* pass before has stored a new one.                                       *)
LEMMA PassesSettle ==
  ASSUME IsFiniteSet(Atoms), NEW w \in Deployments, NEW n \in Nodes, NEW given \in SUBSET Atoms
  PROVE  /\ given \subseteq Local(w, n, given)
         /\ Local(w, n, given) \subseteq Atoms
         /\ Derives(w, n, Local(w, n, given)) \subseteq Local(w, n, given)
         /\ \A a \in Local(w, n, given) : a \in given \/ \E c \in Clauses(w, n) : c.head = a
<1> DEFINE f == CHOOSE g : IsPasses(w, n, given, g)
           N == Cardinality(Atoms)
           Ok(X) == /\ given \subseteq X /\ X \subseteq Atoms
                    /\ \A a \in X : a \in given \/ \E c \in Clauses(w, n) : c.head = a
           Still(X) == Derives(w, n, X) \subseteq X
           S == {i \in Nat : Ok(f[i]) /\ (Still(f[i]) \/ Cardinality(f[i]) >= i)}
<1>1. IsPasses(w, n, given, f)
  BY PassesExist
<1>2. Local(w, n, given) = f[N]
  BY DEF Local, IsPasses
<1>3. /\ f[0] = given
      /\ \A i \in Nat : f[i + 1] = f[i] \cup Derives(w, n, f[i])
  <2> HIDE DEF f
  <2>1. \A i \in Nat : i + 1 \in Nat /\ i + 1 # 0 /\ (i + 1) - 1 = i
    OBVIOUS
  <2> QED BY <1>1, <2>1 DEF IsPasses
<1>4. N \in Nat
  BY FS_CardinalityType
<1>5. \A X : Derives(w, n, X) \subseteq Atoms /\ \A a \in Derives(w, n, X) : \E c \in Clauses(w, n) : c.head = a
  BY ProgramTyped DEF Derives, Clause
<1> HIDE DEF f, N
<1>6. 0 \in S
  <2>1. Cardinality(given) \in Nat
    BY FS_Subset, FS_CardinalityType
  <2> QED BY <1>3, <2>1
<1>7. ASSUME NEW i \in Nat, i \in S PROVE i + 1 \in S
  <2> DEFINE X == f[i]
             Y == f[i + 1]
  <2>1. Y = X \cup Derives(w, n, X)
    BY <1>3
  <2>2. Ok(X) /\ (Still(X) \/ Cardinality(X) >= i)
    BY <1>7
  <2> HIDE DEF X, Y
  <2>3. Ok(Y)
    BY <1>5, <2>1, <2>2
  <2>4. CASE Still(X)
    <3>1. Y = X
      BY <2>1, <2>4
    <3> QED BY <2>2, <2>3, <2>4, <3>1 DEF X, Y
  <2>5. CASE ~ Still(X)
    <3>1. X \in SUBSET Y /\ X # Y /\ Y \in SUBSET Atoms
      BY <2>1, <2>3, <2>5
    <3>2. IsFiniteSet(Y) /\ IsFiniteSet(X)
      BY <3>1, FS_Subset
    <3>3. Cardinality(X) <= Cardinality(Y) /\ Cardinality(X) # Cardinality(Y)
      BY <3>1, <3>2, FS_Subset
    <3>4. Cardinality(X) \in Nat /\ Cardinality(Y) \in Nat
      BY <3>2, FS_CardinalityType
    <3>5. Cardinality(X) >= i
      BY <2>2, <2>5
    <3>6. Cardinality(Y) >= i + 1
      BY <3>3, <3>4, <3>5
    <3> QED BY <2>3, <3>6 DEF Y
  <2> QED BY <2>4, <2>5
<1>8. N \in S
  <2> HIDE DEF S
  <2> QED BY <1>4, <1>6, <1>7, AllNumbers
<1>9. Still(f[N])
  <2>1. CASE Cardinality(f[N]) >= N
    <3>1. f[N] \in SUBSET Atoms
      BY <1>8
    <3>2. Cardinality(f[N]) <= N /\ Cardinality(f[N]) \in Nat
      BY <3>1, FS_Subset, FS_CardinalityType DEF N
    <3>3. Cardinality(Atoms) = Cardinality(f[N])
      BY <1>4, <2>1, <3>2 DEF N
    <3>4. f[N] = Atoms
      BY <3>1, <3>3, FS_Subset
    <3> QED BY <1>5, <3>4
  <2> QED BY <1>8, <2>1
<1> QED BY <1>2, <1>8, <1>9

(* What follows from statements is found pass by pass: in the end only     *)
(* given facts of what is negated are stored.                              *)
LEMMA LocalFinds ==
  ASSUME IsFiniteSet(Atoms), NEW w \in Deployments, NegatesOwnFacts(w), NEW n \in Nodes,
         NEW given \in SUBSET Atoms, \A a \in given : Says(a),
         NEW a, FindsAt(Sifted(w), n, given, a)
  PROVE  a \in Read(w, n, Local(w, n, given))
<1> DEFINE L == Local(w, n, given)
<1>1. /\ given \subseteq L /\ L \subseteq Atoms /\ Derives(w, n, L) \subseteq L
      /\ \A x \in L : x \in given \/ \E c \in Clauses(w, n) : c.head = x
  BY PassesSettle
<1> HIDE DEF L
<1>0. Sifted(w).reads = w.reads /\ Sifted(w).replies = w.replies
  BY DEF Sifted
<1>2. ASSUME NEW c \in Clauses(Sifted(w), n),
             \A l \in LiteralsOf(c) : HoldsUntested(Sifted(w), n, l, L)
      PROVE  c.head \in L
  <2>1. c \in Clauses(w, n) /\ ~ Refuted(w, n, c)
    BY SiftedClauses
  <2>2. ASSUME NEW l \in LiteralsOf(c) PROVE Holds(w, n, l, L)
    <3>1. CASE l.kind = "not"
      <4>1. l.atom \notin Given(w, n) /\ ~ Says(l.atom)
        BY <2>1, <3>1 DEF Refuted, NegatesOwnFacts
      <4>2. \A d \in Clauses(w, n) : d.head # l.atom
        BY <2>1, <3>1, <4>1 DEF NegatesOwnFacts, NegatesGivenFacts, Given, Rules
      <4>3. l.atom \notin L
        BY <1>1, <4>1, <4>2
      <4> QED BY <3>1, <4>3 DEF Holds
    <3>2. CASE l.kind # "not"
      <4>1. Read(Sifted(w), n, L) = Read(w, n, L)
        BY <1>0 DEF Read
      <4> QED BY <1>0, <1>2, <3>2, <4>1 DEF Holds, HoldsUntested
    <3> QED BY <3>1, <3>2
  <2> QED BY <1>1, <2>1, <2>2 DEF Derives
<1>3. StoresAt(Sifted(w), n, L)
  BY <1>2 DEF StoresAt
<1>4. a \in Read(Sifted(w), n, L)
  BY <1>1, <1>3 DEF FindsAt
<1> QED BY <1>0, <1>4 DEF L, Read

(* README.md 59-60, architecture.md 148: where only facts a node's own     *)
(* program gives are negated, an answer's bundles can be checked one after *)
(* the other by running each node's program, pass by pass, over the goals  *)
(* of the bundles before it, and the last one is the answer's own, however *)
(* the query wandered.                                                     *)
THEOREM QueryChainReplays ==
  IsFiniteSet(Atoms) => (Spec => [](NegatesOwnFacts(world) => ChainReplays))
<1> SUFFICES ASSUME IsFiniteSet(Atoms) PROVE Spec => [](NegatesOwnFacts(world) => ChainReplays)
  OBVIOUS
<1>1. ASSUME IInv, Shaped(outcome), SiftedChains, NegatesOwnFacts(world), IsAnswer(outcome)
      PROVE  ChainReplays
  <2> DEFINE list == outcome.bundles
  <2>1. /\ list \in Seq(Bundle) /\ Len(list) > 0 /\ list[Len(list)].goal = outcome.goal
        /\ \A j \in 1..(Len(list) - 1) : Says(list[j].goal)
    BY <1>1 DEF Shaped
  <2>2. FoundFrom(Sifted(world), {}, list) /\ world \in Deployments
    BY <1>1 DEF SiftedChains, ChainsIn, NegatesOwnFacts, IInv
  <2> HIDE DEF list
  <2>3. ASSUME NEW i \in DOMAIN list
        PROVE  list[i].goal \in Read(world, list[i].node,
                                     Local(world, list[i].node, {list[j].goal : j \in 1..(i - 1)}))
    <3> DEFINE given == {list[j].goal : j \in 1..(i - 1)}
    <3>1. \A j \in DOMAIN list : list[j] \in Bundle
      BY <2>1
    <3>2. list[i].node \in Nodes /\ \A j \in DOMAIN list : list[j].goal \in Atoms
      BY <3>1 DEF Bundle
    <3>3. \A j \in 1..(i - 1) : j \in DOMAIN list /\ j \in 1..(Len(list) - 1)
      BY <2>1
    <3>4. given \in SUBSET Atoms /\ \A a \in given : Says(a)
      BY <2>1, <3>2, <3>3
    <3>5. FindsAt(Sifted(world), list[i].node, {} \cup GoalsBefore(list, i), list[i].goal)
      BY <2>2 DEF FoundFrom
    <3>6. given = {} \cup GoalsBefore(list, i)
      BY DEF GoalsBefore
    <3>7. FindsAt(Sifted(world), list[i].node, given, list[i].goal)
      <4> HIDE DEF given
      <4> QED BY <3>5, <3>6
    <3> HIDE DEF given
    <3>8. list[i].goal \in Read(world, list[i].node, Local(world, list[i].node, given))
      BY <1>1, <2>2, <3>2, <3>4, <3>7, LocalFinds
    <3> QED BY <3>8 DEF given
  <2> QED BY <2>1, <2>3 DEF ChainReplays, list
<1>2. IInv /\ Shaped(outcome) /\ SiftedChains => (NegatesOwnFacts(world) => ChainReplays)
  BY <1>1 DEF ChainReplays
<1>3. Init => Shaped(outcome)
  BY DEF Init, Shaped, Pending, IsAnswer
<1>4. IInv /\ Running /\ Shaped(outcome) /\ [Next]_vars => Shaped(outcome')
  BY NextShaped
<1> DEFINE Sh == Shaped(outcome)
<1>5. IInv /\ Running /\ Sh /\ [Next]_vars => Sh'
  BY <1>4
<1>6. Init => Sh
  BY <1>3
<1>7. IInv /\ Sh /\ SiftedChains => (NegatesOwnFacts(world) => ChainReplays)
  BY <1>2
<1> HIDE DEF Sh
<1> QED BY <1>5, <1>6, <1>7, SpecIInv, SpecRunning, SpecSifted, PTL DEF Spec

-----------------------------------------------------------------------------
(* Why queries end                                                         *)

(* What is left of a walk at frame f of process p; nothing is less than a  *)
(* frame with nothing left.                                                *)
ClausesLeft(w, p, f) ==
  IF f.clause <= Len(ProgOf(w, p)) THEN Len(ProgOf(w, p)) - f.clause + 2 ELSE 1
LiteralsLeft(w, p, f) ==
  IF f.clause <= Len(ProgOf(w, p)) /\ f.literal <= Len(ProgOf(w, p)[f.clause].body)
  THEN Len(ProgOf(w, p)[f.clause].body) - f.literal + 1 ELSE 0
FrameRank(w, p, f) == <<ClausesLeft(w, p, f), LiteralsLeft(w, p, f)>>
Goals == Cardinality(Atoms)
StackRank(w, p) ==
  [k \in 1..Goals |-> IF k \in DOMAIN p.stack THEN FrameRank(w, p, p.stack[k]) ELSE <<0, 0>>]
PcRank(pc) ==
  CASE pc = "load" -> 5 [] pc = "rerun" -> 4 [] pc = "walk" -> 3
    [] pc = "wait" -> 2 [] pc = "import" -> 1 [] OTHER -> 0

(* What a process has still to do: goals it has not visited, then what is  *)
(* left of the frames, outer ones first, then the phases after this one,   *)
(* the atoms it may store and the bundles to import.                       *)
ProcessRank(w, p) ==
  <<Atoms \ p.visited,
    <<StackRank(w, p), <<PcRank(p.pc), <<Atoms \ p.facts, Len(p.reply)>> >> >> >>

Less == OpToRel(<, Nat)
Fewer == StrictSubsetOrdering(Atoms)
FrameOrder == LexPairOrdering(Less, Less, Nat, Nat)
StackOrder == LexProductOrdering(FrameOrder, Nat \X Nat, Goals)
Stacks == [1..Goals -> Nat \X Nat]
TailOrder == LexPairOrdering(Fewer, Less, FiniteSubsetsOf(Atoms), Nat)
Tails == FiniteSubsetsOf(Atoms) \X Nat
PhaseOrder == LexPairOrdering(Less, TailOrder, Nat, Tails)
Phases == Nat \X Tails
WorkOrder == LexPairOrdering(StackOrder, PhaseOrder, Stacks, Phases)
Works == Stacks \X Phases
ProcessOrder == LexPairOrdering(Fewer, WorkOrder, FiniteSubsetsOf(Atoms), Works)
ProcessRanks == FiniteSubsetsOf(Atoms) \X Works

LEMMA ProcessOrderWellFounded ==
  ASSUME IsFiniteSet(Atoms) PROVE IsWellFoundedOn(ProcessOrder, ProcessRanks)
<1>1. IsWellFoundedOn(Less, Nat)
  BY NatLessThanWellFounded DEF Less
<1>2. IsWellFoundedOn(Fewer, FiniteSubsetsOf(Atoms))
  BY FS_StrictSubsetOrderingWellFounded DEF Fewer
<1>3. Goals \in Nat
  BY FS_CardinalityType DEF Goals
<1>4. IsWellFoundedOn(FrameOrder, Nat \X Nat)
  BY <1>1, WFLexPairOrdering DEF FrameOrder
<1>5. IsWellFoundedOn(StackOrder, Stacks)
  BY <1>3, <1>4, WFLexProductOrdering DEF StackOrder, Stacks
<1>6. IsWellFoundedOn(TailOrder, Tails)
  BY <1>1, <1>2, WFLexPairOrdering DEF TailOrder, Tails
<1>7. IsWellFoundedOn(PhaseOrder, Phases)
  BY <1>1, <1>6, WFLexPairOrdering DEF PhaseOrder, Phases
<1>8. IsWellFoundedOn(WorkOrder, Works)
  BY <1>5, <1>7, WFLexPairOrdering DEF WorkOrder, Works
<1> QED BY <1>2, <1>8, WFLexPairOrdering DEF ProcessOrder, ProcessRanks

LEMMA LexFirst ==
  ASSUME NEW R1, NEW R2, NEW S1, NEW S2, NEW a \in S1, NEW b \in S2, NEW c \in S1, NEW d \in S2,
         <<a, c>> \in R1
  PROVE  << <<a, b>>, <<c, d>> >> \in LexPairOrdering(R1, R2, S1, S2)
BY DEF LexPairOrdering
LEMMA LexSecond ==
  ASSUME NEW R1, NEW R2, NEW S1, NEW S2, NEW a \in S1, NEW b \in S2, NEW d \in S2, <<b, d>> \in R2
  PROVE  << <<a, b>>, <<a, d>> >> \in LexPairOrdering(R1, R2, S1, S2)
BY DEF LexPairOrdering

(* The parts of the rank of a process.                                     *)
FrameRankOK(w, p) ==
  \A f \in Frame : ClausesLeft(w, p, f) \in Nat \ {0} /\ LiteralsLeft(w, p, f) \in Nat

LEMMA FrameRankTyped ==
  ASSUME NEW w \in Deployments, NEW p \in Process PROVE FrameRankOK(w, p)
<1> SUFFICES ASSUME NEW f \in Frame
             PROVE  ClausesLeft(w, p, f) \in Nat \ {0} /\ LiteralsLeft(w, p, f) \in Nat
  BY DEF FrameRankOK
<1>1. p.node \in Nodes
  BY DEF Process
<1>2. ProgOf(w, p) \in Seq(Clause) /\ Len(ProgOf(w, p)) \in Nat
  BY <1>1, ProgramTyped DEF ProgOf
<1>3. f.clause \in Nat \ {0} /\ f.literal \in Nat \ {0}
  BY DEF Frame
<1>4. ClausesLeft(w, p, f) \in Nat \ {0}
  BY <1>2, <1>3 DEF ClausesLeft
<1>5. CASE f.clause <= Len(ProgOf(w, p))
  <2>1. ProgOf(w, p)[f.clause] \in Clause
    BY <1>2, <1>3, <1>5
  <2>2. Len(ProgOf(w, p)[f.clause].body) \in Nat
    BY <2>1 DEF Clause
  <2> QED BY <1>3, <1>4, <2>2 DEF LiteralsLeft
<1> QED BY <1>4, <1>5 DEF LiteralsLeft

LEMMA RankTyped ==
  ASSUME IsFiniteSet(Atoms), NEW w \in Deployments, NEW p \in Process
  PROVE  /\ Atoms \ p.visited \in FiniteSubsetsOf(Atoms) /\ Atoms \ p.facts \in FiniteSubsetsOf(Atoms)
         /\ StackRank(w, p) \in Stacks /\ PcRank(p.pc) \in Nat /\ Len(p.reply) \in Nat
         /\ ProcessRank(w, p) \in ProcessRanks
<1>1. Atoms \ p.visited \in FiniteSubsetsOf(Atoms) /\ Atoms \ p.facts \in FiniteSubsetsOf(Atoms)
  BY FS_Subset DEF FiniteSubsetsOf
<1>2. p.stack \in Seq(Frame) /\ p.reply \in Seq(Bundle)
  BY DEF Process
<1>3. \A k \in DOMAIN p.stack : FrameRank(w, p, p.stack[k]) \in Nat \X Nat
  <2>1. \A k \in DOMAIN p.stack : p.stack[k] \in Frame
    BY <1>2
  <2> QED BY <2>1, FrameRankTyped DEF FrameRankOK, FrameRank
<1>4. StackRank(w, p) \in Stacks
  BY <1>3 DEF StackRank, Stacks
<1>5. PcRank(p.pc) \in Nat
  BY DEF PcRank
<1>6. Len(p.reply) \in Nat
  BY <1>2
<1> QED BY <1>1, <1>4, <1>5, <1>6 DEF ProcessRank, ProcessRanks, Works, Phases, Tails

Descends(w, p, q) == <<ProcessRank(w, q), ProcessRank(w, p)>> \in ProcessOrder

LEMMA VisitedDescends ==
  ASSUME IsFiniteSet(Atoms), NEW w \in Deployments, NEW p \in Process, NEW q \in Process,
         p.visited \subseteq q.visited, p.visited # q.visited
  PROVE  Descends(w, p, q)
<1>1. <<Atoms \ q.visited, Atoms \ p.visited>> \in Fewer
  <2>1. p.visited \subseteq Atoms /\ q.visited \subseteq Atoms
    BY DEF Process
  <2> QED BY <2>1 DEF Fewer, StrictSubsetOrdering
<1>2. /\ <<StackRank(w, p), <<PcRank(p.pc), <<Atoms \ p.facts, Len(p.reply)>> >> >> \in Works
      /\ <<StackRank(w, q), <<PcRank(q.pc), <<Atoms \ q.facts, Len(q.reply)>> >> >> \in Works
  BY RankTyped DEF Works, Phases, Tails
<1>3. Atoms \ p.visited \in FiniteSubsetsOf(Atoms) /\ Atoms \ q.visited \in FiniteSubsetsOf(Atoms)
  BY RankTyped
<1> QED BY <1>1, <1>2, <1>3, LexFirst DEF Descends, ProcessRank, ProcessOrder

LEMMA StackDescends ==
  ASSUME IsFiniteSet(Atoms), NEW w \in Deployments, NEW p \in Process, NEW q \in Process,
         q.visited = p.visited, <<StackRank(w, q), StackRank(w, p)>> \in StackOrder
  PROVE  Descends(w, p, q)
<1>1. /\ <<PcRank(p.pc), <<Atoms \ p.facts, Len(p.reply)>> >> \in Phases
      /\ <<PcRank(q.pc), <<Atoms \ q.facts, Len(q.reply)>> >> \in Phases
  BY RankTyped DEF Phases, Tails
<1>2. StackRank(w, p) \in Stacks /\ StackRank(w, q) \in Stacks /\ Atoms \ p.visited \in FiniteSubsetsOf(Atoms)
  BY RankTyped
<1>3. << <<StackRank(w, q), <<PcRank(q.pc), <<Atoms \ q.facts, Len(q.reply)>> >> >>,
         <<StackRank(w, p), <<PcRank(p.pc), <<Atoms \ p.facts, Len(p.reply)>> >> >> >> \in WorkOrder
  BY <1>1, <1>2, LexFirst DEF WorkOrder
<1>4. /\ <<StackRank(w, p), <<PcRank(p.pc), <<Atoms \ p.facts, Len(p.reply)>> >> >> \in Works
      /\ <<StackRank(w, q), <<PcRank(q.pc), <<Atoms \ q.facts, Len(q.reply)>> >> >> \in Works
  BY <1>1, <1>2 DEF Works
<1> QED BY <1>2, <1>3, <1>4, LexSecond DEF Descends, ProcessRank, ProcessOrder

(* The walk where it was, and less of the rest.                            *)
LEMMA PhaseDescends ==
  ASSUME IsFiniteSet(Atoms), NEW w \in Deployments, NEW p \in Process, NEW q \in Process,
         q.visited = p.visited, q.node = p.node, q.stack = p.stack,
         << <<PcRank(q.pc), <<Atoms \ q.facts, Len(q.reply)>> >>,
            <<PcRank(p.pc), <<Atoms \ p.facts, Len(p.reply)>> >> >> \in PhaseOrder
  PROVE  Descends(w, p, q)
<1> DEFINE u == <<PcRank(q.pc), <<Atoms \ q.facts, Len(q.reply)>> >>
           v == <<PcRank(p.pc), <<Atoms \ p.facts, Len(p.reply)>> >>
<1>1. u \in Phases /\ v \in Phases /\ <<u, v>> \in PhaseOrder
  BY RankTyped DEF Phases, Tails
<1>2. StackRank(w, p) \in Stacks /\ Atoms \ p.visited \in FiniteSubsetsOf(Atoms)
  BY RankTyped
<1>3. StackRank(w, q) = StackRank(w, p)
  BY DEF StackRank, FrameRank, ClausesLeft, LiteralsLeft, ProgOf
<1>4. ProcessRank(w, q) = <<Atoms \ p.visited, <<StackRank(w, p), u>> >>
      /\ ProcessRank(w, p) = <<Atoms \ p.visited, <<StackRank(w, p), v>> >>
  BY <1>3 DEF ProcessRank
<1> HIDE DEF u, v
<1>5. << <<StackRank(w, p), u>>, <<StackRank(w, p), v>> >> \in WorkOrder
  BY <1>1, <1>2, LexSecond DEF WorkOrder
<1>6. <<StackRank(w, p), u>> \in Works /\ <<StackRank(w, p), v>> \in Works
  BY <1>1, <1>2 DEF Works
<1> QED BY <1>2, <1>4, <1>5, <1>6, LexSecond DEF Descends, ProcessOrder

LEMMA PcDescends ==
  ASSUME IsFiniteSet(Atoms), NEW w \in Deployments, NEW p \in Process, NEW q \in Process,
         q.visited = p.visited, q.node = p.node, q.stack = p.stack, PcRank(q.pc) < PcRank(p.pc)
  PROVE  Descends(w, p, q)
<1>1. <<PcRank(q.pc), PcRank(p.pc)>> \in Less /\ PcRank(p.pc) \in Nat /\ PcRank(q.pc) \in Nat
  BY RankTyped DEF Less, OpToRel
<1>2. <<Atoms \ p.facts, Len(p.reply)>> \in Tails /\ <<Atoms \ q.facts, Len(q.reply)>> \in Tails
  BY RankTyped DEF Tails
<1>3. << <<PcRank(q.pc), <<Atoms \ q.facts, Len(q.reply)>> >>,
         <<PcRank(p.pc), <<Atoms \ p.facts, Len(p.reply)>> >> >> \in PhaseOrder
  BY <1>1, <1>2, LexFirst DEF PhaseOrder
<1> QED BY <1>3, PhaseDescends

LEMMA TailDescends ==
  ASSUME IsFiniteSet(Atoms), NEW w \in Deployments, NEW p \in Process, NEW q \in Process,
         q.visited = p.visited, q.node = p.node, q.stack = p.stack, q.pc = p.pc,
         \/ p.facts \subseteq q.facts /\ p.facts # q.facts
         \/ p.facts = q.facts /\ Len(q.reply) < Len(p.reply)
  PROVE  Descends(w, p, q)
<1>1. /\ Atoms \ p.facts \in FiniteSubsetsOf(Atoms) /\ Atoms \ q.facts \in FiniteSubsetsOf(Atoms)
      /\ Len(p.reply) \in Nat /\ Len(q.reply) \in Nat /\ PcRank(p.pc) \in Nat
  BY RankTyped
<1>2. << <<Atoms \ q.facts, Len(q.reply)>>, <<Atoms \ p.facts, Len(p.reply)>> >> \in TailOrder
  <2>1. CASE p.facts \subseteq q.facts /\ p.facts # q.facts
    <3>1. p.facts \subseteq Atoms /\ q.facts \subseteq Atoms
      BY DEF Process
    <3>2. <<Atoms \ q.facts, Atoms \ p.facts>> \in Fewer
      BY <2>1, <3>1 DEF Fewer, StrictSubsetOrdering
    <3> QED BY <1>1, <3>2, LexFirst DEF TailOrder
  <2>2. CASE p.facts = q.facts /\ Len(q.reply) < Len(p.reply)
    <3>1. <<Len(q.reply), Len(p.reply)>> \in Less
      BY <1>1, <2>2 DEF Less, OpToRel
    <3> QED BY <1>1, <2>2, <3>1, LexSecond DEF TailOrder
  <2> QED BY <2>1, <2>2
<1>3. <<Atoms \ p.facts, Len(p.reply)>> \in Tails /\ <<Atoms \ q.facts, Len(q.reply)>> \in Tails
  BY <1>1 DEF Tails
<1>4. << <<PcRank(q.pc), <<Atoms \ q.facts, Len(q.reply)>> >>,
         <<PcRank(p.pc), <<Atoms \ p.facts, Len(p.reply)>> >> >> \in PhaseOrder
  BY <1>1, <1>2, <1>3, LexSecond DEF PhaseOrder
<1> QED BY <1>4, PhaseDescends

(* No goal open twice: no more frames than goals.                          *)
LEMMA StackBounded ==
  ASSUME IsFiniteSet(Atoms), NEW p \in Process, WalkOK(p)
  PROVE  Len(p.stack) \in Nat /\ Len(p.stack) <= Goals /\ DOMAIN p.stack = 1..Len(p.stack)
<1>1. p.stack \in Seq(Frame)
  BY DEF Process
<1>2. Len(p.stack) \in Nat /\ DOMAIN p.stack = 1..Len(p.stack)
  BY <1>1
<1>3. \A k \in 1..Len(p.stack) : p.stack[k].goal \in Atoms
  <2>1. \A k \in 1..Len(p.stack) : p.stack[k] \in Frame
    BY <1>1
  <2> QED BY <2>1 DEF Frame
<1> DEFINE S == 1..Len(p.stack)
           g == [k \in S |-> p.stack[k].goal]
<1>4. g \in [S -> Atoms]
  BY <1>3
<1>5. \A j, k \in S : g[j] = g[k] => j = k
  BY <1>2 DEF WalkOK
<1>6. IsFiniteSet(S) /\ Cardinality(S) = Len(p.stack)
  <2>1. Len(p.stack) \in Int /\ 1 \in Int
    BY <1>2
  <2>2. IsFiniteSet(S) /\ Cardinality(S) = IF 1 > Len(p.stack) THEN 0 ELSE Len(p.stack) - 1 + 1
    BY <2>1, FS_Interval
  <2>3. CASE Len(p.stack) = 0
    BY <2>2, <2>3
  <2>4. CASE Len(p.stack) # 0
    BY <1>2, <2>2, <2>4
  <2> QED BY <2>3, <2>4
<1>7. Goals \in Nat
  BY FS_CardinalityType DEF Goals
<1> HIDE DEF g, S
<1>8. ~ (Cardinality(Atoms) < Cardinality(S))
  BY <1>4, <1>5, <1>6, FS_PigeonHole
<1> QED BY <1>2, <1>6, <1>7, <1>8 DEF Goals

(* Less left of the innermost frame, or that frame gone.                   *)
LEMMA TopDescends ==
  ASSUME IsFiniteSet(Atoms), NEW w \in Deployments, NEW p \in Process, NEW q \in Process,
         q.node = p.node, NEW n \in 1..Goals, n \in DOMAIN p.stack,
         \A k \in 1..(n - 1) : k \in DOMAIN p.stack /\ k \in DOMAIN q.stack /\ q.stack[k] = p.stack[k],
         \/ n \notin DOMAIN q.stack
         \/ n \in DOMAIN q.stack /\ <<FrameRank(w, p, q.stack[n]), FrameRank(w, p, p.stack[n])>> \in FrameOrder
  PROVE  <<StackRank(w, q), StackRank(w, p)>> \in StackOrder
<1> DEFINE u == StackRank(w, q)
           v == StackRank(w, p)
<1>1. u \in Stacks /\ v \in Stacks
  BY RankTyped
<1>2. Goals \in Nat /\ n \in Nat /\ 1..(n - 1) \subseteq 1..Goals
  BY FS_CardinalityType DEF Goals
<1>3. \A f : FrameRank(w, q, f) = FrameRank(w, p, f)
  BY DEF FrameRank, ClausesLeft, LiteralsLeft, ProgOf
<1>4. \A k \in 1..(n - 1) : u[k] = v[k]
  BY <1>2, <1>3 DEF StackRank
<1>5. <<u[n], v[n]>> \in FrameOrder
  <2>1. v[n] = FrameRank(w, p, p.stack[n])
    BY DEF StackRank
  <2>2. CASE n \in DOMAIN q.stack
    <3>1. u[n] = FrameRank(w, p, q.stack[n])
      BY <1>3, <2>2 DEF StackRank
    <3> QED BY <2>1, <2>2, <3>1
  <2>3. CASE n \notin DOMAIN q.stack
    <3>1. u[n] = <<0, 0>>
      BY <2>3 DEF StackRank
    <3>2. p.stack[n] \in Frame
      <4>1. p.stack \in Seq(Frame)
        BY DEF Process
      <4> QED BY <4>1
    <3>3. ClausesLeft(w, p, p.stack[n]) \in Nat \ {0} /\ LiteralsLeft(w, p, p.stack[n]) \in Nat
      BY <3>2, FrameRankTyped DEF FrameRankOK
    <3>4. <<0, ClausesLeft(w, p, p.stack[n])>> \in Less
      BY <3>3 DEF Less, OpToRel
    <3> QED BY <2>1, <3>1, <3>3, <3>4, LexFirst DEF FrameRank, FrameOrder
  <2> QED BY <2>2, <2>3
<1> HIDE DEF u, v
<1>6. u \in [1..Goals -> Nat \X Nat] /\ v \in [1..Goals -> Nat \X Nat]
  BY <1>1 DEF Stacks
<1>7. <<u, v>> \in StackOrder
  BY <1>4, <1>5, <1>6 DEF StackOrder, LexProductOrdering
<1> QED BY <1>7 DEF u, v

(* One literal on, or one clause.                                          *)
LEMMA FrameDescends ==
  ASSUME NEW w \in Deployments, NEW p \in Process, NEW f \in Frame, f.clause <= Len(ProgOf(w, p)),
         NEW g \in {[f EXCEPT !.literal = @ + 1], [f EXCEPT !.clause = @ + 1, !.literal = 1]},
         g.clause = f.clause => f.literal <= Len(ProgOf(w, p)[f.clause].body)
  PROVE  <<FrameRank(w, p, g), FrameRank(w, p, f)>> \in FrameOrder
<1>1. ProgOf(w, p) \in Seq(Clause) /\ Len(ProgOf(w, p)) \in Nat
  <2>1. p.node \in Nodes
    BY DEF Process
  <2>2. ProgOf(w, p) \in Seq(Clause)
    BY <2>1, ProgramTyped DEF ProgOf
  <2> QED BY <2>2
<1>2. f.clause \in Nat \ {0} /\ f.literal \in Nat \ {0}
  BY DEF Frame
<1>3. g \in Frame
  <2>1. f.clause + 1 \in Nat \ {0} /\ f.literal + 1 \in Nat \ {0} /\ 1 \in Nat \ {0}
    BY <1>2
  <2>2. \A c, l \in Nat \ {0} : [f EXCEPT !.clause = c, !.literal = l] \in Frame /\ [f EXCEPT !.literal = l] \in Frame
    BY DEF Frame
  <2> QED BY <2>1, <2>2
<1>4. /\ ClausesLeft(w, p, f) \in Nat \ {0} /\ LiteralsLeft(w, p, f) \in Nat
      /\ ClausesLeft(w, p, g) \in Nat \ {0} /\ LiteralsLeft(w, p, g) \in Nat
  BY <1>3, FrameRankTyped DEF FrameRankOK
<1>5. CASE g = [f EXCEPT !.literal = @ + 1]
  <2>1. g.clause = f.clause /\ g.literal = f.literal + 1
    BY <1>5 DEF Frame
  <2>2. ClausesLeft(w, p, g) = ClausesLeft(w, p, f)
    BY <2>1 DEF ClausesLeft
  <2>3. f.literal <= Len(ProgOf(w, p)[f.clause].body)
    BY <2>1
  <2>4. Len(ProgOf(w, p)[f.clause].body) \in Nat
    <3>1. ProgOf(w, p)[f.clause] \in Clause
      BY <1>1, <1>2
    <3> QED BY <3>1 DEF Clause
  <2>5. LiteralsLeft(w, p, g) < LiteralsLeft(w, p, f)
    BY <1>2, <2>1, <2>3, <2>4 DEF LiteralsLeft
  <2>6. <<LiteralsLeft(w, p, g), LiteralsLeft(w, p, f)>> \in Less
    BY <1>4, <2>5 DEF Less, OpToRel
  <2> QED BY <1>4, <2>2, <2>6, LexSecond DEF FrameRank, FrameOrder
<1>6. CASE g = [f EXCEPT !.clause = @ + 1, !.literal = 1]
  <2>1. g.clause = f.clause + 1
    BY <1>6 DEF Frame
  <2>2. ClausesLeft(w, p, g) < ClausesLeft(w, p, f)
    BY <1>1, <1>2, <2>1 DEF ClausesLeft
  <2>3. <<ClausesLeft(w, p, g), ClausesLeft(w, p, f)>> \in Less
    BY <1>4, <2>2 DEF Less, OpToRel
  <2> QED BY <1>4, <2>3, LexFirst DEF FrameRank, FrameOrder
<1> QED BY <1>5, <1>6

(* Past a literal, a clause or a goal there is less left of the walk.      *)
Inner(w, p, q) ==
  q \in Process /\ q.visited = p.visited /\ <<StackRank(w, q), StackRank(w, p)>> \in StackOrder
LEMMA PastInner ==
  ASSUME IsFiniteSet(Atoms), NEW w \in Deployments, NEW p \in Process, p.stack # <<>>, WalkOK(p)
  PROVE  /\ Placed(w, p) => Inner(w, p, PastLiteral(p))
         /\ FrameOf(p).clause <= Len(ProgOf(w, p)) => Inner(w, p, PastClause(p))
         /\ Inner(w, p, PastGoal(p))
<1> DEFINE n == Len(p.stack)
           f == FrameOf(p)
<1>1. p.stack \in Seq(Frame) /\ f = p.stack[n] /\ f \in Frame
  BY DEF Process, FrameOf
<1>2. n \in 1..Goals /\ n \in DOMAIN p.stack /\ \A k \in 1..(n - 1) : k \in DOMAIN p.stack /\ k # n
  BY <1>1, StackBounded, FS_CardinalityType DEF Goals
<1>3. ASSUME NEW g \in {[f EXCEPT !.literal = @ + 1], [f EXCEPT !.clause = @ + 1, !.literal = 1]},
             f.clause <= Len(ProgOf(w, p)),
             g.clause = f.clause => f.literal <= Len(ProgOf(w, p)[f.clause].body),
             PutFrame(p, g) \in Process
      PROVE  Inner(w, p, PutFrame(p, g))
  <2> DEFINE q == PutFrame(p, g)
  <2>1. g.goal = f.goal
    BY <1>1 DEF Frame
  <2>2. q.node = p.node /\ q.visited = p.visited /\ q.stack = [p.stack EXCEPT ![n] = g]
    BY <2>1, PutFrameFields
  <2>3. DOMAIN q.stack = DOMAIN p.stack /\ q.stack[n] = g /\ \A k \in 1..(n - 1) : q.stack[k] = p.stack[k]
    BY <1>2, <2>2
  <2>4. <<FrameRank(w, p, g), FrameRank(w, p, f)>> \in FrameOrder
    BY <1>1, <1>3, FrameDescends
  <2> HIDE DEF q, n, f
  <2>5. q \in Process
    BY <1>3 DEF q
  <2>6. <<StackRank(w, q), StackRank(w, p)>> \in StackOrder
    BY <1>1, <1>2, <2>2, <2>3, <2>4, <2>5, TopDescends
  <2>7. Inner(w, p, q)
    BY <2>2, <2>5, <2>6 DEF Inner
  <2> QED BY <2>7 DEF q
<1>4. PastLiteral(p) \in Process /\ PastClause(p) \in Process /\ PastGoal(p) \in Process
  BY StackOK
<1>5. ASSUME Placed(w, p) PROVE Inner(w, p, PastLiteral(p))
  <2> DEFINE g == [f EXCEPT !.literal = @ + 1]
  <2>1. g.clause = f.clause
    BY <1>1 DEF Frame
  <2>2. f.clause <= Len(ProgOf(w, p)) /\ f.literal <= Len(ProgOf(w, p)[f.clause].body)
    <3>1. p.node \in Nodes
      BY DEF Process
    <3>2. ProgOf(w, p) \in Seq(Clause)
      BY <3>1, ProgramTyped DEF ProgOf
    <3>3. f.clause \in DOMAIN ProgOf(w, p) /\ f.literal \in DOMAIN ProgOf(w, p)[f.clause].body
      BY <1>5 DEF Placed, ProgOf
    <3>4. ProgOf(w, p)[f.clause].body \in Seq(Literal)
      <4>1. ProgOf(w, p)[f.clause] \in Clause
        BY <3>2, <3>3
      <4> QED BY <4>1 DEF Clause
    <3> QED BY <3>2, <3>3, <3>4
  <2>3. PastLiteral(p) = PutFrame(p, g)
    BY DEF PastLiteral
  <2> HIDE DEF g, f
  <2>4. g \in {[f EXCEPT !.literal = @ + 1], [f EXCEPT !.clause = @ + 1, !.literal = 1]}
    BY DEF g
  <2> QED BY <1>3, <1>4, <2>2, <2>3, <2>4
<1>6. ASSUME f.clause <= Len(ProgOf(w, p)) PROVE Inner(w, p, PastClause(p))
  <2> DEFINE g == [f EXCEPT !.clause = @ + 1, !.literal = 1]
  <2>1. g.clause # f.clause
    BY <1>1 DEF Frame
  <2>2. PastClause(p) = PutFrame(p, g)
    BY DEF PastClause
  <2>3. g \in {[f EXCEPT !.literal = @ + 1], [f EXCEPT !.clause = @ + 1, !.literal = 1]}
    OBVIOUS
  <2> HIDE DEF g, f
  <2> QED BY <1>3, <1>4, <1>6, <2>1, <2>2, <2>3
<1>7. Inner(w, p, PastGoal(p))
  <2> DEFINE q == PastGoal(p)
  <2>1. q.stack = SubSeq(p.stack, 1, n - 1) /\ q.node = p.node /\ q.visited = p.visited
    BY DEF PastGoal, Process
  <2>2. /\ n \notin DOMAIN q.stack
        /\ \A k \in 1..(n - 1) : k \in DOMAIN q.stack /\ q.stack[k] = p.stack[k]
    <3>1. n \in Nat
      BY <1>1
    <3>2. Len(q.stack) = n - 1 /\ q.stack \in Seq(Frame)
      BY <1>1, <2>1
    <3>3. \A k \in 1..(n - 1) : q.stack[k] = p.stack[k]
      BY <1>1, <2>1
    <3> QED BY <3>1, <3>2, <3>3
  <2> HIDE DEF q, n
  <2>3. q \in Process
    BY <1>4 DEF q
  <2>4. <<StackRank(w, q), StackRank(w, p)>> \in StackOrder
    BY <1>2, <2>1, <2>2, <2>3, TopDescends
  <2>5. Inner(w, p, q)
    BY <2>1, <2>3, <2>4 DEF Inner
  <2> QED BY <2>5 DEF q
<1> QED BY <1>5, <1>6, <1>7

LEMMA InnerDescends ==
  ASSUME IsFiniteSet(Atoms), NEW w \in Deployments, NEW p \in Process, NEW q, Inner(w, p, q)
  PROVE  Descends(w, p, q)
BY StackDescends DEF Inner

(* Where a walk is at a literal.                                           *)
LEMMA WalkPlaced ==
  ASSUME NEW w \in Deployments, NEW p \in Process, p.stack # <<>>,
         FrameOf(p).clause <= Len(ProgOf(w, p)),
         ~ FrameOf(p).literal > Len(ProgOf(w, p)[FrameOf(p).clause].body)
  PROVE  Placed(w, p)
<1>1. FrameOf(p) \in Frame
  <2>1. p.stack \in Seq(Frame)
    BY DEF Process
  <2> QED BY <2>1 DEF FrameOf
<1>2. FrameOf(p).clause \in Nat \ {0} /\ FrameOf(p).literal \in Nat \ {0}
  BY <1>1 DEF Frame
<1>3. ProgOf(w, p) \in Seq(Clause)
  <2>1. p.node \in Nodes
    BY DEF Process
  <2> QED BY <2>1, ProgramTyped DEF ProgOf
<1>4. FrameOf(p).clause \in DOMAIN ProgOf(w, p) /\ ProgOf(w, p)[FrameOf(p).clause] \in Clause
  BY <1>2, <1>3
<1>5. ProgOf(w, p)[FrameOf(p).clause].body \in Seq(Literal)
  BY <1>4 DEF Clause
<1>6. FrameOf(p).literal \in DOMAIN ProgOf(w, p)[FrameOf(p).clause].body
  BY <1>2, <1>5
<1> QED BY <1>4, <1>6 DEF Placed, ProgOf

LEMMA PlacedAtom ==
  ASSUME NEW w \in Deployments, NEW p \in Process, Placed(w, p)
  PROVE  LitAt(w, p).atom \in Atoms
<1>1. p.node \in Nodes
  BY DEF Process
<1>2. LitAt(w, p) \in Literal
  BY <1>1, ProgramTyped DEF Placed, LitAt
<1> QED BY <1>2 DEF Literal

LEMMA PcRanks ==
  /\ PcRank("load") = 5 /\ PcRank("rerun") = 4 /\ PcRank("walk") = 3
  /\ PcRank("wait") = 2 /\ PcRank("import") = 1 /\ PcRank("final") = 0
BY DEF PcRank

(* A later phase, and nothing else changed.                                *)
LEMMA PhaseMoved ==
  ASSUME IsFiniteSet(Atoms), NEW w \in Deployments, NEW p \in Process, NEW v \in Pcs,
         PcRank(v) < PcRank(p.pc)
  PROVE  /\ [p EXCEPT !.pc = v] \in Process /\ [p EXCEPT !.pc = v].visited = p.visited
         /\ Descends(w, p, [p EXCEPT !.pc = v])
<1> DEFINE q == [p EXCEPT !.pc = v]
<1>1. q \in Process /\ q.visited = p.visited /\ q.node = p.node /\ q.stack = p.stack /\ q.pc = v
  BY DEF Process
<1> HIDE DEF q
<1>2. Descends(w, p, q)
  BY <1>1, PcDescends
<1> QED BY <1>1, <1>2 DEF q

LEMMA EnterInOK ==
  ASSUME NEW w, NEW p \in Process, NEW a \in Atoms
  PROVE  EnterIn(w, p, a) \in Process /\ EnterIn(w, p, a).visited = p.visited \cup {a}
<1>1. [goal |-> a, clause |-> 1, literal |-> 1] \in Frame
  BY DEF Frame
<1>2. Append(p.stack, [goal |-> a, clause |-> 1, literal |-> 1]) \in Seq(Frame)
  BY <1>1 DEF Process
<1>3. CASE a \in p.visited
  BY <1>3 DEF EnterIn
<1>4. CASE a \notin p.visited /\ a \in Read(w, p.node, p.facts)
  BY <1>4 DEF EnterIn, Process
<1>5. CASE a \notin p.visited /\ a \notin Read(w, p.node, p.facts)
  BY <1>2, <1>5 DEF EnterIn, Process
<1> QED BY <1>3, <1>4, <1>5

LEMMA WalkDescends ==
  ASSUME IsFiniteSet(Atoms), NEW w \in Deployments, NEW p \in Process, WalkOK(p), p.pc = "walk"
  PROVE  Descends(w, p, WalkMove(w, p))
<1>1. CASE p.stack = <<>>
  <2> DEFINE q == [p EXCEPT !.pc = "final", !.passes = 0]
  <2>1. "final" \in Pcs /\ PcRank("final") < PcRank(p.pc)
    BY PcRanks DEF Pcs
  <2>2. WalkMove(w, p) = q
    BY <1>1 DEF WalkMove
  <2>3. q \in Process /\ q.visited = p.visited /\ q.node = p.node /\ q.stack = p.stack /\ q.pc = "final"
    BY <2>1, FinalOK
  <2> HIDE DEF q
  <2> QED BY <2>1, <2>2, <2>3, PcDescends
<1>2. CASE p.stack # <<>> /\ ~ (FrameOf(p).clause <= Len(ProgOf(w, p)))
  BY <1>2, PastInner, InnerDescends DEF WalkMove
<1>3. CASE /\ p.stack # <<>> /\ FrameOf(p).clause <= Len(ProgOf(w, p))
           /\ \/ ProgOf(w, p)[FrameOf(p).clause].head # FrameOf(p).goal
              \/ FrameOf(p).literal > Len(ProgOf(w, p)[FrameOf(p).clause].body)
  BY <1>3, PastInner, InnerDescends DEF WalkMove
<1>4. CASE /\ p.stack # <<>> /\ FrameOf(p).clause <= Len(ProgOf(w, p))
           /\ ~ \/ ProgOf(w, p)[FrameOf(p).clause].head # FrameOf(p).goal
                \/ FrameOf(p).literal > Len(ProgOf(w, p)[FrameOf(p).clause].body)
  <2> DEFINE r == PastLiteral(p)
             a == LitAt(w, p).atom
             q == [p EXCEPT !.pc = "wait"]
  <2>1. Placed(w, p) /\ a \in Atoms
    BY <1>4, WalkPlaced, PlacedAtom
  <2>2. Inner(w, p, r)
    BY <1>4, <2>1, PastInner
  <2>3. Descends(w, p, r)
    BY <2>2, InnerDescends
  <2>4. Descends(w, p, q)
    <3>1. "wait" \in Pcs /\ PcRank("wait") < PcRank(p.pc)
      BY PcRanks DEF Pcs
    <3> QED BY <3>1, PhaseMoved
  <2>5. Descends(w, p, EnterIn(w, r, a))
    <3>1. r \in Process /\ r.visited = p.visited
      BY <2>2 DEF Inner
    <3>2. CASE a \in p.visited
      <4>1. EnterIn(w, r, a) = r
        BY <3>1, <3>2 DEF EnterIn
      <4> QED BY <2>3, <4>1
    <3>3. CASE a \notin p.visited
      <4> HIDE DEF r, a
      <4>1. EnterIn(w, r, a) \in Process /\ EnterIn(w, r, a).visited = p.visited \cup {a}
        BY <2>1, <3>1, EnterInOK
      <4> QED BY <3>3, <4>1, VisitedDescends
    <3> QED BY <3>2, <3>3
  <2>6. WalkMove(w, p) \in {r, q, EnterIn(w, r, a)}
    BY <1>4 DEF WalkMove
  <2> HIDE DEF r, q, a
  <2> QED BY <2>3, <2>4, <2>5, <2>6
<1> QED BY <1>1, <1>2, <1>3, <1>4

LEMMA ImportDescends ==
  ASSUME IsFiniteSet(Atoms), NEW w \in Deployments, NEW p \in Process, WalkOK(p), p.pc = "import",
         Placed(w, p), ImportMove(w, p) \in Process
  PROVE  Descends(w, p, ImportMove(w, p))
<1>1. CASE p.reply # <<>>
  <2> DEFINE q == ImportMove(w, p)
  <2>1. /\ q.visited = p.visited /\ q.node = p.node /\ q.stack = p.stack /\ q.pc = p.pc
        /\ p.facts \subseteq q.facts /\ q.reply = Tail(p.reply)
    BY <1>1 DEF ImportMove, Process
  <2>2. Len(q.reply) < Len(p.reply)
    <3>1. p.reply \in Seq(Bundle)
      BY DEF Process
    <3>2. Len(Tail(p.reply)) = Len(p.reply) - 1 /\ Len(p.reply) \in Nat
      BY <1>1, <3>1
    <3> QED BY <2>1, <3>2
  <2> HIDE DEF q
  <2>3. q \in Process
    BY DEF q
  <2>4. Descends(w, p, q)
    BY <2>1, <2>2, <2>3, TailDescends
  <2> QED BY <2>4 DEF q
<1>2. CASE p.reply = <<>>
  <2> DEFINE r == [p EXCEPT !.fetched = @ \cup {LitAt(w, p).atom}, !.pc = "rerun", !.passes = 0]
  <2>1. LitAt(w, p).atom \in Atoms /\ p.stack # <<>>
    BY PlacedAtom DEF Placed
  <2>2. r \in Process /\ r.stack = p.stack /\ r.visited = p.visited /\ r.node = p.node
    BY <2>1 DEF Process, Pcs
  <2>3. ImportMove(w, p) = PastLiteral(r)
    BY <1>2 DEF ImportMove
  <2> HIDE DEF r
  <2>4. WalkOK(r) /\ Placed(w, r) /\ StackRank(w, r) = StackRank(w, p)
    BY <2>2 DEF WalkOK, Placed, FrameOf, StackRank, FrameRank, ClausesLeft, LiteralsLeft, ProgOf
  <2>5. Inner(w, r, PastLiteral(r))
    BY <2>1, <2>2, <2>4, PastInner
  <2>6. Inner(w, p, PastLiteral(r))
    BY <2>2, <2>4, <2>5 DEF Inner
  <2> QED BY <2>3, <2>6, InnerDescends
<1> QED BY <1>1, <1>2

(* Every step of a process that does not wait leaves it less to do.        *)
LEMMA MoveDescends ==
  ASSUME IsFiniteSet(Atoms), NEW w \in Deployments, NEW p \in Process, WalkOK(p),
         p.pc = "import" => Placed(w, p), p.pc # "wait", ~ Ended(w, p), Move(w, p) \in Process
  PROVE  Descends(w, p, Move(w, p))
<1>1. CASE p.pc = "walk"
  BY <1>1, WalkDescends DEF Move
<1>2. CASE p.pc = "import"
  BY <1>2, ImportDescends DEF Move
<1>3. CASE p.pc \notin {"walk", "import"} /\ ~ Settles(w, p)
  <2> DEFINE q == Move(w, p)
  <2>1. q = [p EXCEPT !.facts = @ \cup Derives(w, p.node, p.facts), !.passes = @ + 1]
    BY <1>3 DEF Move
  <2>2. /\ q.visited = p.visited /\ q.node = p.node /\ q.stack = p.stack /\ q.pc = p.pc
        /\ q.facts = p.facts \cup Derives(w, p.node, p.facts)
    BY <2>1 DEF Process
  <2>3. p.facts \subseteq q.facts /\ p.facts # q.facts
    BY <1>3, <2>2 DEF Settles
  <2> HIDE DEF q
  <2>4. q \in Process
    BY DEF q
  <2>5. Descends(w, p, q)
    BY <2>2, <2>3, <2>4, TailDescends
  <2> QED BY <2>5 DEF q
<1>4. CASE p.pc = "load" /\ Settles(w, p)
  <2> DEFINE r == [p EXCEPT !.pc = "walk"]
             q == EnterIn(w, r, p.goal)
  <2>1. r \in Process /\ r.visited = p.visited /\ Descends(w, p, r) /\ p.goal \in Atoms
    <3>1. "walk" \in Pcs /\ PcRank("walk") < PcRank(p.pc)
      BY <1>4, PcRanks DEF Pcs
    <3>2. p.goal \in Atoms
      BY DEF Process
    <3> QED BY <3>1, <3>2, PhaseMoved
  <2>2. Move(w, p) = q
    BY <1>4 DEF Move
  <2> HIDE DEF r
  <2>3. CASE p.goal \in p.visited
    <3>1. q = r
      BY <2>1, <2>3 DEF EnterIn
    <3> QED BY <2>1, <2>2, <3>1
  <2>4. CASE p.goal \notin p.visited
    <3>1. q \in Process /\ q.visited = p.visited \cup {p.goal}
      BY <2>1, EnterInOK
    <3> HIDE DEF q
    <3> QED BY <2>2, <2>4, <3>1, VisitedDescends
  <2> QED BY <2>3, <2>4
<1>5. CASE p.pc = "rerun" /\ Settles(w, p)
  <2> DEFINE q == [p EXCEPT !.pc = "walk"]
  <2>1. "walk" \in Pcs /\ PcRank("walk") < PcRank(p.pc)
    BY <1>5, PcRanks DEF Pcs
  <2>2. Move(w, p) = q
    BY <1>5 DEF Move
  <2> QED BY <2>1, <2>2, PhaseMoved
<1>6. p.pc \in {"load", "walk", "import", "rerun"} \/ (p.pc = "final" /\ ~ Settles(w, p))
  BY DEF Process, Pcs, Ended
<1> QED BY <1>1, <1>2, <1>3, <1>4, <1>5, <1>6

LEMMA ReturnDescends ==
  ASSUME IsFiniteSet(Atoms), NEW w \in Deployments, NEW p \in Process, p.pc = "wait",
         NEW f, Return(w, p, f) \in Process
  PROVE  Descends(w, p, Return(w, p, f))
<1> DEFINE q == Return(w, p, f)
<1>1. q.visited = p.visited /\ q.node = p.node /\ q.stack = p.stack /\ PcRank(q.pc) < PcRank(p.pc)
  BY DEF Return, Process, PcRank
<1> HIDE DEF q
<1>2. q \in Process
  BY DEF q
<1>3. Descends(w, p, q)
  BY <1>1, <1>2, PcDescends
<1> QED BY <1>3 DEF q

(* What is left of a query: to be asked and to be answered, then what its  *)
(* processes have to do, those that wait first.                            *)
Stage == IF outcome # Pending THEN 0 ELSE IF depth = 0 THEN 2 ELSE 1
NoRank == <<{}, <<[k \in 1..Goals |-> <<0, 0>>], <<0, <<{}, 0>> >> >> >>
Ranks(w, d, cs) == [i \in 1..MaxDepth |-> IF i <= d THEN ProcessRank(w, cs[i]) ELSE NoRank]
QueryRank == <<Stage, Ranks(world, depth, calls)>>
RanksOrder == LexProductOrdering(ProcessOrder, ProcessRanks, MaxDepth)
QueryOrder == LexPairOrdering(Less, RanksOrder, Nat, [1..MaxDepth -> ProcessRanks])
QueryGoesDown == <<QueryRank', QueryRank>> \in QueryOrder
QueryRanks == Nat \X [1..MaxDepth -> ProcessRanks]

LEMMA NoRankTyped == NoRank \in ProcessRanks
<1>1. [k \in 1..Goals |-> <<0, 0>>] \in Stacks
  BY DEF Stacks
<1>2. {} \in FiniteSubsetsOf(Atoms)
  BY FS_EmptySet DEF FiniteSubsetsOf
<1> DEFINE s == [k \in 1..Goals |-> <<0, 0>>]
<1> HIDE DEF s
<1>3. <<0, <<{}, 0>> >> \in Phases
  BY <1>2 DEF Phases, Tails
<1>4. <<s, <<0, <<{}, 0>> >> >> \in Works
  BY <1>1, <1>3 DEF Works, s
<1> QED BY <1>2, <1>4 DEF NoRank, ProcessRanks, s

LEMMA RanksTyped ==
  ASSUME IsFiniteSet(Atoms), IInv
  PROVE  Ranks(world, depth, calls) \in [1..MaxDepth -> ProcessRanks] /\ Stage \in Nat
<1>1. world \in Deployments /\ depth \in Nat /\ \A i \in 1..depth : calls[i] \in Process
  BY DEF IInv, ProcOK
<1>2. ASSUME NEW i \in 1..MaxDepth, i <= depth PROVE ProcessRank(world, calls[i]) \in ProcessRanks
  <2>1. calls[i] \in Process
    BY <1>1, <1>2
  <2> QED BY <1>1, <2>1, RankTyped
<1> QED BY <1>2, NoRankTyped DEF Ranks, Stage

(* An answer or a failure; and the first step of all.                      *)
LEMMA StageDescends ==
  ASSUME IsFiniteSet(Atoms), IInv, IInv', Stage' < Stage
  PROVE  QueryGoesDown
<1>1. /\ Ranks(world, depth, calls) \in [1..MaxDepth -> ProcessRanks] /\ Stage \in Nat
      /\ Ranks(world, depth, calls)' \in [1..MaxDepth -> ProcessRanks] /\ Stage' \in Nat
  <2>1. Ranks(world, depth, calls) \in [1..MaxDepth -> ProcessRanks] /\ Stage \in Nat
    BY RanksTyped
  <2>2. Ranks(world', depth', calls') \in [1..MaxDepth -> ProcessRanks]
    <3>1. world' \in Deployments /\ depth' \in Nat /\ \A i \in 1..depth' : calls'[i] \in Process
      BY DEF IInv, ProcOK
    <3>2. ASSUME NEW i \in 1..MaxDepth, i <= depth' PROVE ProcessRank(world', calls'[i]) \in ProcessRanks
      <4>1. calls'[i] \in Process
        BY <3>1, <3>2
      <4> QED BY <3>1, <4>1, RankTyped
    <3> QED BY <3>2, NoRankTyped DEF Ranks
  <2>3. Stage' \in Nat
    BY DEF Stage
  <2> QED BY <2>1, <2>2, <2>3
<1>2. <<Stage', Stage>> \in Less
  BY <1>1 DEF Less, OpToRel
<1> DEFINE u == Ranks(world, depth, calls)'
           v == Ranks(world, depth, calls)
           s == Stage'
           t == Stage
<1>3. QueryRank' = <<s, u>> /\ QueryRank = <<t, v>>
  BY DEF QueryRank
<1> HIDE DEF u, v, s, t
<1>4. <<s, t>> \in Less /\ s \in Nat /\ t \in Nat /\ u \in [1..MaxDepth -> ProcessRanks]
      /\ v \in [1..MaxDepth -> ProcessRanks]
  BY <1>1, <1>2 DEF u, v, s, t
<1>5. << <<s, u>>, <<t, v>> >> \in QueryOrder
  BY <1>4, LexFirst DEF QueryOrder
<1> QED BY <1>3, <1>5 DEF QueryGoesDown

(* A process with less to do, and those that wait for it left alone.       *)
LEMMA ProcessDescends ==
  ASSUME IsFiniteSet(Atoms), IInv, IInv', world' = world, outcome' = outcome, depth' > 0,
         NEW k \in 1..depth, k <= depth', \A i \in 1..(k - 1) : calls'[i] = calls[i],
         Descends(world, calls[k], calls'[k])
  PROVE  QueryGoesDown
<1>1. /\ depth \in Nat /\ depth' \in Nat /\ k \in Nat /\ k <= depth /\ depth <= MaxDepth
      /\ depth' <= MaxDepth /\ MaxDepth \in Nat
  BY QueryAssumption DEF IInv
<1> DEFINE u == Ranks(world, depth', calls')
           v == Ranks(world, depth, calls)
<1>2. v \in [1..MaxDepth -> ProcessRanks] /\ Stage \in Nat
  BY RanksTyped
<1>3. u \in [1..MaxDepth -> ProcessRanks]
  <2>1. world \in Deployments /\ \A i \in 1..depth' : calls'[i] \in Process
    BY DEF IInv, ProcOK
  <2>2. ASSUME NEW i \in 1..MaxDepth, i <= depth' PROVE ProcessRank(world, calls'[i]) \in ProcessRanks
    <3>1. calls'[i] \in Process
      BY <1>1, <2>1, <2>2
    <3> QED BY <2>1, <3>1, RankTyped
  <2> QED BY <2>2, NoRankTyped DEF Ranks
<1>4. Stage' = Stage
  BY <1>1 DEF Stage
<1>5. QueryRank' = <<Stage, u>> /\ QueryRank = <<Stage, v>>
  BY <1>4 DEF QueryRank
<1>6. \A i \in 1..(k - 1) : u[i] = v[i]
  <2>1. ASSUME NEW i \in 1..(k - 1) PROVE u[i] = v[i]
    <3>1. i \in 1..MaxDepth /\ i <= depth /\ i <= depth'
      BY <1>1
    <3> QED BY <3>1 DEF Ranks
  <2> QED BY <2>1
<1>7. <<u[k], v[k]>> \in ProcessOrder
  <2>1. k \in 1..MaxDepth
    BY <1>1
  <2>2. u[k] = ProcessRank(world, calls'[k]) /\ v[k] = ProcessRank(world, calls[k])
    BY <1>1, <2>1 DEF Ranks
  <2> QED BY <2>2 DEF Descends
<1>8. k \in 1..MaxDepth
  BY <1>1
<1> HIDE DEF u, v
<1>9. <<u, v>> \in RanksOrder
  BY <1>2, <1>3, <1>6, <1>7, <1>8 DEF RanksOrder, LexProductOrdering
<1>10. << <<Stage, u>>, <<Stage, v>> >> \in QueryOrder
  BY <1>2, <1>3, <1>9, LexSecond DEF QueryOrder
<1> QED BY <1>5, <1>10 DEF QueryGoesDown

(* As long as there are processes there is no outcome.                     *)
AtWork == depth > 0 => outcome = Pending

LEMMA NextAtWork ==
  ASSUME IInv, AtWork, [Next]_vars PROVE AtWork'
<1>1. CASE \E a \in Asked : Ask(a[1], a[2])
  BY <1>1 DEF Ask, AtWork
<1>2. CASE \/ Evaluate \/ StartWalk \/ Resume \/ NextClause \/ GoalDone \/ NextLiteral
           \/ ResolveLocal \/ WalkDone \/ ImportBundle \/ ImportDone
  <2>1. depth > 0 /\ Become(Move(world, Top))
    BY <1>2, MoveMade
  <2> QED BY <2>1 DEF Become, AtWork
<1>3. CASE CallNode \/ Respond
  BY <1>3 DEF CallNode, Respond, AtWork, IInv
<1>4. CASE CallFails \/ NoAnswers \/ ImportFails \/ Lost \/ RespondToUser
  <2>1. depth' = 0
    BY <1>4 DEF CallFails, NoAnswers, ImportFails, Lost, RespondToUser, Abort
  <2> QED BY <2>1 DEF AtWork
<1>5. CASE UNCHANGED vars
  BY <1>5 DEF vars, AtWork
<1> QED BY <1>1, <1>2, <1>3, <1>4, <1>5 DEF Next, Work

LEMMA NextDescends ==
  ASSUME IsFiniteSet(Atoms), IInv, IInv', Walks, AtWork, Next
  PROVE  QueryGoesDown
<1>1. world' = world
  BY NextWorld
<1>2. ASSUME depth > 0
      PROVE  /\ Top \in Process /\ Top = calls[depth] /\ depth \in 1..depth /\ depth \in Nat
             /\ WalkOK(Top) /\ (Top.pc = "import" => Placed(world, Top)) /\ world \in Deployments
  BY <1>2, TopOK DEF Walks, Top, ProcOK
<1>3. CASE \/ Evaluate \/ StartWalk \/ Resume \/ NextClause \/ GoalDone \/ NextLiteral
           \/ ResolveLocal \/ WalkDone \/ ImportBundle \/ ImportDone
  <2> DEFINE q == Move(world, Top)
  <2>1. depth > 0 /\ Become(q) /\ Top.pc # "wait" /\ ~ Ended(world, Top)
    BY <1>3, MoveMade
  <2>2. q \in Process
    BY <2>1, BecomeParts
  <2>3. Descends(world, Top, q)
    BY <1>2, <2>1, <2>2, MoveDescends
  <2> HIDE DEF q
  <2>4. depth' = depth /\ outcome' = outcome /\ \A i \in 1..depth : calls'[i] = IF i = depth THEN q ELSE calls[i]
    BY <2>1, BecomeParts
  <2>5. \A i \in 1..(depth - 1) : calls'[i] = calls[i]
    BY <1>2, <2>1, <2>4
  <2>6. Descends(world, calls[depth], calls'[depth])
    BY <1>2, <2>1, <2>3, <2>4
  <2> QED BY <1>1, <1>2, <2>1, <2>4, <2>5, <2>6, ProcessDescends
<1>4. CASE CallNode
  <2> DEFINE called == NewProcess(Home[Speaker[LiteralOf(Top).atom]], LiteralOf(Top).atom)
             q == [Top EXCEPT !.pc = "wait"]
  <2>1. /\ depth > 0 /\ depth < MaxDepth /\ depth' = depth + 1 /\ outcome' = outcome
        /\ calls' = [calls EXCEPT ![depth] = q, ![depth + 1] = called]
    BY <1>4 DEF CallNode
  <2>2. Move(world, Top) = q /\ Top.pc # "wait" /\ ~ Ended(world, Top)
    BY <1>4, CallMade
  <2>3. q \in Process
    BY <1>2, <2>1, PcOK DEF Pcs
  <2>4. Descends(world, Top, q)
    BY <1>2, <2>1, <2>2, <2>3, MoveDescends
  <2> HIDE DEF called, q
  <2>5. 1..(depth + 1) \subseteq DOMAIN calls
    BY <1>2, <2>1, QueryAssumption DEF IInv
  <2>6. calls'[depth] = q /\ \A i \in 1..(depth - 1) : calls'[i] = calls[i]
    BY <1>2, <2>1, <2>5
  <2>7. depth' > 0 /\ depth <= depth'
    BY <1>2, <2>1
  <2>8. Descends(world, calls[depth], calls'[depth])
    BY <1>2, <2>1, <2>4, <2>6
  <2> QED BY <1>1, <1>2, <2>1, <2>6, <2>7, <2>8, ProcessDescends
<1>5. CASE \E a \in Asked : Ask(a[1], a[2])
  <2>1. depth = 0 /\ outcome = Pending /\ depth' = 1 /\ outcome' = outcome
    BY <1>5 DEF Ask
  <2>2. Stage' < Stage
    BY <2>1 DEF Stage
  <2> QED BY <2>2, StageDescends
<1>6. CASE CallFails \/ NoAnswers \/ ImportFails \/ Lost \/ RespondToUser
  <2>1. depth > 0
    BY <1>6 DEF CallFails, NoAnswers, ImportFails, Lost, RespondToUser, Finishing, Evaluating, Importing
  <2>2. outcome' # Pending
    BY <1>6 DEF CallFails, NoAnswers, ImportFails, Lost, RespondToUser, Abort, Answer, Pending, Failed, Broken
  <2>3. Stage' < Stage
    BY <2>1, <2>2 DEF Stage, AtWork
  <2> QED BY <2>3, StageDescends
<1>7. CASE Respond
  <2> DEFINE caller == calls[depth - 1]
             q == [caller EXCEPT !.pc = "import", !.reply = Response(Top)]
  <2>1. /\ depth > 1 /\ depth' = depth - 1 /\ calls' = [calls EXCEPT ![depth - 1] = q] /\ outcome' = outcome
    BY <1>7 DEF Respond
  <2>2. depth \in Nat
    BY DEF IInv
  <2>3. /\ depth - 1 \in 1..depth /\ depth - 1 < depth /\ depth - 1 \in 1..depth'
        /\ 1..(depth - 1) \subseteq DOMAIN calls /\ depth' > 0 /\ depth - 1 <= depth'
    BY <2>1, <2>2, QueryAssumption DEF IInv
  <2>4. caller \in Process /\ caller.pc = "wait" /\ world \in Deployments
    BY <2>3 DEF IInv, ProcOK
  <2>5. q = Return(world, caller, Top)
    BY DEF Return, ResponseOf, Response, OwnOf, OwnBundle
  <2> HIDE DEF q
  <2>6. calls'[depth - 1] = q /\ \A i \in 1..((depth - 1) - 1) : calls'[i] = calls[i]
    BY <2>1, <2>2, <2>3
  <2>7. q \in Process
    BY <2>3, <2>6 DEF IInv, ProcOK
  <2>8. Descends(world, caller, q)
    BY <2>4, <2>5, <2>7, ReturnDescends
  <2>9. Descends(world, calls[depth - 1], calls'[depth - 1])
    BY <2>6, <2>8
  <2> DEFINE k == depth - 1
  <2>10. k \in 1..depth /\ k <= depth' /\ (\A i \in 1..(k - 1) : calls'[i] = calls[i])
         /\ Descends(world, calls[k], calls'[k])
    BY <2>3, <2>6, <2>9
  <2> HIDE DEF k
  <2> QED BY <1>1, <2>1, <2>3, <2>10, ProcessDescends
<1> QED BY <1>3, <1>4, <1>5, <1>6, <1>7 DEF Next, Work

LEMMA QueryOrderWellFounded ==
  ASSUME IsFiniteSet(Atoms) PROVE IsWellFoundedOn(QueryOrder, QueryRanks)
<1>1. IsWellFoundedOn(Less, Nat)
  BY NatLessThanWellFounded DEF Less
<1>2. IsWellFoundedOn(RanksOrder, [1..MaxDepth -> ProcessRanks])
  BY ProcessOrderWellFounded, WFLexProductOrdering, QueryAssumption DEF RanksOrder
<1> QED BY <1>1, <1>2, WFLexPairOrdering DEF QueryOrder, QueryRanks

(* distributed.c 1549-1910: the walks over rules, the runs they start, the *)
(* calls to other nodes and the imports cannot go on for ever, however     *)
(* rules and nodes need each other: every step of a query is one down in   *)
(* an order in which nothing goes down without end.                        *)
THEOREM QueryDescends ==
  IsFiniteSet(Atoms) =>
    /\ IsWellFoundedOn(QueryOrder, QueryRanks)
    /\ Spec => [](QueryRank \in QueryRanks) /\ [][QueryGoesDown]_vars
<1> SUFFICES ASSUME IsFiniteSet(Atoms)
             PROVE  /\ IsWellFoundedOn(QueryOrder, QueryRanks)
                    /\ Spec => [](QueryRank \in QueryRanks)
                               /\ [][QueryGoesDown]_vars
  OBVIOUS
<1>1. IsWellFoundedOn(QueryOrder, QueryRanks)
  BY QueryOrderWellFounded
<1>2. IInv => QueryRank \in QueryRanks
  BY RanksTyped DEF QueryRank, QueryRanks
<1>3. Init => Walks /\ AtWork
  BY DEF Init, Walks, AtWork
<1>4. IInv /\ Walks /\ [Next]_vars => Walks'
  BY NextWalks
<1>5. IInv /\ AtWork /\ [Next]_vars => AtWork'
  BY NextAtWork
<1>6. IInv /\ IInv' /\ Walks /\ AtWork /\ [Next]_vars => [QueryGoesDown]_vars
  BY NextDescends
<1>7. Spec => [](QueryRank \in QueryRanks) /\ [][QueryGoesDown]_vars
  BY <1>2, <1>3, <1>4, <1>5, <1>6, SpecIInv, PTL DEF Spec
<1> QED BY <1>1, <1>7
=============================================================================
