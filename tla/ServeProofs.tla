------------------------------ MODULE ServeProofs ------------------------------
(***************************************************************************)
(* What a call of an adapter or a prover relies on, and why it ends, for    *)
(* any number of processes and connections, and requests, replies and pipes *)
(* of any size: within a node that may be interrupted, and in a process     *)
(* alone.                                                                   *)
(***************************************************************************)
EXTENDS Serve, Integers, TLAPS

TypeOK ==
  /\ plan \in [Procs -> Plans]
  /\ call \in [Procs -> {"idle", "writes", "reads", "waits"} \cup Over]
  /\ child \in [Procs -> {"none", "runs", "ok", "bad"}]
  /\ left \in [Procs -> Nat] /\ input \in [Procs -> Nat] /\ got \in [Procs -> Nat]
  /\ wrote \in [Procs -> Nat] /\ output \in [Procs -> Nat]
  /\ open \in [Procs -> BOOLEAN]

\* A prover and a process that runs nothing have nothing to write.
NothingToWrite ==
  \A p \in Procs : plan[p].kind # "adapter" => left[p] = 0 /\ input[p] = 0

\* The pipe to the child is closed when all was written.
ClosedWhenWritten == \A p \in Procs : ~open[p] => left[p] = 0

\* A child that ended well had its whole request, if it reads at all.
EndedWithRequest ==
  \A p \in Procs : child[p] = "ok" /\ plan[p].reads # "never" => left[p] = 0 /\ input[p] = 0

\* A call that is done took the whole reply of such a child.
DoneOnWholeReply ==
  \A p \in Procs : call[p] = "done" => child[p] = "ok" /\ got[p] = plan[p].reply

IInv == TypeOK /\ NothingToWrite /\ ClosedWhenWritten /\ EndedWithRequest /\ DoneOnWholeReply

\* IInv holds of processes that have not started.
LEMMA StartInvariant == ChildrenInit => IInv
<1> SUFFICES ASSUME ChildrenInit PROVE IInv
  OBVIOUS
<1>1. \A p \in Procs : plan[p] \in Plan /\ (plan[p].kind # "adapter" => plan[p].request = 0)
  BY ChildrenAssumption DEF ChildrenInit
<1> QED
  BY <1>1 DEF ChildrenInit, IInv, TypeOK, NothingToWrite, ClosedWhenWritten,
              EndedWithRequest, DoneOnWholeReply, Plan

\* What a process does with its child keeps IInv.
LEMMA ProcessInvariant == ASSUME IInv, NEW p \in Procs, Process(p) PROVE IInv'
<1> USE DEF IInv, TypeOK, NothingToWrite, ClosedWhenWritten, EndedWithRequest, DoneOnWholeReply
<1>1. CASE Spawn(p)
  BY <1>1 DEF Spawn, Over
<1>2. CASE WriteUnit(p)
  <2>1. /\ call[p] = "writes" /\ left[p] > 0 /\ child[p] = "runs"
        /\ left' = [left EXCEPT ![p] = left[p] - 1]
        /\ input' = [input EXCEPT ![p] = input[p] + 1]
        /\ UNCHANGED <<plan, call, open, output, got, child, wrote>>
    BY <1>2 DEF WriteUnit
  <2>2. left[p] \in Nat /\ input[p] \in Nat /\ plan[p].kind = "adapter" /\ open[p]
    BY <2>1
  <2>3. TypeOK'
    BY <2>1, <2>2
  <2>4. NothingToWrite' /\ ClosedWhenWritten' /\ EndedWithRequest' /\ DoneOnWholeReply'
    BY <2>1, <2>2
  <2> QED
    BY <2>3, <2>4
<1>3. CASE WriteToNobody(p)
  BY <1>3 DEF WriteToNobody, Over
<1>4. CASE CloseInput(p)
  BY <1>4 DEF CloseInput, AfterWrite
<1>5. CASE ReadUnit(p)
  <2>1. call[p] # "done" /\ output[p] - 1 \in Nat /\ got[p] + 1 \in Nat
    BY <1>5 DEF ReadUnit
  <2> QED
    BY <1>5, <2>1 DEF ReadUnit
<1>6. CASE ReadEnd(p)
  BY <1>6 DEF ReadEnd
<1>7. CASE WaitPid(p)
  BY <1>7 DEF WaitPid, Succeeded, Over
<1> QED
  BY <1>1, <1>2, <1>3, <1>4, <1>5, <1>6, <1>7 DEF Process

\* What a child does keeps IInv.
LEMMA ChildInvariant ==
  ASSUME IInv, NEW p \in Procs, Child(p) \/ ChildFails(p) PROVE IInv'
<1> USE DEF IInv, TypeOK, NothingToWrite, ClosedWhenWritten, EndedWithRequest, DoneOnWholeReply
<1>1. CASE ChildReads(p)
  <2>1. child[p] = "runs" /\ input[p] - 1 \in Nat /\ plan[p].kind = "adapter"
    BY <1>1 DEF ChildReads
  <2> QED
    BY <1>1, <2>1 DEF ChildReads
<1>2. CASE ChildWrites(p)
  BY <1>2 DEF ChildWrites
<1>3. CASE ChildExits(p)
  <2>1. /\ child[p] = "runs" /\ child' = [child EXCEPT ![p] = "ok"]
        /\ UNCHANGED <<plan, call, left, input, open, output, got, wrote>>
    BY <1>3 DEF ChildExits
  <2>2. plan[p].reads # "never" => left[p] = 0 /\ input[p] = 0
    BY <1>3 DEF ChildExits, HasRead, AtEnd
  <2> QED
    BY <2>1, <2>2
<1>4. CASE ChildFails(p)
  BY <1>4 DEF ChildFails
<1> QED
  BY <1>1, <1>2, <1>3, <1>4 DEF Child

\* A signal to all processes keeps IInv: only children that run die of it, and
\* only calls that are not over fail.
LEMMA InterruptInvariant == IInv /\ Interrupt => IInv'
<1> SUFFICES ASSUME IInv, Interrupt PROVE IInv'
  OBVIOUS
<1>1. /\ UNCHANGED <<plan, left, input, open, output, got, wrote>>
      /\ call' = [p \in Procs |-> IF p \in Clients /\ call[p] \in {"writes", "reads", "waits"}
                                  THEN "failed" ELSE call[p]]
      /\ child' = [p \in Procs |-> IF p \in Clients /\ child[p] = "runs" THEN "bad" ELSE child[p]]
  BY DEF Interrupt
<1> QED
  BY <1>1 DEF IInv, TypeOK, NothingToWrite, ClosedWhenWritten, EndedWithRequest,
              DoneOnWholeReply, Over

\* IInv is about the variables of Children only.
LEMMA StutterInvariant == IInv /\ UNCHANGED childVars => IInv'
BY DEF childVars, IInv, TypeOK, NothingToWrite, ClosedWhenWritten, EndedWithRequest,
       DoneOnWholeReply

\* Every step of a node keeps IInv.
LEMMA NextInvariant == IInv /\ [Next]_vars => IInv'
<1> SUFFICES ASSUME IInv, [Next]_vars PROVE IInv'
  OBVIOUS
<1>1. ASSUME NEW c \in Clients, Connect(c) \/ Receive(c) \/ HangUp(c) \/ Respond(c) PROVE IInv'
  BY <1>1, StutterInvariant DEF Connect, Receive, HangUp, Respond
<1>2. CASE Main \/ AcceptFails \/ Terminate \/ AnnouncerEnds
  BY <1>2, StutterInvariant DEF Main, Accept, Fork, Leave, AcceptFails, Terminate, AnnouncerEnds
<1>3. ASSUME NEW p \in Procs, Work(p) \/ Child(p) \/ ChildFails(p) PROVE IInv'
  BY <1>3, ProcessInvariant, ChildInvariant DEF Work
<1>4. CASE UNCHANGED vars
  BY <1>4, StutterInvariant DEF vars
<1> QED
  BY <1>1, <1>2, <1>3, <1>4, InterruptInvariant DEF Next

\* IInv implies the property.
LEMMA InvariantImplies == IInv => OkOnlyOnWholeReply
BY DEF IInv, EndedWithRequest, DoneOnWholeReply, OkOnlyOnWholeReply

\* In a node that may be told to stop at any time, a call that reports success
\* had a child that took the whole request, ended well, and whose whole reply
\* was read (capability.c 269-348, distributed.c 700-737).
THEOREM ServedOkOnlyOnWholeReply == Spec => []OkOnlyOnWholeReply
<1>1. Init => IInv
  BY StartInvariant DEF Init
<1>2. Spec => []IInv
  BY <1>1, NextInvariant, PTL DEF Spec
<1> QED
  BY <1>2, InvariantImplies, PTL

-----------------------------------------------------------------------------
(* Why a call ends, or waits for ever.                                      *)

UnderWay(p) == call[p] \in {"writes", "reads", "waits"}

\* What a call and its child have written, read and still have to.
CountedAt(p) ==
  /\ wrote[p] = got[p] + output[p] /\ wrote[p] <= plan[p].reply
  /\ left[p] + input[p] <= plan[p].request
  /\ output[p] <= Capacity /\ input[p] <= Capacity

\* Where a call is says what it runs, whether that has started and whether the
\* pipe to it is open.
PlacedAt(p) ==
  /\ call[p] = "idle" => child[p] = "none" /\ open[p]
  /\ UnderWay(p) => child[p] # "none" /\ plan[p].kind # "nothing"
  /\ call[p] \in {"writes", "reads"} => plan[p].kind = "adapter" /\ open[p] = (call[p] = "writes")
  /\ call[p] = "waits" /\ child[p] = "runs" => plan[p].kind = "prover"

Within == \A p \in Procs : CountedAt(p) /\ PlacedAt(p)

\* A handler has a call under way from when it was forked to its response.
Handled ==
  /\ conn \in [Clients -> {"away", "queued", "accepted", "receives", "handled"} \cup Closed]
  /\ main = "forking" => current \in Clients /\ conn[current] = "accepted"
  /\ \A c \in Clients : UnderWay(c) => conn[c] = "handled"

SInv == IInv /\ Within /\ Handled

\* A step that is possible: the process, then its child.
GoesOn(p) ==
  \/ MayRun(p) /\
       \/ call[p] = "writes" /\ (left[p] = 0 \/ child[p] # "runs" \/ input[p] < Capacity)
       \/ call[p] = "reads" /\ (output[p] > 0 \/ child[p] # "runs")
       \/ call[p] = "waits" /\ child[p] # "runs"
  \/ child[p] = "runs" /\
       \/ input[p] > 0 /\ (plan[p].reads = "first" \/ (plan[p].reads = "last" /\ HasWritten(p)))
       \/ ~HasWritten(p) /\ output[p] < Capacity /\ (plan[p].reads = "first" => AtEnd(p))
       \/ HasWritten(p) /\ (plan[p].kind = "prover" \/ HasRead(p))

\* Calls wait for ever only for a child that waits for them.
WaitsOnlyInDeadlock == \A p \in Procs : UnderWay(p) => GoesOn(p) \/ Deadlocks(p)

\* Each unit is written once and read once, on both ways.
Stage(c) ==
  IF c = "idle" THEN 4 ELSE IF c = "writes" THEN 3 ELSE IF c = "reads" THEN 2
  ELSE IF c = "waits" THEN 1 ELSE 0
Life(c) == IF c = "none" THEN 2 ELSE IF c = "runs" THEN 1 ELSE 0

StepsLeft(p) ==
  2 * left[p] + input[p] + 2 * (plan[p].reply - wrote[p]) + output[p] + Stage(call[p]) + Life(child[p])

\* What belongs to a process and its child.
StateOf(p) ==
  <<plan[p], call[p], left[p], input[p], open[p], output[p], got[p], child[p], wrote[p]>>

LEMMA Sizes ==
  ASSUME IInv, NEW p \in Procs
  PROVE  /\ plan[p].request \in Nat /\ plan[p].reply \in Nat /\ Capacity \in Nat /\ Capacity > 0
         /\ plan[p].kind \in {"adapter", "prover", "nothing"}
         /\ plan[p].reads \in {"first", "last", "never"}
         /\ plan[p].kind # "adapter" => plan[p].request = 0 /\ plan[p].reply = 0
         /\ left[p] \in Nat /\ input[p] \in Nat /\ output[p] \in Nat /\ got[p] \in Nat
         /\ wrote[p] \in Nat /\ open[p] \in BOOLEAN /\ child[p] \in {"none", "runs", "ok", "bad"}
         /\ call[p] \in {"idle", "writes", "reads", "waits"} \cup Over
<1>1. plan[p] \in Plans /\ Plans \subseteq Plan
  BY ChildrenAssumption DEF IInv, TypeOK
<1>2. /\ plan[p].request \in Nat /\ plan[p].reply \in Nat
      /\ plan[p].kind \in {"adapter", "prover", "nothing"}
      /\ plan[p].reads \in {"first", "last", "never"}
  BY <1>1 DEF Plan
<1>3. plan[p].kind # "adapter" => plan[p].request = 0 /\ plan[p].reply = 0
  BY <1>1, ChildrenAssumption
<1> QED BY <1>2, <1>3, ChildrenAssumption DEF IInv, TypeOK

\* A step of one process or its child is none of another.
LEMMA OthersKept ==
  ASSUME IInv, NEW p \in Procs, NEW q \in Procs, q # p, Process(p) \/ Child(p) \/ ChildFails(p)
  PROVE  StateOf(q)' = StateOf(q)
<1> USE DEF IInv, TypeOK, StateOf
<1>1. CASE Spawn(p) \/ WriteUnit(p) \/ WriteToNobody(p) \/ CloseInput(p)
  BY <1>1 DEF Spawn, WriteUnit, WriteToNobody, CloseInput, AfterWrite
<1>2. CASE ReadUnit(p) \/ ReadEnd(p) \/ WaitPid(p)
  BY <1>2 DEF ReadUnit, ReadEnd, WaitPid
<1>3. CASE ChildReads(p) \/ ChildWrites(p) \/ ChildExits(p) \/ ChildFails(p)
  BY <1>3 DEF ChildReads, ChildWrites, ChildExits, ChildFails
<1> QED BY <1>1, <1>2, <1>3 DEF Process, Child

LEMMA OthersWithin ==
  ASSUME NEW q, StateOf(q)' = StateOf(q), CountedAt(q), PlacedAt(q)
  PROVE  CountedAt(q)' /\ PlacedAt(q)'
BY DEF StateOf, CountedAt, PlacedAt, UnderWay

LEMMA ProcessWithin ==
  ASSUME IInv, NEW p \in Procs, CountedAt(p), PlacedAt(p), Process(p)
  PROVE  CountedAt(p)' /\ PlacedAt(p)'
<1>1. CASE Spawn(p)
  <2>1. /\ call[p] = "idle" /\ open[p] /\ plan[p].kind # "nothing"
        /\ UNCHANGED <<plan, left, input, open, output, got, wrote>>
        /\ \/ child'[p] = "runs" /\ call'[p] = IF plan[p].kind = "adapter" THEN "writes" ELSE "waits"
           \/ call'[p] = "failed"
    BY <1>1 DEF Spawn, PlacedAt, IInv, TypeOK
  <2>2. plan[p].kind \in {"adapter", "prover", "nothing"}
    BY Sizes
  <2> QED BY <2>1, <2>2 DEF CountedAt, PlacedAt, UnderWay
<1>2. CASE WriteUnit(p)
  <2>1. /\ call[p] = "writes" /\ left[p] > 0 /\ input[p] < Capacity
        /\ left'[p] = left[p] - 1 /\ input'[p] = input[p] + 1
        /\ UNCHANGED <<plan, call, open, output, got, child, wrote>>
    BY <1>2 DEF WriteUnit, IInv, TypeOK
  <2>2. CountedAt(p)'
    BY <2>1, Sizes DEF CountedAt
  <2> QED BY <2>1, <2>2 DEF PlacedAt, UnderWay
<1>3. CASE WriteToNobody(p)
  BY <1>3 DEF WriteToNobody, CountedAt, PlacedAt, UnderWay, IInv, TypeOK
<1>4. CASE CloseInput(p)
  BY <1>4 DEF CloseInput, AfterWrite, CountedAt, PlacedAt, UnderWay, IInv, TypeOK
<1>5. CASE ReadUnit(p)
  <2>1. /\ output[p] > 0 /\ output'[p] = output[p] - 1 /\ got'[p] = got[p] + 1
        /\ UNCHANGED <<plan, call, left, input, open, child, wrote>>
    BY <1>5 DEF ReadUnit, IInv, TypeOK
  <2>2. CountedAt(p)'
    BY <2>1, Sizes DEF CountedAt
  <2> QED BY <2>1, <2>2 DEF PlacedAt, UnderWay
<1>6. CASE ReadEnd(p)
  BY <1>6 DEF ReadEnd, CountedAt, PlacedAt, UnderWay, IInv, TypeOK
<1>7. CASE WaitPid(p)
  BY <1>7 DEF WaitPid, CountedAt, PlacedAt, UnderWay, IInv, TypeOK
<1> QED BY <1>1, <1>2, <1>3, <1>4, <1>5, <1>6, <1>7 DEF Process

LEMMA ChildWithin ==
  ASSUME IInv, NEW p \in Procs, CountedAt(p), PlacedAt(p), Child(p) \/ ChildFails(p)
  PROVE  CountedAt(p)' /\ PlacedAt(p)'
<1>1. CASE ChildReads(p)
  <2>1. /\ input[p] > 0 /\ input'[p] = input[p] - 1
        /\ UNCHANGED <<plan, call, left, open, output, got, child, wrote>>
    BY <1>1 DEF ChildReads, IInv, TypeOK
  <2>2. CountedAt(p)'
    BY <2>1, Sizes DEF CountedAt
  <2> QED BY <2>1, <2>2 DEF PlacedAt, UnderWay
<1>2. CASE ChildWrites(p)
  <2>1. /\ wrote[p] # plan[p].reply /\ output[p] < Capacity
        /\ output'[p] = output[p] + 1 /\ wrote'[p] = wrote[p] + 1
        /\ UNCHANGED <<plan, call, left, input, open, got, child>>
    BY <1>2 DEF ChildWrites, HasWritten, IInv, TypeOK
  <2>2. CountedAt(p)'
    BY <2>1, Sizes DEF CountedAt
  <2> QED BY <2>1, <2>2 DEF PlacedAt, UnderWay
<1>3. CASE ChildExits(p) \/ ChildFails(p)
  <2>1. /\ child[p] = "runs" /\ child'[p] \in {"ok", "bad"}
        /\ UNCHANGED <<plan, call, left, input, open, output, got, wrote>>
    BY <1>3 DEF ChildExits, ChildFails, IInv, TypeOK
  <2> QED BY <2>1 DEF CountedAt, PlacedAt, UnderWay
<1> QED BY <1>1, <1>2, <1>3 DEF Child

\* A step of a process or its child keeps Within; a signal does too.
LEMMA StepWithin ==
  ASSUME IInv, Within, NEW p \in Procs, Process(p) \/ Child(p) \/ ChildFails(p)
  PROVE  Within'
<1> SUFFICES ASSUME NEW q \in Procs PROVE CountedAt(q)' /\ PlacedAt(q)'
  BY DEF Within
<1>1. CountedAt(q) /\ PlacedAt(q)
  BY DEF Within
<1> QED BY <1>1, OthersKept, OthersWithin, ProcessWithin, ChildWithin

LEMMA InterruptWithin ==
  ASSUME IInv, Within, Interrupt PROVE Within'
<1> SUFFICES ASSUME NEW q \in Procs PROVE CountedAt(q)' /\ PlacedAt(q)'
  BY DEF Within
<1>1. CountedAt(q) /\ PlacedAt(q)
  BY DEF Within
<1>2. /\ UNCHANGED <<plan, left, input, open, output, got, wrote>>
      /\ \/ call'[q] = call[q] /\ q \notin Clients
         \/ call'[q] = call[q] /\ ~UnderWay(q)
         \/ call'[q] = "failed"
      /\ child'[q] = child[q] \/ (child[q] = "runs" /\ child'[q] = "bad")
  BY DEF Interrupt, UnderWay, IInv, TypeOK
<1> QED BY <1>1, <1>2 DEF CountedAt, PlacedAt, UnderWay

\* A connection is with a handler as long as that has a call under way.
LEMMA HandledKept ==
  ASSUME IInv, Within, Handled, [Next]_vars PROVE Handled'
<1> DEFINE States == {"away", "queued", "accepted", "receives", "handled"} \cup Closed
<1>1. conn \in [Clients -> States] /\ None \notin Clients /\ Clients \subseteq Procs
  BY ServeAssumption DEF Handled
<1>2. ASSUME NEW c \in Clients, Connect(c) PROVE Handled'
  BY <1>1, <1>2 DEF Connect, Handled, UnderWay, childVars, Closed
<1>3. ASSUME NEW c \in Clients, Accept(c) PROVE Handled'
  BY <1>1, <1>3 DEF Accept, Handled, UnderWay, childVars, Closed
<1>4. CASE Fork
  BY <1>1, <1>4 DEF Fork, Handled, UnderWay, childVars, Closed
<1>5. CASE Leave \/ AnnouncerEnds \/ UNCHANGED vars
  BY <1>5 DEF Leave, AnnouncerEnds, StopAnnouncer, Handled, UnderWay, childVars, vars, nodeVars
<1>6. ASSUME conn' = Dropped, UNCHANGED <<main, current>> \/ main' = "ended",
             main' = "ended" \/ main' = main, \A c \in Clients : UnderWay(c)' => UnderWay(c)
      PROVE  Handled'
  BY <1>1, <1>6 DEF Handled, Dropped, Closed
<1>7. CASE AcceptFails \/ Terminate
  BY <1>6, <1>7 DEF AcceptFails, Terminate, StopListening, UnderWay, childVars
<1>8. CASE Interrupt
  <2>1. \A c \in Clients : UnderWay(c)' => UnderWay(c)
    BY <1>1, <1>8 DEF Interrupt, UnderWay, IInv, TypeOK
  <2> QED BY <1>6, <1>8, <2>1 DEF Interrupt, StopListening
<1>9. ASSUME NEW c \in Clients, Respond(c) PROVE Handled'
  <2>1. plan[c].kind = "nothing" \/ call[c] \in Over
    BY <1>9 DEF Respond
  <2>2. ~UnderWay(c)
    BY <1>1, <2>1 DEF Within, PlacedAt, UnderWay, Over
  <2> QED BY <1>1, <1>9, <2>2 DEF Respond, Handled, UnderWay, childVars, Closed
<1>10. ASSUME NEW p \in Procs, Work(p) PROVE Handled'
  <2>1. MayRun(p) /\ Process(p) /\ UNCHANGED nodeVars
    BY <1>10 DEF Work
  <2>2. \A c \in Clients : c # p => StateOf(c)' = StateOf(c)
    BY <1>1, <2>1, OthersKept
  <2>3. \A c \in Clients : UnderWay(c)' => UnderWay(c) \/ c = p
    BY <2>2 DEF StateOf, UnderWay
  <2> QED BY <2>1, <2>3 DEF Handled, MayRun, nodeVars
<1>11. ASSUME NEW p \in Procs, Child(p) \/ ChildFails(p), UNCHANGED nodeVars PROVE Handled'
  <2>1. call' = call
    BY <1>11 DEF Child, ChildReads, ChildWrites, ChildExits, ChildFails
  <2> QED BY <1>11, <2>1 DEF Handled, UnderWay, nodeVars
<1>12. ASSUME NEW c \in Clients, Receive(c) \/ HangUp(c) PROVE Handled'
  BY <1>1, <1>12 DEF Receive, HangUp, Handled, UnderWay, childVars, Closed
<1> QED
  BY <1>2, <1>3, <1>4, <1>5, <1>7, <1>8, <1>9, <1>10, <1>11, <1>12 DEF Next, Main

LEMMA WithinKept ==
  ASSUME IInv, Within, [Next]_vars PROVE Within'
<1>1. ASSUME UNCHANGED childVars PROVE Within'
  <2>1. \A q \in Procs : StateOf(q)' = StateOf(q)
    BY <1>1 DEF StateOf, childVars
  <2> QED BY <2>1, OthersWithin, <1>1 DEF Within
<1>2. ASSUME NEW c \in Clients, Connect(c) \/ Receive(c) \/ HangUp(c) \/ Respond(c) PROVE Within'
  BY <1>1, <1>2 DEF Connect, Receive, HangUp, Respond
<1>3. CASE Main \/ AcceptFails \/ Terminate \/ AnnouncerEnds \/ UNCHANGED vars
  BY <1>1, <1>3 DEF Main, Accept, Fork, Leave, AcceptFails, Terminate, AnnouncerEnds, vars
<1> QED BY <1>2, <1>3, StepWithin, InterruptWithin DEF Next, Work

LEMMA SInvKept == SInv /\ [Next]_vars => SInv'
BY NextInvariant, WithinKept, HandledKept DEF SInv

LEMMA SInvInductive == Spec => []SInv
<1>1. ASSUME Init PROVE SInv
  <2>1. IInv /\ ChildrenInit
    BY <1>1, StartInvariant DEF Init
  <2>2. ASSUME NEW p \in Procs PROVE CountedAt(p) /\ PlacedAt(p)
    <3>1. /\ call[p] = "idle" /\ child[p] = "none" /\ left[p] = plan[p].request /\ open[p]
          /\ input[p] = 0 /\ output[p] = 0 /\ got[p] = 0 /\ wrote[p] = 0
      BY <2>1 DEF ChildrenInit
    <3> QED BY <2>1, <3>1, Sizes DEF CountedAt, PlacedAt, UnderWay
  <2>3. Handled
    BY <1>1, <2>1, ServeAssumption DEF Init, ChildrenInit, Handled, UnderWay
  <2> QED BY <2>1, <2>2, <2>3 DEF SInv, Within
<1> QED BY <1>1, SInvKept, PTL DEF Spec

\* A call under way that cannot go on is one whose child writes before it
\* reads, with both pipes full.
LEMMA StuckInDeadlock ==
  ASSUME SInv, NEW p \in Procs, UnderWay(p), ~GoesOn(p) PROVE Deadlocks(p)
<1>1. /\ IInv /\ CountedAt(p) /\ PlacedAt(p) /\ MayRun(p)
  BY DEF SInv, Within, Handled, MayRun
<1>2. CASE call[p] = "waits"
  <2>1. child[p] = "runs" /\ plan[p].kind = "prover"
    BY <1>1, <1>2 DEF GoesOn, PlacedAt
  <2>2. HasWritten(p)
    BY <1>1, <2>1, Sizes DEF HasWritten, CountedAt
  <2> QED BY <2>1, <2>2 DEF GoesOn
<1>3. CASE call[p] = "reads"
  <2>1. child[p] = "runs" /\ output[p] = 0 /\ ~open[p] /\ output[p] < Capacity
    BY <1>1, <1>3, Sizes DEF GoesOn, PlacedAt
  <2>2. input[p] > 0 \/ AtEnd(p)
    BY <1>1, <2>1, Sizes DEF AtEnd
  <2>3. plan[p].reads \in {"first", "last", "never"}
    BY <1>1, Sizes
  <2> QED BY <2>1, <2>2, <2>3 DEF GoesOn, HasRead
<1>4. CASE call[p] = "writes"
  <2>1. child[p] = "runs" /\ left[p] # 0 /\ ~(input[p] < Capacity) /\ plan[p].kind = "adapter"
    BY <1>1, <1>4 DEF GoesOn, PlacedAt
  <2>2. input[p] = Capacity /\ input[p] > 0 /\ plan[p].request > Capacity
    BY <1>1, <2>1, Sizes DEF CountedAt
  <2>3. plan[p].reads # "first" /\ ~HasWritten(p)
    BY <1>1, <2>1, <2>2, Sizes DEF GoesOn, HasRead
  <2>4. ~(output[p] < Capacity) /\ wrote[p] # plan[p].reply
    BY <2>1, <2>3 DEF GoesOn, HasWritten
  <2>5. plan[p].reply > Capacity
    BY <1>1, <2>4, Sizes DEF CountedAt
  <2> QED BY <2>1, <2>2, <2>3, <2>5 DEF Deadlocks
<1> QED BY <1>2, <1>3, <1>4 DEF UnderWay

\* A call under way can always go on, unless its child writes more than a pipe
\* holds before it reads a request that a pipe does not hold; a signal at any
\* time included (capability.c 269-348, distributed.c 700-737).
THEOREM CallsWaitOnlyInDeadlock == Spec => []WaitsOnlyInDeadlock
<1>1. SInv => WaitsOnlyInDeadlock
  BY StuckInDeadlock DEF WaitsOnlyInDeadlock
<1> QED BY <1>1, SInvInductive, PTL

-----------------------------------------------------------------------------
LEMMA StepsLeftBounded ==
  ASSUME SInv, NEW p \in Procs
  PROVE  StepsLeft(p) \in 0..(2 * plan[p].request + 2 * plan[p].reply + 6)
<1>1. IInv /\ CountedAt(p)
  BY DEF SInv, Within
<1>2. Stage(call[p]) \in 0..4 /\ Life(child[p]) \in 0..2
  BY DEF Stage, Life
<1> DEFINE s == Stage(call[p])
           f == Life(child[p])
           l == left[p]
           i == input[p]
           r == plan[p].reply
           q == plan[p].request
           w == wrote[p]
           o == output[p]
           g == got[p]
<1>3. /\ s \in 0..4 /\ f \in 0..2 /\ w = g + o /\ w <= r /\ l + i <= q
      /\ l \in Nat /\ i \in Nat /\ r \in Nat /\ q \in Nat /\ w \in Nat /\ o \in Nat /\ g \in Nat
  BY <1>1, <1>2, Sizes DEF CountedAt
<1>4. StepsLeft(p) = 2 * l + i + 2 * (r - w) + o + s + f
  BY DEF StepsLeft
<1> HIDE DEF s, f, l, i, r, q, w, o, g
<1>5. StepsLeft(p) \in Nat /\ StepsLeft(p) <= 2 * q + 2 * r + 6
  BY <1>3, <1>4
<1> QED BY <1>3, <1>5 DEF q, r

LEMMA StepDescends ==
  ASSUME SInv, NEW p \in Procs, Process(p) \/ Child(p) \/ ChildFails(p)
  PROVE  StepsLeft(p)' < StepsLeft(p) /\ StepsLeft(p)' <= StepsLeft(p)
<1>1. IInv /\ CountedAt(p) /\ PlacedAt(p)
  BY DEF SInv, Within
<1>2. /\ left[p] \in Nat /\ input[p] \in Nat /\ plan[p].reply \in Nat /\ wrote[p] \in Nat
      /\ output[p] \in Nat /\ Stage(call[p]) \in Nat /\ Life(child[p]) \in Nat
  BY <1>1, Sizes DEF Stage, Life
<1>3. CASE Spawn(p)
  <2>1. /\ call[p] = "idle" /\ child[p] = "none"
        /\ UNCHANGED <<plan, left, input, output, wrote>>
        /\ \/ child'[p] = "runs" /\ call'[p] \in {"writes", "waits"}
           \/ call'[p] = "failed" /\ child'[p] = "none"
    BY <1>1, <1>3 DEF Spawn, PlacedAt, IInv, TypeOK
  <2>2. Stage(call'[p]) \in 0..3 /\ Life(child'[p]) \in 0..2 /\ Stage(call[p]) = 4 /\ Life(child[p]) = 2
    BY <2>1 DEF Stage, Life
  <2> QED BY <1>2, <2>1, <2>2 DEF StepsLeft
<1>4. CASE WriteUnit(p)
  <2>1. /\ left'[p] = left[p] - 1 /\ input'[p] = input[p] + 1
        /\ UNCHANGED <<plan, call, output, child, wrote>>
    BY <1>1, <1>4 DEF WriteUnit, IInv, TypeOK
  <2> QED BY <1>2, <2>1 DEF StepsLeft
<1>5. CASE WriteToNobody(p) \/ CloseInput(p) \/ ReadEnd(p) \/ WaitPid(p)
  <2>1. /\ UNCHANGED <<plan, left, input, output, child, wrote>>
        /\ \/ call[p] = "writes" /\ call'[p] \in {"killed", "reads"}
           \/ call[p] = "reads" /\ call'[p] = "waits"
           \/ call[p] = "waits" /\ call'[p] \in {"done", "failed"}
    BY <1>1, <1>5 DEF WriteToNobody, CloseInput, AfterWrite, ReadEnd, WaitPid, IInv, TypeOK
  <2>2. Stage(call'[p]) \in Nat /\ Stage(call'[p]) < Stage(call[p])
    BY <2>1 DEF Stage
  <2> QED BY <1>2, <2>1, <2>2 DEF StepsLeft
<1>6. CASE ReadUnit(p)
  <2>1. output'[p] = output[p] - 1 /\ UNCHANGED <<plan, call, left, input, child, wrote>>
    BY <1>1, <1>6 DEF ReadUnit, IInv, TypeOK
  <2> QED BY <1>2, <2>1 DEF StepsLeft
<1>7. CASE ChildReads(p)
  <2>1. input'[p] = input[p] - 1 /\ UNCHANGED <<plan, call, left, output, child, wrote>>
    BY <1>1, <1>7 DEF ChildReads, IInv, TypeOK
  <2> QED BY <1>2, <2>1 DEF StepsLeft
<1>8. CASE ChildWrites(p)
  <2>1. /\ output'[p] = output[p] + 1 /\ wrote'[p] = wrote[p] + 1
        /\ UNCHANGED <<plan, call, left, input, child>>
    BY <1>1, <1>8 DEF ChildWrites, IInv, TypeOK
  <2> QED BY <1>2, <2>1 DEF StepsLeft
<1>9. CASE ChildExits(p) \/ ChildFails(p)
  <2>1. /\ child[p] = "runs" /\ child'[p] \in {"ok", "bad"}
        /\ UNCHANGED <<plan, call, left, input, output, wrote>>
    BY <1>1, <1>9 DEF ChildExits, ChildFails, IInv, TypeOK
  <2>2. Life(child[p]) = 1 /\ Life(child'[p]) = 0
    BY <2>1 DEF Life
  <2> QED BY <1>2, <2>1, <2>2 DEF StepsLeft
<1> QED BY <1>3, <1>4, <1>5, <1>6, <1>7, <1>8, <1>9 DEF Process, Child

LEMMA InterruptDescends ==
  ASSUME SInv, Interrupt, NEW p \in Procs PROVE StepsLeft(p)' <= StepsLeft(p)
<1>1. IInv
  BY DEF SInv
<1>2. /\ UNCHANGED <<plan, left, input, output, wrote>>
      /\ call'[p] = call[p] \/ (UnderWay(p) /\ call'[p] = "failed")
      /\ child'[p] = child[p] \/ (child[p] = "runs" /\ child'[p] = "bad")
  BY <1>1 DEF Interrupt, UnderWay, IInv, TypeOK
<1>3. /\ Stage(call'[p]) <= Stage(call[p]) /\ Life(child'[p]) <= Life(child[p])
      /\ {Stage(call'[p]), Stage(call[p]), Life(child'[p]), Life(child[p])} \subseteq Nat
  BY <1>2 DEF Stage, Life, UnderWay
<1>4. /\ left[p] \in Nat /\ input[p] \in Nat /\ plan[p].reply \in Nat /\ wrote[p] \in Nat
      /\ output[p] \in Nat
  BY <1>1, Sizes
<1> QED BY <1>2, <1>3, <1>4 DEF StepsLeft

LEMMA SameSteps ==
  ASSUME NEW p, StateOf(p)' = StateOf(p) PROVE StepsLeft(p)' = StepsLeft(p)
BY DEF StateOf, StepsLeft

\* A step of a process or its child is one of those left to them, and no step
\* of anybody else gives them more.
Descends(p) ==
  /\ StepsLeft(p)' <= StepsLeft(p)
  /\ Process(p) \/ Child(p) \/ ChildFails(p) => StepsLeft(p)' < StepsLeft(p)

LEMMA NextDescends ==
  ASSUME SInv, Next, NEW p \in Procs PROVE Descends(p)
<1>1. StepsLeft(p) \in Nat
  BY StepsLeftBounded, Sizes DEF SInv
<1>2. ASSUME Process(p) \/ Child(p) \/ ChildFails(p) PROVE Descends(p)
  BY <1>2, StepDescends DEF Descends
<1>3. ASSUME StateOf(p)' = StateOf(p) PROVE Descends(p)
  BY <1>1, <1>2, <1>3, SameSteps DEF Descends
<1>4. ASSUME UNCHANGED childVars PROVE Descends(p)
  BY <1>3, <1>4 DEF StateOf, childVars
<1>5. ASSUME NEW c \in Clients, Connect(c) \/ Receive(c) \/ HangUp(c) \/ Respond(c) PROVE Descends(p)
  BY <1>4, <1>5 DEF Connect, Receive, HangUp, Respond
<1>6. CASE Main \/ AcceptFails \/ Terminate \/ AnnouncerEnds
  BY <1>4, <1>6 DEF Main, Accept, Fork, Leave, AcceptFails, Terminate, AnnouncerEnds
<1>7. CASE Interrupt
  BY <1>2, <1>7, InterruptDescends DEF Descends
<1>8. ASSUME NEW q \in Procs, Process(q) \/ Child(q) \/ ChildFails(q) PROVE Descends(p)
  <2>1. CASE q = p
    BY <1>2, <1>8, <2>1
  <2>2. CASE q # p
    BY <1>3, <1>8, <2>2, OthersKept DEF SInv
  <2> QED BY <2>1, <2>2
<1> QED BY <1>5, <1>6, <1>7, <1>8 DEF Next, Work

\* A process and its child take no more steps for a request of n units and a
\* reply of m than 2n + 2m + 6, wherever one of them stops or a signal comes,
\* and whatever the node does beside (capability.c 269-348).
THEOREM CallsDescend ==
  /\ Spec => [](\A p \in Procs : StepsLeft(p) \in 0..(2 * plan[p].request + 2 * plan[p].reply + 6))
  /\ Spec => [][\A p \in Procs : Descends(p)]_vars
<1> DEFINE Bounded == \A p \in Procs : StepsLeft(p) \in 0..(2 * plan[p].request + 2 * plan[p].reply + 6)
           Down == \A p \in Procs : Descends(p)
<1>1. SInv => Bounded
  BY StepsLeftBounded
<1>2. SInv /\ [Next]_vars => [Down]_vars
  BY NextDescends
<1> HIDE DEF Bounded, Down
<1>3. Spec => []Bounded
  BY <1>1, SInvInductive, PTL
<1>4. Spec => [][Down]_vars
  BY <1>2, SInvInductive, PTL DEF Spec
<1> QED BY <1>3, <1>4 DEF Bounded, Down
=============================================================================
