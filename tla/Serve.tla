--------------------------------- MODULE Serve ---------------------------------
(***************************************************************************)
(* The life of a node's processes (etb_node_serve,                          *)
(* src/runtime/distributed.c 34-41 and 2102-2208): the main process accepts *)
(* connections and forks a handler for each, the announcer runs beside it,  *)
(* and a signal ends the node: SIGTERM reaches the main process alone,      *)
(* SIGINT from a terminal every process of the node with its children.      *)
(*                                                                          *)
(* A handler waits for its client's request, which may never come, and then *)
(* makes one call of a child, or none that could wait; Query and Registry   *)
(* have what else it does before its response.                              *)
(***************************************************************************)
EXTENDS Children

CONSTANTS
  Clients,  \* connections, each with the process that handles it
  None

ASSUME ServeAssumption == Clients \subseteq Procs /\ None \notin Clients

VARIABLES
  main,       \* where the main process is
  listening,  \* whether its listening descriptor is open
  told,       \* etb_shutdown_requested
  current,    \* the connection accept returned
  conn,       \* what the client of each connection sees
  announcer   \* whether the announcer runs

nodeVars == <<main, listening, told, current, conn, announcer>>
vars == <<childVars, nodeVars>>

Closed == {"answered", "closed"}

Init ==
  /\ ChildrenInit
  /\ main = "accepting" /\ listening = TRUE /\ told = FALSE /\ current = None
  /\ conn = [c \in Clients |-> "away"]
  /\ announcer \in {"none", "runs"}

-----------------------------------------------------------------------------
(* Clients and the kernel's queue of connections. *)

Connect(c) ==
  /\ conn[c] = "away"
  /\ conn' = [conn EXCEPT ![c] = IF listening THEN "queued" ELSE "closed"]
  /\ UNCHANGED <<childVars, main, listening, told, current, announcer>>

\* Connections nobody accepted end with the listening descriptor.
Dropped == [c \in Clients |-> IF conn[c] = "queued" THEN "closed" ELSE conn[c]]

-----------------------------------------------------------------------------
(* The main process. *)

Accept(c) ==
  /\ main = "accepting" /\ listening /\ conn[c] = "queued"
  /\ main' = "forking" /\ current' = c
  /\ conn' = [conn EXCEPT ![c] = "accepted"]
  /\ UNCHANGED <<childVars, listening, told, announcer>>

\* fork may fail: the connection is closed and the loop goes on.
Fork ==
  /\ main = "forking"
  /\ main' = "accepting" /\ current' = None
  /\ \E end \in {"receives", "closed"} : conn' = [conn EXCEPT ![current] = end]
  /\ UNCHANGED <<childVars, listening, told, announcer>>

StopAnnouncer == announcer' = IF announcer = "runs" THEN "stopped" ELSE announcer

\* accept fails on the descriptor the handler closed: the loop ends.
Leave ==
  /\ main = "accepting" /\ ~listening /\ told
  /\ main' = "ended" /\ StopAnnouncer
  /\ UNCHANGED <<childVars, listening, told, current, conn>>

\* Any other failure of accept ends the node too: connections in the queue
\* are dropped, those at work are not.
AcceptFails ==
  /\ main = "accepting" /\ listening
  /\ main' = "ended" /\ StopAnnouncer
  /\ listening' = FALSE /\ conn' = Dropped
  /\ UNCHANGED <<childVars, told, current>>

\* Slip: the handler of the signal leaves the descriptor open.
StoppedListening == /\ told' = TRUE /\ UNCHANGED <<listening, conn>>
StopListening == told' = TRUE /\ listening' = FALSE /\ conn' = Dropped

Terminate ==
  /\ main # "ended" /\ ~told
  /\ StopListening
  /\ UNCHANGED <<childVars, main, current, announcer>>

\* Handlers at a read from a child or a wait for it are woken, and their call
\* fails; children and the announcer die. Other processes go on, handlers
\* that receive a request among them: that read is tried again.
Interrupt ==
  /\ main # "ended" /\ ~told
  /\ StopListening
  /\ StopAnnouncer
  /\ call' = [p \in Procs |-> IF p \in Clients /\ call[p] \in {"writes", "reads", "waits"}
                              THEN "failed" ELSE call[p]]
  /\ child' = [p \in Procs |-> IF p \in Clients /\ child[p] = "runs" THEN "bad" ELSE child[p]]
  /\ UNCHANGED <<plan, left, input, open, output, got, wrote, main, current>>

AnnouncerEnds ==
  /\ announcer = "runs" /\ announcer' = "ended"
  /\ UNCHANGED <<childVars, main, listening, told, current, conn>>

-----------------------------------------------------------------------------
(* Handlers. A response is written also when the call failed. *)

\* The request is there, whole.
Receive(c) ==
  /\ conn[c] = "receives"
  /\ conn' = [conn EXCEPT ![c] = "handled"]
  /\ UNCHANGED <<childVars, main, listening, told, current, announcer>>

\* The client is gone before it has sent its request: the handler responds to
\* nobody.
HangUp(c) ==
  /\ conn[c] = "receives"
  /\ conn' = [conn EXCEPT ![c] = "closed"]
  /\ UNCHANGED <<childVars, main, listening, told, current, announcer>>

MayRun(p) == p \in Clients => conn[p] = "handled"

Work(p) == MayRun(p) /\ Process(p) /\ UNCHANGED nodeVars

Respond(c) ==
  /\ conn[c] = "handled"
  /\ plan[c].kind = "nothing" \/ call[c] \in Over
  /\ conn' = [conn EXCEPT ![c] = IF call[c] = "killed" THEN "closed" ELSE "answered"]
  /\ UNCHANGED <<childVars, main, listening, told, current, announcer>>

-----------------------------------------------------------------------------
Main == (\E c \in Clients : Accept(c)) \/ Fork \/ Leave

Next ==
  \/ \E c \in Clients : Connect(c) \/ Receive(c) \/ HangUp(c) \/ Respond(c)
  \/ Main \/ AcceptFails \/ Terminate \/ Interrupt \/ AnnouncerEnds
  \/ \E p \in Procs : Work(p)
  \/ \E p \in Procs : (Child(p) \/ ChildFails(p)) /\ UNCHANGED nodeVars

\* Processes run when they can, children too. Nothing makes a child fail, a
\* client come, send its request or go, or a signal arrive. The queue of
\* connections is served in the kernel's order, so that none of them waits
\* for ever.
Fairness ==
  /\ WF_vars(Main)
  /\ \A c \in Clients : SF_vars(Accept(c)) /\ WF_vars(Respond(c))
  /\ \A p \in Procs : WF_vars(Work(p)) /\ WF_vars(Child(p) /\ UNCHANGED nodeVars)

Spec == Init /\ [][Next]_vars /\ Fairness

-----------------------------------------------------------------------------
(* Properties. *)

\* A signal ends the node, whatever it interrupts: the main process leaves its
\* loop and the announcer does not outlive it (distributed.c 34-41, 2172-2207).
NodeStops == told ~> (main = "ended" /\ announcer # "runs")

\* A child that writes more than a pipe holds before it reads a request that
\* a pipe does not hold waits for its process, and the process for it.
Deadlocks(p) ==
  /\ plan[p].kind = "adapter" /\ plan[p].reads # "first"
  /\ plan[p].request > Capacity /\ plan[p].reply > Capacity

\* A connection ends with a response or is closed, and so does the work of a
\* process that serves nobody, also when the node is told to stop meanwhile.
\* No timeout is kept: what may delay a connection for ever is its own client,
\* which sends no request (distributed.c 1974), or a child that deadlocks with
\* its process (capability.c 314-326); neither keeps another connection or
\* the node.
EveryCallEnds ==
  /\ \A c \in Clients :
       conn[c] \notin {"away", "receives"} ~> conn[c] \in Closed \cup {"receives"} \/ Deadlocks(c)
  /\ \A p \in Procs \ Clients : (plan[p].kind # "nothing" ~> call[p] \in Over \/ Deadlocks(p))

=============================================================================
