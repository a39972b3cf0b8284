------------------------------ MODULE Registry ------------------------------
(***************************************************************************)
(* The route registry of live nodes and the processes that share it        *)
(* (src/runtime/distributed.c 113-184, 349-465, 1291-1547, 1957-2208).     *)
(*                                                                         *)
(* A node keeps in a file the routes it knows: for a principal, where to   *)
(* ask for its statements. The file is read whole, changed in memory,      *)
(* truncated (fopen "wb") and written (fclose), without a lock, by every   *)
(* process of the node: one forked for each connection, an announcer, and  *)
(* a starting node. A file fits one stdio buffer, so that reading it and   *)
(* writing it are single steps; allocation and disk failures are left out. *)
(*                                                                         *)
(* A query is reduced to what it does to registries: it looks for the      *)
(* endpoint of one principal and asks there; Engine evaluates it.          *)
(***************************************************************************)
EXTENDS Integers, Sequences

CONSTANTS
  Nodes,        \* nodes; a node also stands for its listen endpoint
  Principals,   \* names routes are for, node ids included
  Hosts,        \* Hosts[n]: who says the heads of n's program, or {Id[n]}
  Id,           \* Id[n]: the node id of n
  Manual,       \* Manual[n]: the --peer routes of n
  Seeds,        \* Seeds[n]: the --seed endpoints of n
  Torn,         \* <<p, q>>: name q is a proper end of name p
  Wants,        \* <<n, p>>: users ask node n for what needs a statement of p
  MaxAttempts,  \* 20 in the code: rounds an announcer makes
  Workers,      \* bound: processes handling connections at a time
  MaxQueries,   \* bound: queries users make
  MaxFaults,    \* bound: stops of nodes and broken connections
  None          \* no process, endpoint or principal

RouteMap == UNION {[known -> Nodes] : known \in SUBSET Principals}
Procs == Nodes \cup Workers  \* n is also the announcer of node n

ASSUME RegistryAssumption ==
  /\ Nodes \cap Workers = {}
  /\ None \notin Procs \cup Principals
  /\ Hosts \in [Nodes -> SUBSET Principals]
  /\ Id \in [Nodes -> Principals]
  /\ Manual \in [Nodes -> RouteMap]
  /\ Seeds \in [Nodes -> Seq(Nodes)]
  /\ Torn \subseteq Principals \X Principals
  /\ \A p, q, r \in Principals :
       <<p, q>> \in Torn /\ <<q, r>> \in Torn => <<p, r>> \in Torn
  /\ Wants \subseteq Nodes \X Principals
  /\ MaxAttempts \in Nat \ {0}
  /\ MaxQueries \in Nat /\ MaxFaults \in Nat

VARIABLES
  node,      \* node[n]: is n down, writing its first registry, or serving
  file,      \* file[n]: the routes its registry file lists
  announcer, \* announcer[n]: the process n forks to announce itself
  conn,      \* conn[w]: the process w handling a connection, or free
  save,      \* save[p]: the change of a registry file p is making
  inbox,     \* inbox[p]: the reply p waits for
  queries, faults,  \* history: how often, for the bounds
  heard      \* history: <<n, s>>: s saved n's routes for n's present announcer

vars == <<node, file, announcer, conn, save, inbox, queries, faults, heard>>
history == <<queries, faults, heard>>

-----------------------------------------------------------------------------
(* Route maps                                                              *)

NoRoutes == [p \in {} |-> p]

(* etb_peer_route_map_merge: the later route for a principal wins.         *)
Merge(dst, src) ==
  [p \in DOMAIN dst \cup DOMAIN src |-> IF p \in DOMAIN src THEN src[p] ELSE dst[p]]

Route(p, n) == [q \in {p} |-> n]
Find(map, p) == IF p \in DOMAIN map THEN map[p] ELSE None

(* etb_collect_local_routes.                                               *)
LocalRoutes(n) == [p \in Hosts[n] |-> n]

(* What a node adds to its file whenever it reads it for others: its own   *)
(* principals, and over them its manual routes. Slip: nothing.             *)
AddedNone(n) == NoRoutes
Added(n) == Merge(LocalRoutes(n), Manual[n])

(* etb_registry_snapshot.                                                  *)
Snapshot(n) == Merge(file[n], Added(n))

(* What etb_registry_ingest merges into the file of node n for a request   *)
(* from m: registry and resolve requests carry no routes, a request of     *)
(* etbctl (m = None) no endpoint either, and it rewrites the file too.     *)
(* Slip: the routes are taken to lead to n.                                *)
RequestRoutes(m, op) ==
  IF m = None THEN NoRoutes
  ELSE Merge(Route(Id[m], m),
             IF op \in {"announce", "query"} THEN LocalRoutes(m) ELSE NoRoutes)
IngestedHere(n, m, op) ==
  Merge(Added(n), [p \in DOMAIN RequestRoutes(m, op) |-> n])
Ingested(n, m, op) == Merge(Added(n), RequestRoutes(m, op))

(* What a write over contents that another process wrote since this one    *)
(* truncated the file leaves: the new lines, and if they are shorter, an   *)
(* end of the old ones, whose first line may have lost the front of its    *)
(* name. Names may have any length, so any end may be left.                *)
Cuts(old, kept) ==
  {NoRoutes} \cup {Route(t[2], old[t[1]]) : t \in {u \in Torn : u[1] \in DOMAIN old \ kept}}
Overlaid(old, new, kept) ==
  {Merge(Merge(new, cut), [p \in kept |-> old[p]]) : cut \in Cuts(old, kept)}
Written(old, new) ==
  {new} \cup UNION {Overlaid(old, new, kept) : kept \in (SUBSET DOMAIN old) \ {DOMAIN old}}

-----------------------------------------------------------------------------
(* Processes                                                               *)

Save == [phase : {"idle", "load", "truncate", "write"}, at : Nodes \cup {None},
         routes : RouteMap]
NoSave == [phase |-> "idle", at |-> None, routes |-> NoRoutes]
SaveInto(n, routes) == [phase |-> "load", at |-> n, routes |-> routes]

Reply == [kind : {"none", "failed", "ok"}, routes : RouteMap, found : Nodes \cup {None}]
NoReply == [kind |-> "none", routes |-> NoRoutes, found |-> None]
Failure == [NoReply EXCEPT !.kind = "failed"]

Ops == {"announce", "registry", "resolve", "query"}
Conn == [pc : {"free", "ingest", "seeds", "ask", "wait", "learn"},
         at : Nodes \cup {None},          \* the node it works for
         op : Ops,                        \* what was requested
         client : Procs \cup {None},      \* who waits for its reply
         wants : Principals \cup {None},  \* the principal to be found
         index : Nat \ {0},               \* the seed tried
         target : Nodes \cup {None}]      \* the endpoint found for wants
Free == [pc |-> "free", at |-> None, op |-> "query", client |-> None,
         wants |-> None, index |-> 1, target |-> None]

Announcer == [pc : {"off", "next", "wait", "learn", "ended"},
              task : Nat, done : SUBSET Nat, attempts : 0..MaxAttempts]
Off == [pc |-> "off", task |-> 1, done |-> {}, attempts |-> 0]

(* Tasks 2i - 1 and 2i of an announcer: announce to seed i, pull from it.  *)
Tasks(n) == 1..(2 * Len(Seeds[n]))
SeedOf(n, task) == Seeds[n][(task + 1) \div 2]
OpOf(task) == IF task % 2 = 1 THEN "announce" ELSE "registry"

(* A process accepted by node n for a request of client, which runs at m.  *)
Handler(n, op, client, wants) ==
  [Free EXCEPT !.pc = "ingest", !.at = n, !.op = op, !.client = client, !.wants = wants]

FreeWorkers == {w \in Workers : conn[w].pc = "free" /\ save[w].phase = "idle"}

(* A process goes on once its change of the file is made. Slip: at once.   *)
SaveStarted(p) == TRUE
Saved(p) == save[p].phase = "idle"

-----------------------------------------------------------------------------
(* Changing a registry file: etb_registry_load, the truncation and the     *)
(* writing in etb_registry_save. Slip: a change that forgets what it read. *)
UpdatedForgetting(p) == save[p].routes
Updated(p) == Merge(file[save[p].at], save[p].routes)

Load(p) ==
  /\ save[p].phase = "load"
  /\ save' = [save EXCEPT ![p].phase = "truncate", ![p].routes = Updated(p)]
  /\ UNCHANGED <<node, file, announcer, conn, inbox, history>>

Truncate(p) ==
  /\ save[p].phase = "truncate"
  /\ file' = [file EXCEPT ![save[p].at] = NoRoutes]
  /\ save' = [save EXCEPT ![p].phase = "write"]
  /\ UNCHANGED <<node, announcer, conn, inbox, history>>

Write(p) ==
  /\ save[p].phase = "write"
  /\ \E contents \in Written(file[save[p].at], save[p].routes) :
       file' = [file EXCEPT ![save[p].at] = contents]
  /\ save' = [save EXCEPT ![p] = NoSave]
  /\ heard' = IF p \in Workers /\ conn[p].op = "announce" /\ conn[p].client \in Nodes
              THEN heard \cup {<<conn[p].client, conn[p].at>>} ELSE heard
  /\ UNCHANGED <<node, announcer, conn, inbox, queries, faults>>

-----------------------------------------------------------------------------
(* Handling a connection (etb_handle_client)                               *)

(* The reply to any request but a user's query: a snapshot, and for a      *)
(* resolve request the endpoint it lists.                                  *)
ReplyOf(w) == [kind |-> "ok", routes |-> Snapshot(conn[w].at),
               found |-> IF conn[w].op = "resolve"
                         THEN Find(Snapshot(conn[w].at), conn[w].wants) ELSE None]

IsUserQuery(w) == conn[w].op = "query" /\ conn[w].wants # None

Respond(w) ==
  /\ conn[w].pc = "ingest" /\ Saved(w) /\ ~ IsUserQuery(w)
  /\ inbox' = IF conn[w].client = None THEN inbox
              ELSE [inbox EXCEPT ![conn[w].client] = ReplyOf(w)]
  /\ conn' = [conn EXCEPT ![w] = Free]
  /\ UNCHANGED <<node, file, announcer, save, history>>

(* etb_resolve_known_endpoint: a manual route, or one of the snapshot.     *)
Known(n, p) == IF p \in DOMAIN Manual[n] THEN Manual[n][p] ELSE Find(Snapshot(n), p)

Lookup(w) ==
  /\ conn[w].pc = "ingest" /\ Saved(w) /\ IsUserQuery(w)
  /\ LET known == Known(conn[w].at, conn[w].wants) IN
     conn' = [conn EXCEPT ![w].pc = IF known = None THEN "seeds" ELSE "ask",
                          ![w].target = known]
  /\ UNCHANGED <<node, file, announcer, save, inbox, history>>

(* The loop over the seeds of etb_resolve_discovery_endpoint. Slip: the    *)
(* next seed is the same one.                                              *)
MoreSeeds(w) == conn[w].index <= Len(Seeds[conn[w].at])
NextSeedSame(c) == [c EXCEPT !.pc = "seeds"]
NextSeed(c) == [c EXCEPT !.pc = "seeds", !.index = @ + 1]
SeedTried(w) == Seeds[conn[w].at][conn[w].index]

(* Where the process w connects to next, and with what request: a seed, or *)
(* the endpoint it found.                                                  *)
Asks(w) == conn[w].pc = "ask" \/ (conn[w].pc = "seeds" /\ MoreSeeds(w))
Callee(w) == IF conn[w].pc = "ask" THEN conn[w].target ELSE SeedTried(w)
CallOp(w) == IF conn[w].pc = "ask" THEN "query" ELSE "resolve"
CallFor(w) == IF conn[w].pc = "ask" THEN None ELSE conn[w].wants

Call(w) ==
  /\ Asks(w) /\ node[Callee(w)] = "up"
  /\ \E v \in FreeWorkers :
       /\ conn' = [conn EXCEPT ![w].pc = "wait",
                               ![v] = Handler(Callee(w), CallOp(w), w, CallFor(w))]
       /\ save' = [save EXCEPT ![v] =
                     SaveInto(Callee(w), Ingested(Callee(w), conn[w].at, CallOp(w)))]
  /\ UNCHANGED <<node, file, announcer, inbox, history>>

CallRefused(w) ==
  /\ Asks(w) /\ node[Callee(w)] # "up"
  /\ conn' = [conn EXCEPT ![w] = IF conn[w].pc = "ask" THEN Free ELSE NextSeed(conn[w])]
  /\ UNCHANGED <<node, file, announcer, save, inbox, history>>

NoRoute(w) ==
  /\ conn[w].pc = "seeds" /\ ~ MoreSeeds(w)
  /\ conn' = [conn EXCEPT ![w] = Free]
  /\ UNCHANGED <<node, file, announcer, save, inbox, history>>

(* A seed's reply: its routes are merged into the file, and the endpoint   *)
(* it found, if any, is taken afterwards.                                  *)
SeedReplies(w) ==
  /\ conn[w].pc = "wait" /\ conn[w].target = None /\ inbox[w].kind # "none"
  /\ inbox' = [inbox EXCEPT ![w] = NoReply]
  /\ IF inbox[w].kind = "failed"
     THEN conn' = [conn EXCEPT ![w] = NextSeed(conn[w])] /\ UNCHANGED save
     ELSE /\ conn' = [conn EXCEPT ![w].pc = "learn", ![w].target = inbox[w].found]
          /\ save' = [save EXCEPT ![w] = SaveInto(conn[w].at, inbox[w].routes)]
  /\ UNCHANGED <<node, file, announcer, history>>

SeedLearnt(w) ==
  /\ conn[w].pc = "learn" /\ Saved(w)
  /\ conn' = [conn EXCEPT ![w] = IF conn[w].target = None THEN NextSeed(conn[w])
                                 ELSE [conn[w] EXCEPT !.pc = "ask"]]
  /\ UNCHANGED <<node, file, announcer, save, inbox, history>>

(* The reply of the endpoint asked ends the query; its routes are not used. *)
TargetReplies(w) ==
  /\ conn[w].pc = "wait" /\ conn[w].target # None /\ inbox[w].kind # "none"
  /\ inbox' = [inbox EXCEPT ![w] = NoReply]
  /\ conn' = [conn EXCEPT ![w] = Free]
  /\ UNCHANGED <<node, file, announcer, save, history>>

-----------------------------------------------------------------------------
(* The announcer (etb_discovery_announce_loop)                             *)

AnnouncerAt(n, task) == announcer[n].pc = "next" /\ announcer[n].task = task
Pending(n, task) == AnnouncerAt(n, task) /\ task \notin announcer[n].done
NextTask(a) == [a EXCEPT !.pc = "next", !.task = @ + 1]

Announce(n) == \E task \in Tasks(n), w \in FreeWorkers :
  LET seed == SeedOf(n, task) IN
  /\ Pending(n, task) /\ node[seed] = "up"
  /\ announcer' = [announcer EXCEPT ![n].pc = "wait"]
  /\ conn' = [conn EXCEPT ![w] = Handler(seed, OpOf(task), n, None)]
  /\ save' = [save EXCEPT ![w] = SaveInto(seed, Ingested(seed, n, OpOf(task)))]
  /\ UNCHANGED <<node, file, inbox, history>>

(* A task done already, or a seed that does not answer in this round.      *)
PassOver(n) == \E task \in Tasks(n) :
  /\ AnnouncerAt(n, task)
  /\ task \in announcer[n].done \/ node[SeedOf(n, task)] # "up"
  /\ announcer' = [announcer EXCEPT ![n] = NextTask(announcer[n])]
  /\ UNCHANGED <<node, file, conn, save, inbox, history>>

AnnouncerReply(n) ==
  /\ announcer[n].pc = "wait" /\ inbox[n].kind # "none"
  /\ inbox' = [inbox EXCEPT ![n] = NoReply]
  /\ IF inbox[n].kind = "failed"
     THEN announcer' = [announcer EXCEPT ![n] = NextTask(announcer[n])] /\ UNCHANGED save
     ELSE /\ announcer' = [announcer EXCEPT ![n].pc = "learn"]
          /\ save' = [save EXCEPT ![n] = SaveInto(n, inbox[n].routes)]
  /\ UNCHANGED <<node, file, conn, history>>

TaskDone(n) ==
  /\ announcer[n].pc = "learn" /\ Saved(n)
  /\ announcer' = [announcer EXCEPT
       ![n] = [NextTask(announcer[n]) EXCEPT !.done = @ \cup {announcer[n].task}]]
  /\ UNCHANGED <<node, file, conn, save, inbox, history>>

(* The end of a round. Slips: rounds are not counted, or one too many.     *)
RoundsUncounted(n) == announcer[n].attempts
Rounds(n) == announcer[n].attempts + 1
OneMoreRound(n) == Rounds(n) <= MaxAttempts
MoreRounds(n) == Rounds(n) < MaxAttempts

EndRound(n) ==
  /\ AnnouncerAt(n, 2 * Len(Seeds[n]) + 1)
  /\ announcer' = [announcer EXCEPT ![n] =
       IF Tasks(n) \subseteq announcer[n].done THEN [@ EXCEPT !.pc = "ended"]
       ELSE [@ EXCEPT !.pc = IF MoreRounds(n) THEN "next" ELSE "ended",
                      !.task = 1, !.attempts = Rounds(n)]]
  /\ UNCHANGED <<node, file, conn, save, inbox, history>>

-----------------------------------------------------------------------------
(* Nodes, users and faults                                                 *)

(* etb_node_serve: the file is overwritten, then the node listens and, if  *)
(* it has seeds, forks its announcer. Processes of an earlier life of the  *)
(* node may still be at work on the file.                                  *)
Start(n) ==
  /\ node[n] = "down"
  /\ node' = [node EXCEPT ![n] = "starting"]
  /\ file' = [file EXCEPT ![n] = NoRoutes]
  /\ UNCHANGED <<announcer, conn, save, inbox, history>>

Listen(n) ==
  /\ node[n] = "starting"
  /\ node' = [node EXCEPT ![n] = "up"]
  /\ \E contents \in Written(file[n], Added(n)) : file' = [file EXCEPT ![n] = contents]
  /\ announcer' = [announcer EXCEPT ![n] =
       [Off EXCEPT !.pc = IF Seeds[n] = <<>> THEN "ended" ELSE "next"]]
  /\ heard' = {h \in heard : h[1] # n}
  /\ UNCHANGED <<conn, save, inbox, queries, faults>>

(* SIGTERM: the node stops listening and kills its announcer wherever it   *)
(* is; the processes that handle connections go on.                        *)
Stop(n) ==
  /\ node[n] = "up" /\ faults < MaxFaults
  /\ faults' = faults + 1
  /\ node' = [node EXCEPT ![n] = "down"]
  /\ announcer' = [announcer EXCEPT ![n] = Off]
  /\ save' = [save EXCEPT ![n] = NoSave]
  /\ inbox' = [inbox EXCEPT ![n] = NoReply]
  /\ conn' = [w \in Workers |-> IF conn[w].client = n THEN [conn[w] EXCEPT !.client = None]
                                ELSE conn[w]]
  /\ UNCHANGED <<file, queries, heard>>

(* A connection breaks: the client fails; if the request was not lost, it  *)
(* is carried out all the same.                                            *)
Break(w) ==
  /\ conn[w].client # None /\ faults < MaxFaults
  /\ faults' = faults + 1
  /\ inbox' = [inbox EXCEPT ![conn[w].client] = Failure]
  /\ \/ conn' = [conn EXCEPT ![w].client = None] /\ UNCHANGED save
     \/ /\ conn[w].pc = "ingest" /\ save[w].phase = "load"
        /\ conn' = [conn EXCEPT ![w] = Free]
        /\ save' = [save EXCEPT ![w] = NoSave]
  /\ UNCHANGED <<node, file, announcer, queries, heard>>

(* etbctl query: at n, a goal that needs a statement of p.                 *)
UserQuery(n, p) ==
  /\ node[n] = "up" /\ queries < MaxQueries
  /\ queries' = queries + 1
  /\ \E w \in FreeWorkers :
       /\ conn' = [conn EXCEPT ![w] = Handler(n, "query", None, p)]
       /\ save' = [save EXCEPT ![w] = SaveInto(n, Ingested(n, None, "query"))]
  /\ UNCHANGED <<node, file, announcer, inbox, faults, heard>>

-----------------------------------------------------------------------------
Init ==
  /\ node = [n \in Nodes |-> "down"]
  /\ file = [n \in Nodes |-> NoRoutes]
  /\ announcer = [n \in Nodes |-> Off]
  /\ conn = [w \in Workers |-> Free]
  /\ save = [p \in Procs |-> NoSave]
  /\ inbox = [p \in Procs |-> NoReply]
  /\ queries = 0 /\ faults = 0 /\ heard = {}

ChangeFile(p) == Load(p) \/ Truncate(p) \/ Write(p)
Handle(w) == \/ Respond(w) \/ Lookup(w) \/ Call(w) \/ CallRefused(w) \/ NoRoute(w)
             \/ SeedReplies(w) \/ SeedLearnt(w) \/ TargetReplies(w)
Discover(n) == \/ Announce(n) \/ PassOver(n) \/ AnnouncerReply(n) \/ TaskDone(n)
               \/ EndRound(n)

Next ==
  \/ \E p \in Procs : ChangeFile(p)
  \/ \E w \in Workers : Handle(w) \/ Break(w)
  \/ \E n \in Nodes : \/ Discover(n) \/ Start(n) \/ Listen(n) \/ Stop(n)
                      \/ \E p \in Principals : <<n, p>> \in Wants /\ UserQuery(n, p)

(* Every process that can go on does; nodes need not start, users need not *)
(* ask, and nothing has to fail.                                           *)
Spec == Init /\ [][Next]_vars
Fairness == /\ \A p \in Procs : WF_vars(ChangeFile(p))
            /\ \A w \in Workers : WF_vars(Handle(w))
            /\ \A n \in Nodes : WF_vars(Discover(n)) /\ WF_vars(Listen(n))
FairSpec == Spec /\ Fairness

-----------------------------------------------------------------------------
TypeOK ==
  /\ node \in [Nodes -> {"down", "starting", "up"}]
  /\ file \in [Nodes -> RouteMap]
  /\ announcer \in [Nodes -> Announcer]
  /\ conn \in [Workers -> Conn]
  /\ save \in [Procs -> Save]
  /\ inbox \in [Procs -> Reply]
  /\ queries \in Nat /\ faults \in Nat
  /\ heard \subseteq Nodes \X (Nodes \cup {None})

(* Somebody published that statements of p are had at n: n itself, or the  *)
(* user who set a manual route.                                            *)
Published(p, n) ==
  \/ p \in Hosts[n] \/ p = Id[n]
  \/ \E m \in Nodes : p \in DOMAIN Manual[m] /\ Manual[m][p] = n

(* A route is good if it was published, perhaps under a name whose front   *)
(* an interrupted rewrite has lost.                                        *)
Good(p, n) ==
  \E q \in Principals : (q = p \/ <<q, p>> \in Torn) /\ Published(q, n)
AllGood(map) == \A p \in DOMAIN map : Good(p, map[p])

(* Whatever the processes of a node interleave, no route is ever stored,   *)
(* about to be stored, sent or used for a query that was not published:    *)
(* overlaid and truncated files lose routes but invent none.               *)
RouteProvenance ==
  /\ \A n \in Nodes : AllGood(file[n])
  /\ \A p \in Procs : AllGood(save[p].routes) /\ AllGood(inbox[p].routes)
  /\ \A w \in Workers : conn[w].target # None /\ conn[w].wants # None =>
                          Good(conn[w].wants, conn[w].target)

(* A query for a principal with a manual route goes there, and one for a   *)
(* principal the node hosts itself stays, whatever others wrote into the   *)
(* node's file or a seed replied.                                          *)
OwnRoutesWin ==
  \A w \in Workers : conn[w].target # None /\ IsUserQuery(w) =>
    LET n == conn[w].at
        p == conn[w].wants
    IN  /\ p \in DOMAIN Manual[n] => conn[w].target = Manual[n][p]
        /\ p \in Hosts[n] \ DOMAIN Manual[n] => conn[w].target = n

(* An announcement counts as made only when the seed has saved the node's  *)
(* routes: a broken connection or a seed that stops in between leads to    *)
(* another attempt.                                                        *)
AnnouncedWasHeard ==
  \A n \in Nodes : \A task \in Tasks(n) :
    task \in announcer[n].done /\ OpOf(task) = "announce"
      => <<n, SeedOf(n, task)>> \in heard

(* No announcer at work, none that gave up, no process handling a request  *)
(* and no file being changed.                                              *)
Quiet ==
  /\ \A n \in Nodes : /\ node[n] = "up" /\ announcer[n].pc = "ended"
                      /\ Tasks(n) \subseteq announcer[n].done
  /\ \A w \in Workers : conn[w].pc = "free"
  /\ \A p \in Procs : save[p].phase = "idle"

(* docs/architecture.md 106-116: nodes announce one after the other, the   *)
(* seed's snapshot grows by the routes of each, and discovery converges.   *)
(* When all have announced with success, the seed knows them all.          *)
RegistryConverges ==
  Quiet => \A n \in Nodes : \A task \in Tasks(n) :
             Hosts[n] \subseteq DOMAIN Snapshot(SeedOf(n, task))

(* A node whose file only its announcer changes knows, once it has pulled  *)
(* from its seeds, a route for every principal they host, except while it  *)
(* rewrites the file: no race on the seed's side, though it may empty the  *)
(* seed's file, hides those.                                               *)
LeafLearnsSeeds ==
  \A n \in Nodes :
    /\ node[n] = "up" /\ \A m \in Nodes : n \notin {Seeds[m][i] : i \in DOMAIN Seeds[m]}
    /\ save[n].phase = "idle"
    => \A task \in announcer[n].done : Hosts[SeedOf(n, task)] \subseteq DOMAIN file[n]

(* An announcer comes to an end: all seeds heard it, or it gave up.        *)
AnnouncersEnd ==
  \A n \in Nodes : announcer[n].pc # "off" ~> announcer[n].pc \in {"off", "ended"}

(* A process handling a connection comes to an end, though it waits for a  *)
(* process of another node, or of its own, without a timeout. The one      *)
(* asked asks nobody in turn, as far as lookups go.                        *)
HandlersEnd == \A w \in Workers : conn[w].pc # "free" ~> conn[w].pc = "free"
=============================================================================
