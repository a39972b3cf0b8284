--------------------------- MODULE RegistryProofs ---------------------------
(***************************************************************************)
(* Proofs about Registry, for every set of nodes, programs, manual routes, *)
(* seeds and bounds: type correctness, that no interleaving of the         *)
(* processes of a node, no broken connection and no restart ever makes a   *)
(* route that nobody published, that a node's own routes win, and that     *)
(* what an announcer counts as announced was saved by the seed for the     *)
(* present life of the node, though nodes stop and start over while their  *)
(* requests are being handled, connections break and files are             *)
(* overwritten; that without faults and races a seed learns all that was   *)
(* announced to it, and that without queries a leaf keeps what it pulled;  *)
(* that nobody waits in a circle, and that what handles a connection and   *)
(* what announces take no more than a number of steps the seeds give.      *)
(***************************************************************************)
EXTENDS RegistryRace, TLAPS

-----------------------------------------------------------------------------
(* Route maps whose routes were all published.                             *)

GoodMap == {map \in RouteMap : AllGood(map)}

LEMMA MapType ==
  ASSUME NEW known \in SUBSET Principals, NEW map \in [known -> Nodes]
  PROVE  map \in RouteMap
BY DEF RouteMap

LEMMA MapFacts ==
  ASSUME NEW map \in RouteMap
  PROVE  /\ DOMAIN map \in SUBSET Principals
         /\ map \in [DOMAIN map -> Nodes]
BY DEF RouteMap

(* An empty map and a map of one published route are good.                 *)
LEMMA NoRoutesGood == NoRoutes \in GoodMap
<1>1. NoRoutes \in [{} -> Nodes] /\ DOMAIN NoRoutes = {}
  BY DEF NoRoutes
<1>2. NoRoutes \in RouteMap
  BY <1>1, MapType
<1> QED
  BY <1>1, <1>2 DEF GoodMap, AllGood

LEMMA RouteGood ==
  ASSUME NEW p \in Principals, NEW n \in Nodes, Good(p, n)
  PROVE  Route(p, n) \in GoodMap
<1>1. Route(p, n) \in [{p} -> Nodes] /\ DOMAIN Route(p, n) = {p} /\ Route(p, n)[p] = n
  BY DEF Route
<1>2. Route(p, n) \in RouteMap
  BY <1>1, MapType
<1> QED
  BY <1>1, <1>2 DEF GoodMap, AllGood

(* A merge of good maps is good.                                           *)
LEMMA MergeGood ==
  ASSUME NEW dst \in GoodMap, NEW src \in GoodMap
  PROVE  Merge(dst, src) \in GoodMap
<1> DEFINE known == DOMAIN dst \cup DOMAIN src
<1>1. dst \in RouteMap /\ src \in RouteMap /\ AllGood(dst) /\ AllGood(src)
  BY DEF GoodMap
<1>2. /\ known \in SUBSET Principals
      /\ dst \in [DOMAIN dst -> Nodes] /\ src \in [DOMAIN src -> Nodes]
  BY <1>1, MapFacts
<1>3. /\ DOMAIN Merge(dst, src) = known
      /\ \A p \in known : Merge(dst, src)[p] = IF p \in DOMAIN src THEN src[p] ELSE dst[p]
  BY DEF Merge
<1>4. \A p \in known : Merge(dst, src)[p] \in Nodes
  BY <1>2, <1>3
<1>5. Merge(dst, src) \in [known -> Nodes]
  BY <1>3, <1>4 DEF Merge
<1>6. Merge(dst, src) \in RouteMap
  BY <1>2, <1>5, MapType
<1>7. AllGood(Merge(dst, src))
  BY <1>1, <1>3 DEF AllGood
<1> QED
  BY <1>6, <1>7 DEF GoodMap

(* What is read out of a good map was published.                           *)
LEMMA FindGood ==
  ASSUME NEW map \in GoodMap, NEW p \in Principals \cup {None}
  PROVE  /\ Find(map, p) \in Nodes \cup {None}
         /\ Find(map, p) # None => p # None /\ Good(p, Find(map, p))
<1>1. map \in RouteMap /\ AllGood(map)
  BY DEF GoodMap
<1>2. None \notin DOMAIN map /\ map \in [DOMAIN map -> Nodes]
  BY <1>1, MapFacts, RegistryAssumption
<1> QED
  BY <1>1, <1>2 DEF Find, AllGood

-----------------------------------------------------------------------------
(* What nodes publish is good, and so is what they send of it.             *)

LEMMA LocalRoutesGood ==
  ASSUME NEW n \in Nodes
  PROVE  LocalRoutes(n) \in GoodMap
<1>1. Hosts[n] \in SUBSET Principals
  BY RegistryAssumption
<1>2. /\ LocalRoutes(n) \in [Hosts[n] -> Nodes] /\ DOMAIN LocalRoutes(n) = Hosts[n]
      /\ \A p \in Hosts[n] : LocalRoutes(n)[p] = n
  BY DEF LocalRoutes
<1>3. LocalRoutes(n) \in RouteMap
  BY <1>1, <1>2, MapType
<1>4. \A p \in Hosts[n] : Good(p, n)
  BY <1>1 DEF Good, Published
<1> QED
  BY <1>2, <1>3, <1>4 DEF GoodMap, AllGood

LEMMA ManualGood ==
  ASSUME NEW n \in Nodes
  PROVE  Manual[n] \in GoodMap
<1>1. Manual[n] \in RouteMap
  BY RegistryAssumption
<1>2. \A p \in DOMAIN Manual[n] : p \in Principals
  BY <1>1, MapFacts
<1>3. \A p \in DOMAIN Manual[n] : Good(p, Manual[n][p])
  BY <1>2 DEF Good, Published
<1> QED
  BY <1>1, <1>3 DEF GoodMap, AllGood

LEMMA AddedGood ==
  ASSUME NEW n \in Nodes
  PROVE  Added(n) \in GoodMap
BY LocalRoutesGood, ManualGood, MergeGood DEF Added

LEMMA IngestedGood ==
  ASSUME NEW n \in Nodes, NEW m \in Nodes \cup {None}, NEW op
  PROVE  Ingested(n, m, op) \in GoodMap
<1>1. RequestRoutes(m, op) \in GoodMap
  <2>1. CASE m = None
    BY <2>1, NoRoutesGood DEF RequestRoutes
  <2>2. CASE m # None
    <3>1. m \in Nodes /\ Id[m] \in Principals
      BY <2>2, RegistryAssumption
    <3>2. Good(Id[m], m)
      BY <3>1 DEF Good, Published
    <3>3. Route(Id[m], m) \in GoodMap
      BY <3>1, <3>2, RouteGood
    <3>4. LocalRoutes(m) \in GoodMap /\ NoRoutes \in GoodMap
      BY <3>1, LocalRoutesGood, NoRoutesGood
    <3>5. (IF op \in {"announce", "query"} THEN LocalRoutes(m) ELSE NoRoutes) \in GoodMap
      BY <3>4
    <3> QED
      BY <2>2, <3>3, <3>5, MergeGood DEF RequestRoutes
  <2> QED
    BY <2>1, <2>2
<1> QED
  BY <1>1, AddedGood, MergeGood DEF Ingested

(* A write over a file with good routes, by a process that saves good      *)
(* routes, leaves good routes: a name that lost its front is an end of one *)
(* that was published, and an end of an end is an end.                     *)
LEMMA WrittenGood ==
  ASSUME NEW old \in GoodMap, NEW new \in GoodMap, NEW contents \in Written(old, new)
  PROVE  contents \in GoodMap
<1>1. /\ old \in RouteMap /\ AllGood(old)
      /\ DOMAIN old \in SUBSET Principals /\ old \in [DOMAIN old -> Nodes]
  BY MapFacts DEF GoodMap
<1>2. CASE contents = new
  BY <1>2
<1>3. ASSUME NEW kept \in SUBSET DOMAIN old, contents \in Overlaid(old, new, kept)
      PROVE  contents \in GoodMap
  <2> DEFINE rest == [p \in kept |-> old[p]]
  <2>1. PICK cut \in Cuts(old, kept) : contents = Merge(Merge(new, cut), rest)
    BY <1>3 DEF Overlaid
  <2>2. cut \in GoodMap
    <3>1. CASE cut = NoRoutes
      BY <3>1, NoRoutesGood
    <3>2. ASSUME NEW t \in Torn, t[1] \in DOMAIN old, cut = Route(t[2], old[t[1]])
          PROVE  cut \in GoodMap
      <4>1. /\ t[1] \in Principals /\ t[2] \in Principals /\ t = <<t[1], t[2]>>
            /\ old[t[1]] \in Nodes
        BY <3>2, <1>1, RegistryAssumption
      <4>2. PICK q \in Principals : /\ q = t[1] \/ <<q, t[1]>> \in Torn
                                    /\ Published(q, old[t[1]])
        BY <3>2, <1>1 DEF AllGood, Good
      <4>3. <<q, t[2]>> \in Torn
        <5>1. <<t[1], t[2]>> \in Torn
          BY <3>2, <4>1
        <5>2. \A p, r, l \in Principals :
                <<p, r>> \in Torn /\ <<r, l>> \in Torn => <<p, l>> \in Torn
          BY RegistryAssumption
        <5> QED
          BY <4>1, <4>2, <5>1, <5>2
      <4>4. Good(t[2], old[t[1]])
        BY <4>2, <4>3 DEF Good
      <4> QED
        BY <3>2, <4>1, <4>4, RouteGood
    <3> QED
      BY <2>1, <3>1, <3>2 DEF Cuts
  <2>3. rest \in GoodMap
    <3>1. kept \in SUBSET Principals
      BY <1>1
    <3>2. rest \in [kept -> Nodes] /\ DOMAIN rest = kept
      BY <1>1
    <3>3. rest \in RouteMap
      BY <3>1, <3>2, MapType
    <3>4. AllGood(rest)
      BY <1>1, <3>2 DEF AllGood
    <3> QED
      BY <3>3, <3>4 DEF GoodMap
  <2> QED
    BY <2>1, <2>2, <2>3, MergeGood
<1> QED
  BY <1>2, <1>3 DEF Written

LEMMA SnapshotGood ==
  ASSUME NEW n \in Nodes, file[n] \in GoodMap
  PROVE  Snapshot(n) \in GoodMap
BY AddedGood, MergeGood DEF Snapshot

(* A manual route or one of a good snapshot was published.                 *)
LEMMA KnownGood ==
  ASSUME NEW n \in Nodes, file[n] \in GoodMap, NEW p \in Principals \cup {None}
  PROVE  /\ Known(n, p) \in Nodes \cup {None}
         /\ Known(n, p) # None => p # None /\ Good(p, Known(n, p))
<1>1. Known(n, p) = Find(Manual[n], p) \/ Known(n, p) = Find(Snapshot(n), p)
  BY DEF Known, Find
<1>2. Manual[n] \in GoodMap /\ Snapshot(n) \in GoodMap
  BY ManualGood, SnapshotGood
<1> QED
  BY <1>1, <1>2, FindGood

-----------------------------------------------------------------------------
(* The inductive invariant. Typed says of each variable what its type says *)
(* and more: maps are good, a process at work works for a node, the        *)
(* endpoint a process found is good for what it looks for, and only an     *)
(* announcer that gave up has made all its attempts. That is not inductive *)
(* alone: an endpoint in a seed's reply is good for the principal the seed *)
(* was asked for, and Linked says that it is the one its client waits for. *)

SaveOK == {s \in [phase : {"idle", "load", "truncate", "write"},
                  at : Nodes \cup {None}, routes : GoodMap] :
             s.phase # "idle" => s.at \in Nodes}

ReplyOK == [kind : {"none", "failed", "ok"}, routes : GoodMap, found : Nodes \cup {None}]

ConnOK == {c \in Conn :
             /\ c.pc # "free" => c.at \in Nodes
             /\ c.pc = "ask" => c.target \in Nodes
             /\ c.target # None /\ c.wants # None => Good(c.wants, c.target)}

AnnouncerOK == {a \in Announcer : a.attempts = MaxAttempts => a.pc = "ended"}

Typed ==
  /\ node \in [Nodes -> {"down", "starting", "up"}]
  /\ file \in [Nodes -> GoodMap]
  /\ announcer \in [Nodes -> AnnouncerOK]
  /\ conn \in [Workers -> ConnOK]
  /\ save \in [Procs -> SaveOK]
  /\ inbox \in [Procs -> ReplyOK]
  /\ queries \in Nat /\ faults \in Nat
  /\ heard \subseteq Nodes \X (Nodes \cup {None})

FreeUnlinked == \A w \in Workers : conn[w].pc = "free" => conn[w].client = None
ClientsWait == \A v, w \in Workers : conn[v].client = w =>
                 /\ conn[v].pc = "ingest" /\ conn[w].pc = "wait"
                 /\ conn[v].op = "resolve" => conn[v].wants = conn[w].wants
                 /\ conn[v].op = "query" => conn[v].wants = None
OneHandlerEach ==
  \A u, v, w \in Workers : conn[u].client = w /\ conn[v].client = w => u = v
RepliesAreLast == \A w \in Workers : inbox[w] # NoReply =>
                    conn[w].pc = "wait" /\ \A v \in Workers : conn[v].client # w
FoundGood == \A w \in Workers : inbox[w].found # None /\ conn[w].wants # None =>
               Good(conn[w].wants, inbox[w].found)

Linked == FreeUnlinked /\ ClientsWait /\ OneHandlerEach /\ RepliesAreLast /\ FoundGood

IInv == Typed /\ Linked

LEMMA TypedImplies ==
  ASSUME Typed
  PROVE  TypeOK /\ RouteProvenance
<1>1. GoodMap \subseteq RouteMap /\ \A map \in GoodMap : AllGood(map)
  BY DEF GoodMap
<1>2. AnnouncerOK \subseteq Announcer /\ ConnOK \subseteq Conn
  BY DEF AnnouncerOK, ConnOK
<1>3. SaveOK \subseteq Save /\ \A s \in SaveOK : s.routes \in GoodMap
  BY <1>1 DEF SaveOK, Save
<1>4. ReplyOK \subseteq Reply /\ \A r \in ReplyOK : r.routes \in GoodMap
  BY <1>1 DEF ReplyOK, Reply
<1>5. TypeOK
  BY <1>1, <1>2, <1>3, <1>4 DEF Typed, TypeOK
<1>6. \A w \in Workers : conn[w].target # None /\ conn[w].wants # None =>
                            Good(conn[w].wants, conn[w].target)
  BY DEF Typed, ConnOK
<1>7. \A p \in Procs : AllGood(save[p].routes) /\ AllGood(inbox[p].routes)
  BY <1>1, <1>3, <1>4 DEF Typed
<1>8. \A n \in Nodes : AllGood(file[n])
  BY <1>1 DEF Typed
<1> QED
  BY <1>5, <1>6, <1>7, <1>8 DEF RouteProvenance

LEMMA Constructors ==
  /\ NoSave \in SaveOK
  /\ NoReply \in ReplyOK /\ Failure \in ReplyOK /\ Failure # NoReply
  /\ Failure.found = None /\ NoReply.found = None
  /\ Free \in ConnOK /\ Free.pc = "free" /\ Free.client = None
  /\ Off \in AnnouncerOK
<1>1. NoRoutes \in GoodMap
  BY NoRoutesGood
<1>2. NoSave \in SaveOK
  BY <1>1 DEF NoSave, SaveOK
<1>3. /\ NoReply \in ReplyOK /\ Failure \in ReplyOK /\ Failure # NoReply
      /\ Failure.found = None /\ NoReply.found = None
  BY <1>1 DEF NoReply, Failure, ReplyOK
<1>4. Free \in ConnOK /\ Free.pc = "free" /\ Free.client = None
  BY DEF Free, ConnOK, Conn, Ops
<1>5. Off \in AnnouncerOK
  BY RegistryAssumption DEF Off, AnnouncerOK, Announcer
<1> QED
  BY <1>2, <1>3, <1>4, <1>5

LEMMA SaveIntoOK ==
  ASSUME NEW n \in Nodes, NEW routes \in GoodMap
  PROVE  SaveInto(n, routes) \in SaveOK
BY DEF SaveInto, SaveOK

LEMMA HandlerOK ==
  ASSUME NEW n \in Nodes, NEW op \in Ops, NEW client \in Procs \cup {None},
         NEW wants \in Principals \cup {None}
  PROVE  LET c == Handler(n, op, client, wants) IN
         /\ c \in ConnOK /\ c.pc = "ingest" /\ c.client = client
         /\ c.op = op /\ c.wants = wants
<1>1. Free \in Conn /\ Free.target = None
  BY Constructors DEF ConnOK, Free
<1>2. /\ Handler(n, op, client, wants) \in Conn
      /\ Handler(n, op, client, wants).pc = "ingest"
      /\ Handler(n, op, client, wants).at = n
      /\ Handler(n, op, client, wants).op = op
      /\ Handler(n, op, client, wants).client = client
      /\ Handler(n, op, client, wants).wants = wants
      /\ Handler(n, op, client, wants).target = None
  BY <1>1 DEF Handler, Conn
<1>3. Handler(n, op, client, wants) \in ConnOK
  BY <1>2 DEF ConnOK
<1> QED
  BY <1>2, <1>3

-----------------------------------------------------------------------------
(* The initial states.                                                     *)

LEMMA InitIInv ==
  ASSUME Init
  PROVE  IInv
<1>1. NoRoutes \in GoodMap
  BY NoRoutesGood
<1>2. Typed
  BY <1>1, Constructors DEF Init, Typed
<1>3. Linked
  BY Constructors, RegistryAssumption
     DEF Init, Procs, Linked, FreeUnlinked, ClientsWait, OneHandlerEach, RepliesAreLast,
         FoundGood
<1> QED
  BY <1>2, <1>3 DEF IInv

-----------------------------------------------------------------------------
(* Changing a file. Nothing of it touches who waits for whom.              *)

LEMMA LinkedUnchanged ==
  ASSUME Linked, UNCHANGED <<conn, inbox>>
  PROVE  Linked'
BY DEF Linked, FreeUnlinked, ClientsWait, OneHandlerEach, RepliesAreLast, FoundGood

LEMMA LoadStep ==
  ASSUME IInv, NEW p \in Procs, Load(p)
  PROVE  IInv'
<1>1. save[p] \in SaveOK /\ save[p].at \in Nodes
  BY DEF IInv, Typed, Load, SaveOK
<1>2. Updated(p) \in GoodMap
  <2>1. save[p].routes \in GoodMap /\ file[save[p].at] \in GoodMap
    BY <1>1 DEF IInv, Typed, SaveOK
  <2> QED
    BY <2>1, MergeGood DEF Updated
<1>3. [save[p] EXCEPT !.phase = "truncate", !.routes = Updated(p)] \in SaveOK
  BY <1>1, <1>2 DEF SaveOK
<1>4. save' = [save EXCEPT ![p] = [save[p] EXCEPT !.phase = "truncate", !.routes = Updated(p)]]
  BY DEF Load
<1>5. Typed'
  BY <1>3, <1>4 DEF IInv, Typed, Load, history
<1> QED
  BY <1>5, LinkedUnchanged DEF IInv, Load

LEMMA TruncateStep ==
  ASSUME IInv, NEW p \in Procs, Truncate(p)
  PROVE  IInv'
<1>1. save[p] \in SaveOK /\ save[p].at \in Nodes
  BY DEF IInv, Typed, Truncate, SaveOK
<1>2. [save[p] EXCEPT !.phase = "write"] \in SaveOK
  BY <1>1 DEF SaveOK
<1>3. save' = [save EXCEPT ![p] = [save[p] EXCEPT !.phase = "write"]]
  BY DEF Truncate
<1>4. Typed'
  BY <1>1, <1>2, <1>3, NoRoutesGood DEF IInv, Typed, Truncate, history
<1> QED
  BY <1>4, LinkedUnchanged DEF IInv, Truncate

LEMMA WriteStep ==
  ASSUME IInv, NEW p \in Procs, Write(p)
  PROVE  IInv'
<1>1. /\ save[p] \in SaveOK /\ save[p].at \in Nodes
      /\ save[p].routes \in GoodMap /\ file[save[p].at] \in GoodMap
  BY DEF IInv, Typed, Write, SaveOK
<1>2. PICK contents \in Written(file[save[p].at], save[p].routes) :
        file' = [file EXCEPT ![save[p].at] = contents]
  BY DEF Write
<1>3. contents \in GoodMap
  BY <1>1, <1>2, WrittenGood
<1>4. file' \in [Nodes -> GoodMap]
  BY <1>2, <1>3 DEF IInv, Typed
<1>5. heard' \subseteq Nodes \X (Nodes \cup {None})
  <2>1. CASE p \in Workers /\ conn[p].client \in Nodes
    <3>1. conn[p].at \in Nodes \cup {None}
      BY <2>1 DEF IInv, Typed, ConnOK, Conn
    <3> QED
      BY <2>1, <3>1 DEF IInv, Typed, Write
  <2>2. CASE ~ (p \in Workers /\ conn[p].client \in Nodes)
    BY <2>2 DEF IInv, Typed, Write
  <2> QED
    BY <2>1, <2>2
<1>6. Typed'
  BY <1>4, <1>5, Constructors DEF IInv, Typed, Write
<1> QED
  BY <1>6, LinkedUnchanged DEF IInv, Write

-----------------------------------------------------------------------------
(* Handling a connection.                                                  *)

(* A process nobody's handler works for may change its own state as it     *)
(* likes, if it is not a handler of another's request afterwards.          *)
LEMMA LinkedAfterMove ==
  ASSUME Linked, Typed, NEW w \in Workers, NEW new \in ConnOK,
         \A v \in Workers : conn[v].client # w,
         new.client \notin Workers, new.pc = "free" => new.client = None,
         conn' = [conn EXCEPT ![w] = new],
         \A u \in Workers : inbox'[u] = IF u = w THEN NoReply ELSE inbox[u]
  PROVE  Linked'
<1>1. \A u \in Workers : conn'[u] = IF u = w THEN new ELSE conn[u]
  BY DEF Typed
<1>2. FreeUnlinked'
  BY <1>1 DEF Linked, FreeUnlinked
<1>3. ClientsWait'
  BY <1>1 DEF Linked, ClientsWait
<1>4. OneHandlerEach'
  BY <1>1 DEF Linked, OneHandlerEach
<1>5. RepliesAreLast'
  BY <1>1 DEF Linked, RepliesAreLast
<1>6. FoundGood'
  BY <1>1, Constructors DEF Linked, FoundGood
<1> QED
  BY <1>2, <1>3, <1>4, <1>5, <1>6 DEF Linked

(* A process that waits for nothing has no handler and no reply.           *)
LEMMA NotWaiting ==
  ASSUME Linked, Typed, NEW w \in Workers, conn[w].pc # "wait"
  PROVE  /\ \A v \in Workers : conn[v].client # w
         /\ inbox[w] = NoReply
         /\ \A u \in Workers : inbox[u] = IF u = w THEN NoReply ELSE inbox[u]
BY DEF Linked, ClientsWait, RepliesAreLast

LEMMA NotAHandler ==
  ASSUME Linked, Typed, NEW w \in Workers, conn[w].pc # "ingest" \/ IsUserQuery(w)
  PROVE  conn[w].client \notin Workers
BY DEF Linked, ClientsWait, IsUserQuery

LEMMA RespondStep ==
  ASSUME IInv, NEW w \in Workers, Respond(w)
  PROVE  IInv'
<1> DEFINE c == conn[w].client
<1>1. /\ conn[w] \in ConnOK /\ conn[w].at \in Nodes /\ conn[w].pc = "ingest"
      /\ conn[w].wants \in Principals \cup {None} /\ c \in Procs \cup {None}
  BY DEF IInv, Typed, ConnOK, Conn, Respond
<1>2. Snapshot(conn[w].at) \in GoodMap
  BY <1>1, SnapshotGood DEF IInv, Typed
<1>3. /\ Find(Snapshot(conn[w].at), conn[w].wants) \in Nodes \cup {None}
      /\ Find(Snapshot(conn[w].at), conn[w].wants) # None =>
           Good(conn[w].wants, Find(Snapshot(conn[w].at), conn[w].wants))
  BY <1>1, <1>2, FindGood
<1>4. /\ ReplyOf(w) \in ReplyOK
      /\ ReplyOf(w).found # None =>
           conn[w].op = "resolve" /\ Good(conn[w].wants, ReplyOf(w).found)
  BY <1>2, <1>3 DEF ReplyOf, ReplyOK
<1>5. Typed'
  <2>1. inbox' \in [Procs -> ReplyOK]
    BY <1>1, <1>4 DEF IInv, Typed, Respond
  <2> QED
    BY <2>1, Constructors DEF IInv, Typed, Respond, history
<1>6. /\ \A u \in Workers : conn'[u] = IF u = w THEN Free ELSE conn[u]
      /\ \A u \in Workers : inbox'[u] = IF u = c THEN ReplyOf(w) ELSE inbox[u]
  <2>1. Workers \subseteq Procs /\ None \notin Workers
    BY RegistryAssumption DEF Procs
  <2> QED
    BY <2>1 DEF IInv, Typed, Respond
<1>7. Linked'
  <2>1. /\ \A v \in Workers : conn[v].client # w
        /\ None \notin Workers /\ Free.client = None /\ Free.pc = "free"
    BY <1>1, NotWaiting, Constructors, RegistryAssumption DEF IInv, Procs
  <2>2. FreeUnlinked'
    BY <1>6, <2>1 DEF IInv, Linked, FreeUnlinked
  <2>3. ClientsWait'
    BY <1>6, <2>1 DEF IInv, Linked, ClientsWait
  <2>4. OneHandlerEach'
    BY <1>6, <2>1 DEF IInv, Linked, OneHandlerEach
  <2>5. RepliesAreLast'
    <3>1. ASSUME NEW u \in Workers, u = c
          PROVE  conn'[u].pc = "wait" /\ \A v \in Workers : conn'[v].client # u
      BY <1>6, <2>1, <3>1 DEF IInv, Linked, ClientsWait, OneHandlerEach
    <3>2. ASSUME NEW u \in Workers, u # c, inbox'[u] # NoReply
          PROVE  conn'[u].pc = "wait" /\ \A v \in Workers : conn'[v].client # u
      BY <1>1, <1>6, <2>1, <3>2 DEF IInv, Linked, RepliesAreLast
    <3> QED
      BY <3>1, <3>2 DEF RepliesAreLast
  <2>6. FoundGood'
    <3>1. ASSUME NEW u \in Workers, u = c, ReplyOf(w).found # None
          PROVE  Good(conn[u].wants, ReplyOf(w).found)
      BY <1>4, <3>1 DEF IInv, Linked, ClientsWait
    <3>2. c # w
      BY <2>1
    <3>3. \A u \in Workers : inbox'[u].found # None => u # w
      BY <1>1, <1>6, <3>2, NotWaiting, Constructors DEF IInv
    <3> QED
      BY <1>6, <3>1, <3>3 DEF IInv, Linked, FoundGood
  <2> QED
    BY <2>2, <2>3, <2>4, <2>5, <2>6 DEF Linked
<1> QED
  BY <1>5, <1>7 DEF IInv
(* The steps in which a process only changes its own state.                *)
LEMMA MoveStep ==
  ASSUME IInv, NEW w \in Workers, NEW new \in ConnOK,
         conn[w].pc # "wait", conn[w].pc # "ingest" \/ IsUserQuery(w),
         new.client \in {None, conn[w].client}, new.pc = "free" => new.client = None,
         conn' = [conn EXCEPT ![w] = new],
         UNCHANGED <<node, file, announcer, save, inbox, history>>
  PROVE  IInv'
<1>1. Typed'
  BY DEF IInv, Typed, history
<1>2. new.client \notin Workers
  BY NotAHandler, RegistryAssumption DEF IInv, Procs
<1>3. Linked'
  BY <1>2, NotWaiting, LinkedAfterMove DEF IInv
<1> QED
  BY <1>1, <1>3 DEF IInv

LEMMA NextSeedOK ==
  ASSUME NEW c \in ConnOK, c.pc # "free"
  PROVE  /\ NextSeed(c) \in ConnOK /\ NextSeed(c).client = c.client
         /\ NextSeed(c).pc = "seeds" /\ NextSeed(c).wants = c.wants
<1>1. c \in Conn
  BY DEF ConnOK
<1>2. c.index + 1 \in Nat \ {0}
  BY <1>1 DEF Conn
<1>3. /\ NextSeed(c) \in Conn /\ NextSeed(c).pc = "seeds"
      /\ NextSeed(c).client = c.client /\ NextSeed(c).at = c.at
      /\ NextSeed(c).target = c.target /\ NextSeed(c).wants = c.wants
  BY <1>1, <1>2 DEF NextSeed, Conn
<1> QED
  BY <1>3 DEF ConnOK

LEMMA LookupStep ==
  ASSUME IInv, NEW w \in Workers, Lookup(w)
  PROVE  IInv'
<1> DEFINE known == Known(conn[w].at, conn[w].wants)
           new == [conn[w] EXCEPT !.pc = IF known = None THEN "seeds" ELSE "ask",
                                  !.target = known]
<1>1. /\ conn[w] \in ConnOK /\ conn[w] \in Conn /\ conn[w].at \in Nodes
      /\ conn[w].wants \in Principals \cup {None}
  BY DEF IInv, Typed, ConnOK, Conn, Lookup
<1>2. /\ known \in Nodes \cup {None}
      /\ known # None => Good(conn[w].wants, known)
  BY <1>1, KnownGood DEF IInv, Typed
<1>3. new \in Conn /\ new.pc \in {"seeds", "ask"} /\ new.client = conn[w].client
  BY <1>1, <1>2 DEF Conn
<1>4. new \in ConnOK
  BY <1>1, <1>2, <1>3 DEF ConnOK, Conn
<1>5. conn' = [conn EXCEPT ![w] = new]
  BY DEF Lookup
<1> HIDE DEF new
<1> QED
  BY <1>3, <1>4, <1>5, MoveStep DEF Lookup

LEMMA CallRefusedStep ==
  ASSUME IInv, NEW w \in Workers, CallRefused(w)
  PROVE  IInv'
<1> DEFINE new == IF conn[w].pc = "ask" THEN Free ELSE NextSeed(conn[w])
<1>1. conn[w] \in ConnOK /\ conn[w].pc \in {"ask", "seeds"}
  BY DEF IInv, Typed, CallRefused, Asks
<1>2. /\ new \in ConnOK /\ new.client \in {None, conn[w].client}
      /\ new.pc = "free" => new.client = None
  BY <1>1, NextSeedOK, Constructors
<1>3. conn' = [conn EXCEPT ![w] = new]
  BY DEF CallRefused
<1> HIDE DEF new
<1> QED
  BY <1>1, <1>2, <1>3, MoveStep DEF CallRefused

LEMMA NoRouteStep ==
  ASSUME IInv, NEW w \in Workers, NoRoute(w)
  PROVE  IInv'
BY Constructors, MoveStep DEF NoRoute

LEMMA SeedLearntStep ==
  ASSUME IInv, NEW w \in Workers, SeedLearnt(w)
  PROVE  IInv'
<1> DEFINE asking == [conn[w] EXCEPT !.pc = "ask"]
           new == IF conn[w].target = None THEN NextSeed(conn[w]) ELSE asking
<1>1. conn[w] \in ConnOK /\ conn[w] \in Conn /\ conn[w].pc = "learn"
  BY DEF IInv, Typed, SeedLearnt, ConnOK
<1>2. ASSUME conn[w].target # None
      PROVE  asking \in ConnOK /\ asking.client = conn[w].client /\ asking.pc = "ask"
  <2>1. /\ asking \in Conn /\ asking.client = conn[w].client /\ asking.pc = "ask"
        /\ asking.at = conn[w].at /\ asking.target = conn[w].target
        /\ asking.wants = conn[w].wants
    BY <1>1 DEF Conn
  <2>2. conn[w].target \in Nodes
    BY <1>1, <1>2 DEF Conn
  <2> HIDE DEF asking
  <2> QED
    BY <1>1, <2>1, <2>2 DEF ConnOK
<1>3. /\ new \in ConnOK /\ new.client = conn[w].client /\ new.pc # "free"
  BY <1>1, <1>2, NextSeedOK
<1>4. conn' = [conn EXCEPT ![w] = new]
  BY DEF SeedLearnt
<1> HIDE DEF new
<1> QED
  BY <1>1, <1>3, <1>4, MoveStep DEF SeedLearnt

(* A process that takes the reply it waited for.                           *)
LEMMA TakeReply ==
  ASSUME IInv, NEW w \in Workers, NEW new \in ConnOK,
         conn[w].pc = "wait", inbox[w] # NoReply,
         new.client \in {None, conn[w].client}, new.pc = "free" => new.client = None,
         conn' = [conn EXCEPT ![w] = new], inbox' = [inbox EXCEPT ![w] = NoReply]
  PROVE  Linked'
<1>1. Workers \subseteq Procs /\ None \notin Workers
  BY RegistryAssumption DEF Procs
<1>2. \A v \in Workers : conn[v].client # w
  BY DEF IInv, Linked, RepliesAreLast
<1>3. new.client \notin Workers
  BY <1>1, NotAHandler DEF IInv
<1>4. \A u \in Workers : inbox'[u] = IF u = w THEN NoReply ELSE inbox[u]
  BY <1>1 DEF IInv, Typed
<1> QED
  BY <1>2, <1>3, <1>4, LinkedAfterMove DEF IInv

LEMMA SeedRepliesStep ==
  ASSUME IInv, NEW w \in Workers, SeedReplies(w)
  PROVE  IInv'
<1>1. /\ conn[w] \in ConnOK /\ conn[w] \in Conn /\ conn[w].pc = "wait"
      /\ conn[w].target = None /\ conn[w].at \in Nodes
      /\ w \in Procs /\ inbox[w] \in ReplyOK /\ inbox[w] # NoReply
  BY DEF IInv, Typed, SeedReplies, ConnOK, Procs, NoReply
<1>2. inbox' = [inbox EXCEPT ![w] = NoReply] /\ inbox' \in [Procs -> ReplyOK]
  BY Constructors DEF IInv, Typed, SeedReplies
<1>3. CASE inbox[w].kind = "failed"
  <2>1. /\ NextSeed(conn[w]) \in ConnOK /\ NextSeed(conn[w]).client = conn[w].client
        /\ NextSeed(conn[w]).pc # "free"
    BY <1>1, NextSeedOK
  <2>2. conn' = [conn EXCEPT ![w] = NextSeed(conn[w])] /\ save' = save
    BY <1>3 DEF SeedReplies
  <2>3. Typed'
    BY <1>2, <2>1, <2>2 DEF IInv, Typed, SeedReplies, history
  <2>4. Linked'
    BY <1>1, <1>2, <2>1, <2>2, TakeReply
  <2> QED
    BY <2>3, <2>4 DEF IInv
<1>4. CASE inbox[w].kind # "failed"
  <2> DEFINE new == [conn[w] EXCEPT !.pc = "learn", !.target = inbox[w].found]
  <2>1. inbox[w].found \in Nodes \cup {None} /\ inbox[w].routes \in GoodMap
    BY <1>1 DEF ReplyOK
  <2>2. /\ new \in Conn /\ new.pc = "learn" /\ new.client = conn[w].client
        /\ new.at = conn[w].at /\ new.target = inbox[w].found
        /\ new.wants = conn[w].wants
    BY <1>1, <2>1 DEF Conn
  <2>3. conn' = [conn EXCEPT ![w] = new]
    BY <1>4 DEF SeedReplies
  <2> HIDE DEF new
  <2>4. new \in ConnOK
    BY <1>1, <2>2 DEF ConnOK, IInv, Linked, FoundGood
  <2>5. SaveInto(conn[w].at, inbox[w].routes) \in SaveOK
    BY <1>1, <2>1, SaveIntoOK
  <2>6. save' = [save EXCEPT ![w] = SaveInto(conn[w].at, inbox[w].routes)]
    BY <1>4 DEF SeedReplies
  <2>7. Typed'
    BY <1>2, <2>3, <2>4, <2>5, <2>6 DEF IInv, Typed, SeedReplies, history
  <2>8. Linked'
    BY <1>1, <1>2, <2>2, <2>3, <2>4, TakeReply
  <2> QED
    BY <2>7, <2>8 DEF IInv
<1> QED
  BY <1>3, <1>4

LEMMA TargetRepliesStep ==
  ASSUME IInv, NEW w \in Workers, TargetReplies(w)
  PROVE  IInv'
<1>1. conn[w].pc = "wait" /\ inbox[w] # NoReply
  BY DEF TargetReplies, NoReply
<1>2. Typed'
  BY Constructors DEF IInv, Typed, TargetReplies, history
<1>3. Linked'
  BY <1>1, Constructors, TakeReply DEF TargetReplies
<1> QED
  BY <1>2, <1>3 DEF IInv

-----------------------------------------------------------------------------
(* Accepting a connection.                                                 *)

(* A process accepted for no worker's request.                             *)
LEMMA LinkedAfterAccept ==
  ASSUME Linked, Typed, NEW v \in FreeWorkers, NEW new \in ConnOK,
         new.client \notin Workers, new.pc # "free",
         conn' = [conn EXCEPT ![v] = new], UNCHANGED inbox
  PROVE  Linked'
<1>1. v \in Workers /\ conn[v].pc = "free"
  BY DEF FreeWorkers
<1>2. /\ \A u \in Workers : conn[u].client # v
      /\ \A u \in Workers : inbox'[u] = IF u = v THEN NoReply ELSE inbox[u]
  BY <1>1, NotWaiting
<1> QED
  BY <1>1, <1>2, LinkedAfterMove

LEMMA SeedTriedIsNode ==
  ASSUME Typed, NEW w \in Workers, conn[w].at \in Nodes, MoreSeeds(w)
  PROVE  SeedTried(w) \in Nodes
<1>1. Seeds[conn[w].at] \in Seq(Nodes)
  BY RegistryAssumption
<1>2. conn[w].index \in 1..Len(Seeds[conn[w].at])
  <2>1. conn[w].index \in Nat \ {0}
    BY DEF Typed, ConnOK, Conn
  <2> QED
    BY <1>1, <2>1 DEF MoreSeeds
<1> QED
  BY <1>1, <1>2 DEF SeedTried

LEMMA CallStep ==
  ASSUME IInv, NEW w \in Workers, Call(w)
  PROVE  IInv'
<1> DEFINE waiting == [conn[w] EXCEPT !.pc = "wait"]
           handler == Handler(Callee(w), CallOp(w), w, CallFor(w))
           request == SaveInto(Callee(w), Ingested(Callee(w), conn[w].at, CallOp(w)))
<1>1. /\ conn[w] \in ConnOK /\ conn[w] \in Conn /\ conn[w].at \in Nodes
      /\ conn[w].pc \in {"ask", "seeds"} /\ conn[w].wants \in Principals \cup {None}
  BY DEF IInv, Typed, ConnOK, Conn, Call, Asks
<1>2. PICK v \in FreeWorkers :
        /\ conn' = [conn EXCEPT ![w].pc = "wait", ![v] = handler]
        /\ save' = [save EXCEPT ![v] = request]
  BY DEF Call
<1>3. v \in Workers /\ conn[v].pc = "free" /\ v # w
  BY <1>1 DEF FreeWorkers
<1>4. Callee(w) \in Nodes
  <2>1. CASE conn[w].pc = "ask"
    BY <1>1, <2>1 DEF Callee, ConnOK
  <2>2. CASE conn[w].pc # "ask"
    BY <1>1, <2>2, SeedTriedIsNode DEF Callee, IInv, Call, Asks
  <2> QED
    BY <2>1, <2>2
<1>5. /\ waiting \in Conn /\ waiting.pc = "wait" /\ waiting.client = conn[w].client
      /\ waiting.at = conn[w].at /\ waiting.target = conn[w].target
      /\ waiting.wants = conn[w].wants /\ waiting.op = conn[w].op
  BY <1>1 DEF Conn
<1> HIDE DEF waiting
<1>6. waiting \in ConnOK
  BY <1>1, <1>5 DEF ConnOK
<1>7. /\ CallOp(w) \in Ops /\ CallOp(w) \in {"resolve", "query"}
      /\ CallFor(w) \in Principals \cup {None} /\ w \in Procs \cup {None}
      /\ CallOp(w) = "resolve" => CallFor(w) = conn[w].wants
      /\ CallOp(w) = "query" => CallFor(w) = None
  BY <1>1 DEF CallOp, CallFor, Ops, Procs
<1>8. /\ handler \in ConnOK /\ handler.pc = "ingest" /\ handler.client = w
      /\ handler.op = CallOp(w) /\ handler.wants = CallFor(w)
  BY <1>4, <1>7, HandlerOK
<1>9. request \in SaveOK
  BY <1>1, <1>4, IngestedGood, SaveIntoOK
<1> HIDE DEF handler, request
<1>10. conn' = [conn EXCEPT ![w] = waiting, ![v] = handler]
  BY <1>2 DEF waiting
<1>11. Typed'
  <2>1. conn' \in [Workers -> ConnOK] /\ save' \in [Procs -> SaveOK]
    BY <1>2, <1>3, <1>6, <1>8, <1>9, <1>10 DEF IInv, Typed, Procs
  <2> QED
    BY <2>1 DEF IInv, Typed, Call, history
<1>12. \A u \in Workers : conn'[u] = IF u = v THEN handler ELSE
                                     IF u = w THEN waiting ELSE conn[u]
  BY <1>3, <1>10 DEF IInv, Typed
<1>13. Linked'
  <2>1. /\ inbox' = inbox /\ inbox[w] = NoReply /\ inbox[v] = NoReply
        /\ \A u \in Workers : conn[u].client # w /\ conn[u].client # v
        /\ waiting.client \notin Workers
    BY <1>1, <1>3, <1>5, NotWaiting, NotAHandler DEF IInv, Call
  <2>2. FreeUnlinked'
    BY <1>5, <1>8, <1>12 DEF IInv, Linked, FreeUnlinked
  <2>3. ClientsWait'
    <3> SUFFICES ASSUME NEW u \in Workers, NEW x \in Workers, conn'[u].client = x
                 PROVE  /\ conn'[u].pc = "ingest" /\ conn'[x].pc = "wait"
                        /\ conn'[u].op = "resolve" => conn'[u].wants = conn'[x].wants
                        /\ conn'[u].op = "query" => conn'[u].wants = None
      BY DEF ClientsWait
    <3>1. CASE u = v
      BY <1>3, <1>5, <1>7, <1>8, <1>12, <3>1
    <3>2. CASE u = w
      BY <1>3, <1>12, <2>1, <3>2
    <3>3. CASE u # v /\ u # w
      BY <1>12, <2>1, <3>3 DEF IInv, Linked, ClientsWait
    <3> QED
      BY <3>1, <3>2, <3>3
  <2>4. OneHandlerEach'
    BY <1>3, <1>8, <1>12, <2>1 DEF IInv, Linked, OneHandlerEach
  <2>5. RepliesAreLast'
    BY <1>3, <1>8, <1>12, <2>1 DEF IInv, Linked, RepliesAreLast
  <2>6. FoundGood'
    BY <1>3, <1>5, <1>12, <2>1, Constructors DEF IInv, Linked, FoundGood
  <2> QED
    BY <2>2, <2>3, <2>4, <2>5, <2>6 DEF Linked
<1> QED
  BY <1>11, <1>13 DEF IInv

LEMMA UserQueryStep ==
  ASSUME IInv, NEW n \in Nodes, NEW p \in Principals, UserQuery(n, p)
  PROVE  IInv'
<1> DEFINE handler == Handler(n, "query", None, p)
           request == SaveInto(n, Ingested(n, None, "query"))
<1>1. PICK v \in FreeWorkers : /\ conn' = [conn EXCEPT ![v] = handler]
                               /\ save' = [save EXCEPT ![v] = request]
  BY DEF UserQuery
<1>2. handler \in ConnOK /\ handler.pc = "ingest" /\ handler.client = None
  BY HandlerOK DEF Ops
<1>3. request \in SaveOK
  BY IngestedGood, SaveIntoOK
<1> HIDE DEF handler, request
<1>4. Typed'
  <2>1. conn' \in [Workers -> ConnOK] /\ save' \in [Procs -> SaveOK]
    BY <1>1, <1>2, <1>3 DEF IInv, Typed, FreeWorkers, Procs
  <2>2. queries' \in Nat
    BY DEF IInv, Typed, UserQuery
  <2> QED
    BY <2>1, <2>2 DEF IInv, Typed, UserQuery
<1>5. Linked'
  BY <1>1, <1>2, LinkedAfterAccept, RegistryAssumption DEF IInv, UserQuery, Procs
<1> QED
  BY <1>4, <1>5 DEF IInv

-----------------------------------------------------------------------------
(* The announcer.                                                          *)

LEMMA SeedIsNode ==
  ASSUME NEW n \in Nodes, NEW task \in Tasks(n)
  PROVE  task \in Nat /\ SeedOf(n, task) \in Nodes
<1>1. Seeds[n] \in Seq(Nodes) /\ Len(Seeds[n]) \in Nat
  BY RegistryAssumption
<1>2. task \in Nat /\ (task + 1) \div 2 \in 1..Len(Seeds[n])
  BY <1>1 DEF Tasks
<1> QED
  BY <1>1, <1>2 DEF SeedOf

LEMMA AnnouncerFields ==
  ASSUME Typed, NEW n \in Nodes
  PROVE  /\ announcer[n] \in AnnouncerOK /\ announcer[n] \in Announcer
         /\ announcer[n].task \in Nat /\ announcer[n].done \in SUBSET Nat
         /\ announcer[n].attempts \in 0..MaxAttempts
         /\ announcer[n].pc # "ended" => announcer[n].attempts # MaxAttempts
BY DEF Typed, AnnouncerOK, Announcer

LEMMA NextTaskOK ==
  ASSUME NEW a \in AnnouncerOK, a.pc # "ended", NEW done \in SUBSET Nat
  PROVE  NextTask(a) \in AnnouncerOK /\ [NextTask(a) EXCEPT !.done = done] \in AnnouncerOK
<1>1. a \in Announcer /\ a.attempts # MaxAttempts /\ a.task + 1 \in Nat
  BY DEF AnnouncerOK, Announcer
<1>2. NextTask(a) \in Announcer /\ NextTask(a).attempts = a.attempts
  BY <1>1 DEF NextTask, Announcer
<1>3. /\ [NextTask(a) EXCEPT !.done = done] \in Announcer
      /\ [NextTask(a) EXCEPT !.done = done].attempts = a.attempts
  BY <1>2 DEF Announcer
<1> QED
  BY <1>1, <1>2, <1>3 DEF AnnouncerOK

LEMMA AnnounceStep ==
  ASSUME IInv, NEW n \in Nodes, Announce(n)
  PROVE  IInv'
<1>1. PICK task \in Tasks(n), v \in FreeWorkers :
        /\ Pending(n, task)
        /\ announcer' = [announcer EXCEPT ![n].pc = "wait"]
        /\ conn' = [conn EXCEPT ![v] = Handler(SeedOf(n, task), OpOf(task), n, None)]
        /\ save' = [save EXCEPT ![v] = SaveInto(SeedOf(n, task),
                                   Ingested(SeedOf(n, task), n, OpOf(task)))]
        /\ UNCHANGED <<node, file, inbox, history>>
  BY DEF Announce
<1> DEFINE handler == Handler(SeedOf(n, task), OpOf(task), n, None)
           request == SaveInto(SeedOf(n, task), Ingested(SeedOf(n, task), n, OpOf(task)))
           waiting == [announcer[n] EXCEPT !.pc = "wait"]
<1>2. SeedOf(n, task) \in Nodes /\ OpOf(task) \in Ops /\ n \in Procs \cup {None}
  BY SeedIsNode DEF OpOf, Ops, Procs
<1>3. handler \in ConnOK /\ handler.pc = "ingest" /\ handler.client = n
  BY <1>2, HandlerOK
<1>4. request \in SaveOK
  BY <1>2, IngestedGood, SaveIntoOK
<1>5. waiting \in AnnouncerOK
  <2>1. announcer[n] \in Announcer /\ announcer[n].attempts # MaxAttempts
    BY <1>1, AnnouncerFields DEF Pending, AnnouncerAt, IInv
  <2>2. waiting \in Announcer /\ waiting.attempts = announcer[n].attempts
    BY <2>1 DEF Announcer
  <2> QED
    BY <2>1, <2>2 DEF AnnouncerOK
<1>6. announcer' = [announcer EXCEPT ![n] = waiting]
  BY <1>1
<1> HIDE DEF handler, request, waiting
<1>7. Typed'
  <2>1. conn' \in [Workers -> ConnOK] /\ save' \in [Procs -> SaveOK]
    BY <1>1, <1>3, <1>4 DEF IInv, Typed, FreeWorkers, Procs, handler, request
  <2>2. announcer' \in [Nodes -> AnnouncerOK]
    BY <1>5, <1>6 DEF IInv, Typed
  <2> QED
    BY <1>1, <2>1, <2>2 DEF IInv, Typed, history
<1>8. n \notin Workers
  BY RegistryAssumption
<1>9. Linked'
  BY <1>1, <1>3, <1>8, LinkedAfterAccept DEF IInv, handler
<1> QED
  BY <1>7, <1>9 DEF IInv
LEMMA PassOverStep ==
  ASSUME IInv, NEW n \in Nodes, PassOver(n)
  PROVE  IInv'
<1>1. announcer[n].pc = "next" /\ announcer' = [announcer EXCEPT ![n] = NextTask(announcer[n])]
  BY DEF PassOver, AnnouncerAt
<1>2. NextTask(announcer[n]) \in AnnouncerOK
  BY <1>1, AnnouncerFields, NextTaskOK DEF IInv
<1>3. Typed'
  BY <1>1, <1>2 DEF IInv, Typed, PassOver, history
<1> QED
  BY <1>3, LinkedUnchanged DEF IInv, PassOver

(* Only the replies of workers are linked.                                 *)
LEMMA LinkedAfterAnnouncerReply ==
  ASSUME IInv, NEW n \in Nodes, inbox' = [inbox EXCEPT ![n] = NoReply], UNCHANGED conn
  PROVE  Linked'
<1>1. \A w \in Workers : inbox'[w] = inbox[w]
  BY RegistryAssumption DEF IInv, Typed, Procs
<1> QED
  BY <1>1 DEF IInv, Linked, FreeUnlinked, ClientsWait, OneHandlerEach, RepliesAreLast,
              FoundGood

LEMMA AnnouncerReplyStep ==
  ASSUME IInv, NEW n \in Nodes, AnnouncerReply(n)
  PROVE  IInv'
<1>1. /\ announcer[n].pc = "wait" /\ announcer[n] \in AnnouncerOK
      /\ announcer[n] \in Announcer /\ announcer[n].attempts # MaxAttempts
      /\ n \in Procs /\ inbox[n] \in ReplyOK
  BY AnnouncerFields DEF IInv, Typed, AnnouncerReply, Procs
<1>2. inbox' = [inbox EXCEPT ![n] = NoReply] /\ inbox' \in [Procs -> ReplyOK]
  BY Constructors DEF IInv, Typed, AnnouncerReply
<1>3. CASE inbox[n].kind = "failed"
  <2>1. NextTask(announcer[n]) \in AnnouncerOK
    BY <1>1, NextTaskOK
  <2>2. Typed'
    BY <1>2, <1>3, <2>1 DEF IInv, Typed, AnnouncerReply, history
  <2> QED
    BY <1>2, <2>2, LinkedAfterAnnouncerReply DEF IInv, AnnouncerReply
<1>4. CASE inbox[n].kind # "failed"
  <2> DEFINE learning == [announcer[n] EXCEPT !.pc = "learn"]
  <2>1. learning \in Announcer /\ learning.attempts = announcer[n].attempts
    BY <1>1 DEF Announcer
  <2>2. learning \in AnnouncerOK
    BY <1>1, <2>1 DEF AnnouncerOK
  <2>3. SaveInto(n, inbox[n].routes) \in SaveOK
    BY <1>1, SaveIntoOK DEF ReplyOK
  <2>4. /\ announcer' = [announcer EXCEPT ![n] = learning]
        /\ save' = [save EXCEPT ![n] = SaveInto(n, inbox[n].routes)]
    BY <1>4 DEF AnnouncerReply
  <2> HIDE DEF learning
  <2>5. Typed'
    BY <1>2, <2>2, <2>3, <2>4 DEF IInv, Typed, AnnouncerReply, history
  <2> QED
    BY <1>2, <2>5, LinkedAfterAnnouncerReply DEF IInv, AnnouncerReply
<1> QED
  BY <1>3, <1>4

LEMMA TaskDoneStep ==
  ASSUME IInv, NEW n \in Nodes, TaskDone(n)
  PROVE  IInv'
<1> DEFINE done == NextTask(announcer[n]).done \cup {announcer[n].task}
<1>1. /\ announcer[n].pc = "learn" /\ announcer[n] \in AnnouncerOK
      /\ announcer[n].task \in Nat
  BY AnnouncerFields DEF IInv, TaskDone
<1>2. NextTask(announcer[n]) \in AnnouncerOK
  BY <1>1, AnnouncerFields, NextTaskOK DEF IInv
<1>3. done \in SUBSET Nat
  BY <1>1, <1>2 DEF AnnouncerOK, Announcer
<1>4. announcer' = [announcer EXCEPT ![n] = [NextTask(announcer[n]) EXCEPT !.done = done]]
  BY DEF TaskDone
<1> HIDE DEF done
<1>5. [NextTask(announcer[n]) EXCEPT !.done = done] \in AnnouncerOK
  BY <1>1, <1>3, NextTaskOK
<1>6. Typed'
  BY <1>4, <1>5 DEF IInv, Typed, TaskDone, history
<1> QED
  BY <1>6, LinkedUnchanged DEF IInv, TaskDone

LEMMA EndRoundStep ==
  ASSUME IInv, NEW n \in Nodes, EndRound(n)
  PROVE  IInv'
<1>1. /\ announcer[n] \in Announcer /\ announcer[n].pc = "next"
      /\ announcer[n].attempts \in 0..MaxAttempts
      /\ announcer[n].attempts # MaxAttempts /\ MaxAttempts \in Nat
  BY AnnouncerFields, RegistryAssumption DEF IInv, EndRound, AnnouncerAt
<1>2. Rounds(n) \in 0..MaxAttempts /\ (MoreRounds(n) <=> Rounds(n) # MaxAttempts)
  BY <1>1 DEF Rounds, MoreRounds
<1> DEFINE finished == [announcer[n] EXCEPT !.pc = "ended"]
           further == [announcer[n] EXCEPT
                         !.pc = IF MoreRounds(n) THEN "next" ELSE "ended",
                         !.task = 1, !.attempts = Rounds(n)]
<1>3. finished \in AnnouncerOK
  BY <1>1 DEF AnnouncerOK, Announcer
<1>4. further \in AnnouncerOK
  <2>1. /\ further \in Announcer /\ further.attempts = Rounds(n)
        /\ further.pc = IF MoreRounds(n) THEN "next" ELSE "ended"
    BY <1>1, <1>2 DEF Announcer
  <2> HIDE DEF further
  <2> QED
    BY <1>2, <2>1 DEF AnnouncerOK
<1>5. announcer' = [announcer EXCEPT ![n] = finished]
      \/ announcer' = [announcer EXCEPT ![n] = further]
  BY DEF EndRound
<1> HIDE DEF finished, further
<1>6. Typed'
  BY <1>3, <1>4, <1>5 DEF IInv, Typed, EndRound, history
<1> QED
  BY <1>6, LinkedUnchanged DEF IInv, EndRound

-----------------------------------------------------------------------------
(* Nodes and faults.                                                       *)

LEMMA StartStep ==
  ASSUME IInv, NEW n \in Nodes, Start(n)
  PROVE  IInv'
<1>1. Typed'
  BY NoRoutesGood DEF IInv, Typed, Start, history
<1> QED
  BY <1>1, LinkedUnchanged DEF IInv, Start

LEMMA ListenStep ==
  ASSUME IInv, NEW n \in Nodes, Listen(n)
  PROVE  IInv'
<1>1. PICK contents \in Written(file[n], Added(n)) : file' = [file EXCEPT ![n] = contents]
  BY DEF Listen
<1>2. contents \in GoodMap
  BY <1>1, AddedGood, WrittenGood DEF IInv, Typed
<1> DEFINE forked == [Off EXCEPT !.pc = IF Seeds[n] = <<>> THEN "ended" ELSE "next"]
<1>3. forked \in AnnouncerOK
  <2>1. Off \in Announcer /\ Off.attempts = 0 /\ MaxAttempts # 0
    BY Constructors, RegistryAssumption DEF Off, AnnouncerOK
  <2>2. forked \in Announcer /\ forked.attempts = 0
    BY <2>1 DEF Announcer
  <2> QED
    BY <2>1, <2>2 DEF AnnouncerOK
<1>4. announcer' = [announcer EXCEPT ![n] = forked]
  BY DEF Listen
<1> HIDE DEF forked
<1>5. Typed'
  BY <1>1, <1>2, <1>3, <1>4 DEF IInv, Typed, Listen
<1> QED
  BY <1>5, LinkedUnchanged DEF IInv, Listen

(* A handler whose client is gone is still a handler.                      *)
LEMMA WithoutClientOK ==
  ASSUME NEW c \in ConnOK
  PROVE  LET new == [c EXCEPT !.client = None] IN
         /\ new \in ConnOK /\ new.client = None /\ new.pc = c.pc
         /\ new.op = c.op /\ new.wants = c.wants
<1> DEFINE new == [c EXCEPT !.client = None]
<1>1. /\ new \in Conn /\ new.client = None /\ new.pc = c.pc /\ new.op = c.op
      /\ new.wants = c.wants /\ new.at = c.at /\ new.target = c.target
  BY DEF ConnOK, Conn
<1> HIDE DEF new
<1>2. new \in ConnOK
  BY <1>1 DEF ConnOK
<1> QED
  BY <1>1, <1>2 DEF new

LEMMA StopStep ==
  ASSUME IInv, NEW n \in Nodes, Stop(n)
  PROVE  IInv'
<1>1. conn' = [w \in Workers |-> IF conn[w].client = n THEN [conn[w] EXCEPT !.client = None]
                                 ELSE conn[w]]
  BY DEF Stop
<1>2. \A w \in Workers : /\ conn'[w] \in ConnOK
                         /\ conn'[w].client = IF conn[w].client = n THEN None ELSE conn[w].client
                         /\ conn'[w].pc = conn[w].pc /\ conn'[w].op = conn[w].op
                         /\ conn'[w].wants = conn[w].wants
  BY <1>1, WithoutClientOK DEF IInv, Typed
<1>3. conn' \in [Workers -> ConnOK]
  BY <1>1, <1>2
<1>4. Typed'
  <2>1. faults' \in Nat
    BY DEF IInv, Typed, Stop
  <2>2. announcer' \in [Nodes -> AnnouncerOK] /\ node' \in [Nodes -> {"down", "starting", "up"}]
    BY Constructors DEF IInv, Typed, Stop
  <2>3. save' \in [Procs -> SaveOK] /\ inbox' \in [Procs -> ReplyOK]
    BY Constructors DEF IInv, Typed, Stop
  <2> QED
    BY <1>3, <2>1, <2>2, <2>3 DEF IInv, Typed, Stop
<1>5. \A w \in Workers : inbox'[w] = inbox[w] /\ w # None
  BY RegistryAssumption DEF IInv, Typed, Stop, Procs
<1>6. Linked'
  BY <1>2, <1>5 DEF IInv, Linked, FreeUnlinked, ClientsWait, OneHandlerEach,
                    RepliesAreLast, FoundGood
<1> QED
  BY <1>4, <1>6 DEF IInv

LEMMA BreakStep ==
  ASSUME IInv, NEW w \in Workers, Break(w)
  PROVE  IInv'
<1> DEFINE c == conn[w].client
           without == [conn[w] EXCEPT !.client = None]
<1>1. conn[w] \in ConnOK /\ c \in Procs /\ None \notin Workers /\ Workers \subseteq Procs
  BY RegistryAssumption DEF IInv, Typed, Break, ConnOK, Conn, Procs
<1>2. /\ without \in ConnOK /\ without.client = None /\ without.pc = conn[w].pc
      /\ without.op = conn[w].op /\ without.wants = conn[w].wants
  BY <1>1, WithoutClientOK
<1>3. PICK new \in ConnOK : /\ conn' = [conn EXCEPT ![w] = new] /\ new.client = None
                            /\ new = without \/ (new = Free /\ conn[w].pc = "ingest")
  <2>1. \/ conn' = [conn EXCEPT ![w] = without]
        \/ conn' = [conn EXCEPT ![w] = Free] /\ conn[w].pc = "ingest"
    BY DEF Break
  <2> HIDE DEF without
  <2> QED
    BY <1>2, <2>1, Constructors
<1>4. \A u \in Workers : conn'[u] = IF u = w THEN new ELSE conn[u]
  BY <1>3 DEF IInv, Typed
<1>5. \A u \in Workers : inbox'[u] = IF u = c THEN Failure ELSE inbox[u]
  BY <1>1 DEF IInv, Typed, Break
<1>6. Typed'
  <2>1. faults' \in Nat
    BY DEF IInv, Typed, Break
  <2>2. save' \in [Procs -> SaveOK] /\ inbox' \in [Procs -> ReplyOK]
    BY Constructors DEF IInv, Typed, Break
  <2>3. conn' \in [Workers -> ConnOK]
    BY <1>3 DEF IInv, Typed
  <2> QED
    BY <2>1, <2>2, <2>3 DEF IInv, Typed, Break
<1> HIDE DEF without
<1>7. \A u \in Workers : conn'[u].pc = "wait" <=> conn[u].pc = "wait"
  BY <1>2, <1>3, <1>4, Constructors
<1>8. \A u \in Workers : conn[u].pc = "wait" => conn'[u].wants = conn[u].wants
  BY <1>2, <1>3, <1>4
<1>9. FreeUnlinked'
  BY <1>3, <1>4 DEF IInv, Linked, FreeUnlinked
<1>10. ClientsWait'
  BY <1>1, <1>3, <1>4, <1>7, <1>8 DEF IInv, Linked, ClientsWait
<1>11. OneHandlerEach'
  BY <1>1, <1>3, <1>4 DEF IInv, Linked, OneHandlerEach
<1>12. RepliesAreLast'
  <2>1. ASSUME NEW u \in Workers, u = c
        PROVE  conn'[u].pc = "wait" /\ \A v \in Workers : conn'[v].client # u
    BY <1>1, <1>3, <1>4, <1>7, <2>1 DEF IInv, Linked, ClientsWait, OneHandlerEach
  <2>2. ASSUME NEW u \in Workers, u # c, inbox'[u] # NoReply
        PROVE  conn'[u].pc = "wait" /\ \A v \in Workers : conn'[v].client # u
    BY <1>1, <1>3, <1>4, <1>5, <1>7, <2>2 DEF IInv, Linked, RepliesAreLast
  <2> QED
    BY <2>1, <2>2 DEF RepliesAreLast
<1>13. FoundGood'
  <2>1. \A u \in Workers : inbox'[u].found # None => inbox[u].found # None /\ inbox'[u] = inbox[u]
    BY <1>5, Constructors
  <2>2. \A u \in Workers : inbox[u].found # None => conn[u].pc = "wait"
    BY Constructors DEF IInv, Linked, RepliesAreLast
  <2> QED
    BY <1>8, <2>1, <2>2 DEF IInv, Linked, FoundGood
<1> QED
  BY <1>6, <1>9, <1>10, <1>11, <1>12, <1>13 DEF IInv, Linked

-----------------------------------------------------------------------------
(* The invariant holds in every reachable state.                           *)

LEMMA StutterStep ==
  ASSUME IInv, UNCHANGED vars
  PROVE  IInv'
<1>1. Typed'
  BY DEF IInv, Typed, vars
<1> QED
  BY <1>1, LinkedUnchanged DEF IInv, vars

LEMMA NextIInv ==
  ASSUME IInv, [Next]_vars
  PROVE  IInv'
<1>1. ASSUME NEW p \in Procs, ChangeFile(p) PROVE IInv'
  BY <1>1, LoadStep, TruncateStep, WriteStep DEF ChangeFile
<1>2. ASSUME NEW w \in Workers, Handle(w) PROVE IInv'
  BY <1>2, RespondStep, LookupStep, CallStep, CallRefusedStep, NoRouteStep,
     SeedRepliesStep, SeedLearntStep, TargetRepliesStep DEF Handle
<1>3. ASSUME NEW n \in Nodes, Discover(n) PROVE IInv'
  BY <1>3, AnnounceStep, PassOverStep, AnnouncerReplyStep, TaskDoneStep, EndRoundStep
     DEF Discover
<1>4. CASE Next
  BY <1>1, <1>2, <1>3, <1>4, BreakStep, StartStep, ListenStep, StopStep, UserQueryStep
     DEF Next
<1>5. CASE UNCHANGED vars
  BY <1>5, StutterStep
<1> QED
  BY <1>4, <1>5

(* Nodes, files, announcers, handlers and replies keep to their types,     *)
(* whatever etb_handle_client, etb_discovery_announce_loop and             *)
(* etb_node_serve interleave; announcers stop at the limit of attempts.    *)
THEOREM TypeCorrect == Spec => []TypeOK
<1>1. IInv => TypeOK
  BY TypedImplies DEF IInv
<1> QED
  BY <1>1, InitIInv, NextIInv, PTL DEF Spec

(* Every route in a registry file, on its way into one, in a reply or used *)
(* for a query was published, for its name or one it is an end of: the     *)
(* unlocked etb_registry_load and etb_registry_save may lose routes, and   *)
(* never redirect one.                                                     *)
THEOREM RoutesAreProvenanced == Spec => []RouteProvenance
<1>1. IInv => RouteProvenance
  BY TypedImplies DEF IInv
<1> QED
  BY <1>1, InitIInv, NextIInv, PTL DEF Spec

-----------------------------------------------------------------------------
(* A user's query for a principal its node has a manual route for, or      *)
(* hosts, has its endpoint from the lookup, and so never asks a seed.      *)
OwnEndpoint(n, p) == IF p \in DOMAIN Manual[n] THEN Manual[n][p] ELSE n
OwnsWanted(c) == c.wants \in DOMAIN Manual[c.at] \cup Hosts[c.at]
OwnOK(c) ==
  c.op = "query" /\ c.wants # None /\ OwnsWanted(c) =>
    \/ c.pc = "ingest" /\ c.target = None
    \/ c.pc \in {"ask", "wait"} /\ c.target = OwnEndpoint(c.at, c.wants)
Own == \A w \in Workers : OwnOK(conn[w])

LEMMA OwnEndpointIsNode ==
  ASSUME NEW n \in Nodes, NEW p
  PROVE  OwnEndpoint(n, p) \in Nodes /\ OwnEndpoint(n, p) # None
<1>1. Manual[n] \in RouteMap
  BY RegistryAssumption
<1>2. Manual[n] \in [DOMAIN Manual[n] -> Nodes] /\ None \notin Nodes
  BY <1>1, MapFacts, RegistryAssumption DEF Procs
<1> QED
  BY <1>2 DEF OwnEndpoint

(* etb_resolve_known_endpoint finds it, whatever the file says.            *)
LEMMA KnownIsOwn ==
  ASSUME NEW n \in Nodes, NEW p \in DOMAIN Manual[n] \cup Hosts[n]
  PROVE  Known(n, p) = OwnEndpoint(n, p)
<1>1. CASE p \in DOMAIN Manual[n]
  BY <1>1 DEF Known, OwnEndpoint
<1>2. CASE p \notin DOMAIN Manual[n]
  <2>1. DOMAIN LocalRoutes(n) = Hosts[n] /\ LocalRoutes(n)[p] = n
    BY <1>2 DEF LocalRoutes
  <2>2. p \in DOMAIN Added(n) /\ Added(n)[p] = n
    BY <1>2, <2>1 DEF Added, Merge
  <2>3. p \in DOMAIN Snapshot(n) /\ Snapshot(n)[p] = n
    BY <2>2 DEF Snapshot, Merge
  <2> QED
    BY <1>2, <2>3 DEF Known, Find, OwnEndpoint
<1> QED
  BY <1>1, <1>2

LEMMA FreshOwn ==
  /\ OwnOK(Free)
  /\ \A n, op, client, wants : OwnOK(Handler(n, op, client, wants))
<1>1. OwnOK(Free)
  BY DEF OwnOK, Free
<1>2. ASSUME NEW n, NEW op, NEW client, NEW wants
      PROVE  OwnOK(Handler(n, op, client, wants))
  <2>1. /\ Handler(n, op, client, wants).pc = "ingest"
        /\ Handler(n, op, client, wants).target = None
    BY DEF Handler, Free
  <2> QED
    BY <2>1 DEF OwnOK
<1> QED
  BY <1>1, <1>2

(* Steps that change the state of one handler, and perhaps start another.  *)
LEMMA OwnAfterMove ==
  ASSUME IInv, Own, NEW w \in Workers, NEW c, OwnOK(c), conn' = [conn EXCEPT ![w] = c]
  PROVE  Own'
BY DEF IInv, Typed, Own

LEMMA OwnAfterStart ==
  ASSUME IInv, Own, NEW v \in Workers, NEW n, NEW op, NEW client, NEW wants,
         conn' = [conn EXCEPT ![v] = Handler(n, op, client, wants)]
  PROVE  Own'
BY OwnAfterMove, FreshOwn

LEMMA HandleOwn ==
  ASSUME IInv, Own, NEW w \in Workers, Handle(w)
  PROVE  Own'
<1> DEFINE c == conn[w]
<1>1. c \in Conn /\ OwnOK(c) /\ (c.pc # "free" => c.at \in Nodes /\ c.at # None)
  BY RegistryAssumption DEF IInv, Typed, ConnOK, Own, Procs
<1> DEFINE owned == c.op = "query" /\ c.wants # None /\ OwnsWanted(c)
<1>2. ASSUME c.pc \in {"seeds", "learn"} \/ (c.pc = "wait" /\ c.target = None)
      PROVE  ~ owned
  BY <1>1, <1>2, OwnEndpointIsNode DEF OwnOK
<1>3. ASSUME ~ owned, NEW d, d.op = c.op, d.wants = c.wants, d.at = c.at
      PROVE  OwnOK(d)
  BY <1>3 DEF OwnOK, OwnsWanted
<1>4. CASE Respond(w) \/ NoRoute(w) \/ TargetReplies(w)
  BY <1>4, FreshOwn, OwnAfterMove DEF Respond, NoRoute, TargetReplies
<1>5. CASE Lookup(w)
  <2> DEFINE known == Known(c.at, c.wants)
             d == [c EXCEPT !.pc = IF known = None THEN "seeds" ELSE "ask", !.target = known]
  <2>1. c.pc = "ingest" /\ conn' = [conn EXCEPT ![w] = d]
    BY <1>5 DEF Lookup
  <2>2. /\ d.op = c.op /\ d.wants = c.wants /\ d.at = c.at /\ d.target = known
        /\ d.pc = IF known = None THEN "seeds" ELSE "ask"
    BY <1>1 DEF Conn
  <2>3. owned => known = OwnEndpoint(c.at, c.wants) /\ known # None
    BY <1>1, <2>1, KnownIsOwn, OwnEndpointIsNode DEF OwnsWanted
  <2> HIDE DEF d, known
  <2>4. OwnOK(d)
    BY <2>2, <2>3 DEF OwnOK, OwnsWanted
  <2> QED
    BY <2>1, <2>4, OwnAfterMove
<1>6. CASE Call(w)
  <2> DEFINE d == [c EXCEPT !.pc = "wait"]
  <2>1. PICK v \in FreeWorkers :
          conn' = [conn EXCEPT ![w].pc = "wait",
                               ![v] = Handler(Callee(w), CallOp(w), w, CallFor(w))]
    BY <1>6 DEF Call
  <2>2. v \in Workers /\ v # w /\ c.pc \in {"ask", "seeds"}
    BY <1>6 DEF FreeWorkers, Call, Asks
  <2>3. /\ d.op = c.op /\ d.wants = c.wants /\ d.at = c.at /\ d.target = c.target
        /\ d.pc = "wait"
    BY <1>1 DEF Conn
  <2>4. \A u \in Workers : conn'[u] = IF u = v THEN Handler(Callee(w), CallOp(w), w, CallFor(w))
                                      ELSE IF u = w THEN d ELSE conn[u]
    BY <2>1, <2>2 DEF IInv, Typed
  <2> HIDE DEF d
  <2>5. OwnOK(d)
    BY <1>1, <1>2, <1>3, <2>2, <2>3 DEF OwnOK, OwnsWanted
  <2> QED
    BY <2>4, <2>5, FreshOwn DEF Own
<1>7. CASE CallRefused(w)
  <2>1. CASE c.pc = "ask"
    BY <1>7, <2>1, FreshOwn, OwnAfterMove DEF CallRefused
  <2>2. CASE c.pc # "ask"
    <3>1. c.pc = "seeds" /\ conn' = [conn EXCEPT ![w] = NextSeed(c)]
      BY <1>7, <2>2 DEF CallRefused, Asks
    <3>2. NextSeed(c).op = c.op /\ NextSeed(c).wants = c.wants /\ NextSeed(c).at = c.at
      BY <1>1 DEF NextSeed, Conn
    <3> QED
      BY <1>2, <1>3, <3>1, <3>2, OwnAfterMove
  <2> QED
    BY <2>1, <2>2
<1>8. CASE SeedReplies(w)
  <2> DEFINE d == [c EXCEPT !.pc = "learn", !.target = inbox[w].found]
  <2>1. /\ c.pc = "wait" /\ c.target = None
        /\ conn' = [conn EXCEPT ![w] = NextSeed(c)] \/ conn' = [conn EXCEPT ![w] = d]
    BY <1>8 DEF SeedReplies
  <2>2. /\ NextSeed(c).op = c.op /\ NextSeed(c).wants = c.wants /\ NextSeed(c).at = c.at
        /\ d.op = c.op /\ d.wants = c.wants /\ d.at = c.at
    BY <1>1 DEF NextSeed, Conn
  <2> HIDE DEF d
  <2> QED
    BY <1>2, <1>3, <2>1, <2>2, OwnAfterMove
<1>9. CASE SeedLearnt(w)
  <2> DEFINE d == [c EXCEPT !.pc = "ask"]
  <2>1. /\ c.pc = "learn"
        /\ conn' = [conn EXCEPT ![w] = NextSeed(c)] \/ conn' = [conn EXCEPT ![w] = d]
    BY <1>9 DEF SeedLearnt
  <2>2. /\ NextSeed(c).op = c.op /\ NextSeed(c).wants = c.wants /\ NextSeed(c).at = c.at
        /\ d.op = c.op /\ d.wants = c.wants /\ d.at = c.at
    BY <1>1 DEF NextSeed, Conn
  <2> HIDE DEF d
  <2> QED
    BY <1>2, <1>3, <2>1, <2>2, OwnAfterMove
<1> QED
  BY <1>4, <1>5, <1>6, <1>7, <1>8, <1>9 DEF Handle

(* A handler whose client is gone looks for the same.                      *)
LEMMA WithoutClientOwn ==
  ASSUME NEW c \in Conn, OwnOK(c)
  PROVE  OwnOK([c EXCEPT !.client = None])
<1> DEFINE d == [c EXCEPT !.client = None]
<1>1. /\ d.op = c.op /\ d.wants = c.wants /\ d.at = c.at /\ d.target = c.target
      /\ d.pc = c.pc
  BY DEF Conn
<1> HIDE DEF d
<1>2. OwnOK(d)
  BY <1>1 DEF OwnOK, OwnsWanted
<1> QED
  BY <1>2 DEF d

LEMMA FaultsOwn ==
  ASSUME IInv, Own
  PROVE  /\ \A n \in Nodes : Stop(n) => Own'
         /\ \A w \in Workers : Break(w) => Own'
<1>1. \A w \in Workers : OwnOK([conn[w] EXCEPT !.client = None])
  BY WithoutClientOwn DEF IInv, Typed, ConnOK, Own
<1>2. ASSUME NEW n \in Nodes, Stop(n) PROVE Own'
  <2>1. \A w \in Workers : conn'[w] = conn[w] \/ conn'[w] = [conn[w] EXCEPT !.client = None]
    BY <1>2 DEF Stop
  <2> QED
    BY <1>1, <2>1 DEF Own
<1>3. ASSUME NEW w \in Workers, Break(w) PROVE Own'
  <2>1. \/ conn' = [conn EXCEPT ![w] = [conn[w] EXCEPT !.client = None]]
        \/ conn' = [conn EXCEPT ![w] = Free]
    BY <1>3 DEF Break
  <2> QED
    BY <1>1, <2>1, FreshOwn, OwnAfterMove
<1> QED
  BY <1>2, <1>3

LEMMA NextOwn ==
  ASSUME IInv, Own, [Next]_vars
  PROVE  Own'
<1>1. ASSUME UNCHANGED conn PROVE Own'
  BY <1>1 DEF Own
<1>2. ASSUME NEW p \in Procs, ChangeFile(p) PROVE Own'
  BY <1>1, <1>2 DEF ChangeFile, Load, Truncate, Write
<1>3. ASSUME NEW n \in Nodes, Discover(n) PROVE Own'
  <2>1. CASE Announce(n)
    <3>1. PICK task \in Tasks(n), v \in FreeWorkers :
            conn' = [conn EXCEPT ![v] = Handler(SeedOf(n, task), OpOf(task), n, None)]
      BY <2>1 DEF Announce
    <3> QED
      BY <3>1, OwnAfterStart DEF FreeWorkers
  <2>2. CASE ~ Announce(n)
    BY <1>1, <1>3, <2>2 DEF Discover, PassOver, AnnouncerReply, TaskDone, EndRound
  <2> QED
    BY <2>1, <2>2
<1>4. ASSUME NEW n \in Nodes, NEW p \in Principals, UserQuery(n, p) PROVE Own'
  <2>1. PICK v \in FreeWorkers : conn' = [conn EXCEPT ![v] = Handler(n, "query", None, p)]
    BY <1>4 DEF UserQuery
  <2> QED
    BY <2>1, OwnAfterStart DEF FreeWorkers
<1>5. ASSUME NEW n \in Nodes, Start(n) \/ Listen(n) PROVE Own'
  BY <1>1, <1>5 DEF Start, Listen
<1>6. CASE Next
  BY <1>2, <1>3, <1>4, <1>5, <1>6, HandleOwn, FaultsOwn DEF Next
<1>7. CASE UNCHANGED vars
  BY <1>1, <1>7 DEF vars
<1> QED
  BY <1>6, <1>7

(* distributed.c 1291-1547: a query for a principal with a manual route is *)
(* sent there, one for a principal of the node's own program stays, though *)
(* every announcement may put another route for it into the node's file.   *)
THEOREM OwnRoutesAlwaysWin == Spec => []OwnRoutesWin
<1>1. Init => Own
  BY FreshOwn DEF Init, Own
<1>2. IInv /\ Own => OwnRoutesWin
  <2> SUFFICES ASSUME IInv, Own, NEW w \in Workers, conn[w].target # None, IsUserQuery(w)
               PROVE  LET n == conn[w].at
                          p == conn[w].wants
                      IN  /\ p \in DOMAIN Manual[n] => conn[w].target = Manual[n][p]
                          /\ p \in Hosts[n] \ DOMAIN Manual[n] => conn[w].target = n
    BY DEF OwnRoutesWin
  <2>1. OwnOK(conn[w]) /\ conn[w].op = "query" /\ conn[w].wants # None
    BY DEF Own, IsUserQuery
  <2> QED
    BY <2>1 DEF OwnOK, OwnsWanted, OwnEndpoint
<1> QED
  BY <1>1, <1>2, InitIInv, NextIInv, NextOwn, PTL DEF Spec

-----------------------------------------------------------------------------
(* Announcers                                                              *)

(* The seed an announcer talks to, or talked to last, and if it announced. *)
Task(n) == announcer[n].task
Heard(n, task) == OpOf(task) = "announce" => <<n, SeedOf(n, task)>> \in heard

(* The handler of a request of the announcer of n is the one it waits for, *)
(* and once its file is saved it was heard.                                *)
HandlersSave(n) ==
  \A v \in Workers : conn[v].client = n =>
    /\ announcer[n].pc = "wait" /\ conn[v].pc = "ingest"
    /\ conn[v].op = OpOf(Task(n)) /\ conn[v].at = SeedOf(n, Task(n))
    /\ Saved(v) => Heard(n, Task(n))
OneHandler(n) ==
  \A u, v \in Workers : conn[u].client = n /\ conn[v].client = n => u = v

(* A reply to an announcer is the end of its handler.                      *)
RepliesLast(n) ==
  inbox[n] # NoReply =>
    announcer[n].pc = "wait" /\ \A v \in Workers : conn[v].client # n
RepliesHeard(n) ==
  inbox[n].kind = "ok" \/ announcer[n].pc = "learn" => Heard(n, Task(n))
DoneHeard(n) == \A task \in announcer[n].done : Heard(n, task)

(* A node that is not up has no announcer.                                 *)
OffWhenDown(n) == node[n] # "up" => announcer[n] = Off

Talk(n) == /\ HandlersSave(n) /\ OneHandler(n) /\ RepliesLast(n)
           /\ RepliesHeard(n) /\ DoneHeard(n) /\ OffWhenDown(n)
Talks == \A n \in Nodes : Talk(n)

-----------------------------------------------------------------------------
(* An announcer that does not wait has no handler and no reply.            *)
LEMMA NoHandler ==
  ASSUME NEW n \in Nodes, Talk(n), announcer[n].pc # "wait"
  PROVE  \A v \in Workers : conn[v].client # n
BY DEF Talk, HandlersSave

LEMMA NoReplyYet ==
  ASSUME NEW n \in Nodes, Talk(n), announcer[n].pc # "wait"
  PROVE  inbox[n] = NoReply
BY DEF Talk, RepliesLast

(* Without a handler and a reply only what is done and learnt matters.     *)
LEMMA QuietTalk ==
  ASSUME NEW n \in Nodes, \A v \in Workers : conn[v].client # n, inbox[n] = NoReply,
         announcer[n].pc = "learn" => Heard(n, Task(n)), DoneHeard(n), OffWhenDown(n)
  PROVE  Talk(n)
BY DEF Talk, HandlersSave, OneHandler, RepliesLast, RepliesHeard, NoReply

LEMMA QuietTalkNext ==
  ASSUME NEW n \in Nodes, \A v \in Workers : conn'[v].client # n, inbox'[n] = NoReply,
         (announcer[n].pc = "learn" => Heard(n, Task(n)))', DoneHeard(n)', OffWhenDown(n)'
  PROVE  Talk(n)'
BY DEF Talk, HandlersSave, OneHandler, RepliesLast, RepliesHeard, NoReply

(* What was heard stays heard, and the handlers of the announcer of n are  *)
(* among those they were, no further with their file.                      *)
LEMMA SameTalk ==
  ASSUME NEW n \in Nodes, Talk(n), announcer'[n] = announcer[n], node'[n] = node[n],
         inbox'[n] = inbox[n],
         \A s : <<n, s>> \in heard => <<n, s>> \in heard',
         \A v \in Workers : conn'[v].client = n =>
           conn'[v] = conn[v] /\ (save'[v].phase = "idle" => save[v].phase = "idle")
  PROVE  Talk(n)'
<1>1. ASSUME NEW task, Heard(n, task) PROVE Heard(n, task)'
  BY <1>1 DEF Heard
<1>2. Task(n)' = Task(n)
  BY DEF Task
<1>3. HandlersSave(n)'
  BY <1>1, <1>2 DEF Talk, HandlersSave, Saved
<1>4. OneHandler(n)' /\ RepliesLast(n)' /\ OffWhenDown(n)'
  BY DEF Talk, OneHandler, RepliesLast, OffWhenDown
<1>5. RepliesHeard(n)' /\ DoneHeard(n)'
  BY <1>1, <1>2 DEF Talk, RepliesHeard, DoneHeard
<1> QED
  BY <1>3, <1>4, <1>5 DEF Talk

-----------------------------------------------------------------------------
(* Changing files: a handler of an announcement that writes was heard.     *)
LEMMA FileTalks ==
  ASSUME IInv, Talks, NEW p \in Procs, ChangeFile(p)
  PROVE  Talks'
<1> SUFFICES ASSUME NEW n \in Nodes PROVE Talk(n)'
  BY DEF Talks
<1>0. Talk(n) /\ Workers \subseteq Procs /\ n \notin Workers
  BY RegistryAssumption DEF Talks, Procs
<1>1. CASE Load(p) \/ Truncate(p)
  <2>1. \A v \in Workers : save'[v].phase = "idle" => save[v].phase = "idle"
    BY <1>0, <1>1 DEF Load, Truncate, IInv, Typed, SaveOK
  <2> QED
    BY <1>0, <1>1, <2>1, SameTalk DEF Load, Truncate, history
<1>2. CASE Write(p)
  <2>1. heard \subseteq heard' /\ UNCHANGED <<node, announcer, conn, inbox>>
        /\ \A v \in Workers : v # p => save'[v] = save[v]
    BY <1>0, <1>2 DEF Write, IInv, Typed
  <2>2. CASE p \in Workers /\ conn[p].client = n
    <3>1. /\ announcer[n].pc = "wait" /\ conn[p].op = OpOf(Task(n))
          /\ conn[p].at = SeedOf(n, Task(n))
      BY <1>0, <2>2 DEF Talk, HandlersSave
    <3>2. Heard(n, Task(n))'
      BY <1>2, <2>1, <2>2, <3>1 DEF Write, Heard, Task
    <3>3. \A task : Heard(n, task) => Heard(n, task)'
      BY <2>1 DEF Heard
    <3>4. Task(n)' = Task(n)
      BY <2>1 DEF Task
    <3> QED
      BY <1>0, <2>1, <3>2, <3>3, <3>4
         DEF Talk, HandlersSave, OneHandler, RepliesLast, RepliesHeard, DoneHeard, OffWhenDown
  <2>3. CASE ~ (p \in Workers /\ conn[p].client = n)
    BY <1>0, <2>1, <2>3, SameTalk
  <2> QED
    BY <2>2, <2>3
<1> QED
  BY <1>1, <1>2 DEF ChangeFile

-----------------------------------------------------------------------------
(* Handling connections.                                                   *)

(* A process that handles no request of an announcer moves.                *)
LEMMA TalksAfterMove ==
  ASSUME IInv, Talks, NEW w \in Workers, conn[w].client \notin Nodes, NEW c,
         c.client = None \/ c.client = conn[w].client, conn' = [conn EXCEPT ![w] = c],
         \A v \in Workers \ {w} : save'[v] = save[v],
         \A n \in Nodes : inbox'[n] = inbox[n], UNCHANGED <<announcer, node, heard>>
  PROVE  Talks'
<1> SUFFICES ASSUME NEW n \in Nodes PROVE Talk(n)'
  BY DEF Talks
<1>1. \A v \in Workers : conn'[v] = IF v = w THEN c ELSE conn[v]
  BY DEF IInv, Typed
<1>2. c.client # n
  BY RegistryAssumption DEF Procs
<1>3. \A v \in Workers : conn'[v].client = n => v # w /\ conn'[v] = conn[v]
  BY <1>1, <1>2
<1> QED
  BY <1>3, SameTalk DEF Talks

LEMMA RespondTalks ==
  ASSUME IInv, Talks, NEW w \in Workers, Respond(w)
  PROVE  Talks'
<1> SUFFICES ASSUME NEW n \in Nodes PROVE Talk(n)'
  BY DEF Talks
<1>1. /\ Talk(n) /\ Saved(w) /\ UNCHANGED <<announcer, node, heard, save>>
      /\ None \notin Nodes /\ Nodes \subseteq Procs
  BY RegistryAssumption DEF Talks, Respond, history, Procs
<1>2. \A v \in Workers : conn'[v] = IF v = w THEN Free ELSE conn[v]
  BY DEF Respond, IInv, Typed
<1>3. CASE conn[w].client # n
  <2>1. inbox'[n] = inbox[n]
    BY <1>1, <1>3 DEF Respond, IInv, Typed
  <2>2. \A v \in Workers : conn'[v].client = n => conn'[v] = conn[v]
    BY <1>1, <1>2, Constructors
  <2> QED
    BY <1>1, <2>1, <2>2, SameTalk
<1>4. CASE conn[w].client = n
  <2>1. inbox'[n] = ReplyOf(w)
    BY <1>1, <1>4 DEF Respond, IInv, Typed
  <2>2. announcer[n].pc = "wait" /\ Heard(n, Task(n))
    BY <1>1, <1>4 DEF Talk, HandlersSave
  <2>3. \A v \in Workers : conn'[v].client # n
    BY <1>1, <1>2, <1>4, Constructors DEF Talk, OneHandler
  <2>4. HandlersSave(n)' /\ OneHandler(n)' /\ RepliesLast(n)' /\ OffWhenDown(n)'
    BY <1>1, <2>2, <2>3 DEF Talk, HandlersSave, OneHandler, RepliesLast, OffWhenDown
  <2>5. RepliesHeard(n)' /\ DoneHeard(n)'
    BY <1>1, <2>2 DEF Talk, RepliesHeard, DoneHeard, Heard, Task
  <2> QED
    BY <2>4, <2>5 DEF Talk
<1> QED
  BY <1>3, <1>4

LEMMA HandleTalks ==
  ASSUME IInv, Talks, NEW w \in Workers, Handle(w)
  PROVE  Talks'
<1>1. /\ w \notin Nodes /\ None \notin Nodes
      /\ conn[w] \in Conn /\ \A n \in Nodes : Talk(n)
  BY RegistryAssumption DEF Talks, Procs, IInv, Typed, ConnOK
<1>2. conn[w].pc # "ingest" \/ IsUserQuery(w) => conn[w].client \notin Nodes
  <2> SUFFICES ASSUME conn[w].client \in Nodes
               PROVE  conn[w].pc = "ingest" /\ conn[w].op # "query"
    BY DEF IsUserQuery
  <2> QED
    BY <1>1 DEF Talk, HandlersSave, OpOf
<1>3. /\ Free.client = None
      /\ \A pc : \A target : [conn[w] EXCEPT !.pc = pc, !.target = target].client = conn[w].client
      /\ \A pc : [conn[w] EXCEPT !.pc = pc].client = conn[w].client
      /\ NextSeed(conn[w]).client = conn[w].client
  BY <1>1 DEF Free, Conn, NextSeed
<1>4. \A x : \A n \in Nodes : [inbox EXCEPT ![w] = x][n] = inbox[n]
  <2>1. DOMAIN inbox = Procs /\ Nodes \subseteq Procs
    BY DEF IInv, Typed, Procs
  <2> QED
    BY <1>1, <2>1
<1>5. \A x : \A v \in Workers \ {w} : [save EXCEPT ![w] = x][v] = save[v]
  <2>1. DOMAIN save = Procs /\ Workers \subseteq Procs
    BY DEF IInv, Typed, Procs
  <2> QED
    BY <2>1
<1>6. CASE Lookup(w)
  <2> DEFINE known == Known(conn[w].at, conn[w].wants)
             c == [conn[w] EXCEPT !.pc = IF known = None THEN "seeds" ELSE "ask", !.target = known]
  <2>1. conn' = [conn EXCEPT ![w] = c] /\ UNCHANGED <<announcer, node, heard, save, inbox>>
    BY <1>6 DEF Lookup, history
  <2>2. (c.client = None \/ c.client = conn[w].client) /\ conn[w].client \notin Nodes
    BY <1>2, <1>3, <1>6 DEF Lookup
  <2>3. /\ \A v \in Workers \ {w} : save'[v] = save[v]
        /\ \A n \in Nodes : inbox'[n] = inbox[n]
    BY <2>1
  <2>4. conn' = [conn EXCEPT ![w] = c] /\ UNCHANGED <<announcer, node, heard>>
    BY <2>1
  <2> HIDE DEF c
  <2> QED
    BY <2>2, <2>3, <2>4, TalksAfterMove
<1>7. CASE Call(w)
  <2>1. PICK v \in FreeWorkers :
          /\ conn' = [conn EXCEPT ![w].pc = "wait",
                                  ![v] = Handler(Callee(w), CallOp(w), w, CallFor(w))]
          /\ \E s : save' = [save EXCEPT ![v] = s]
    BY <1>7 DEF Call
  <2>2. /\ v \in Workers /\ v # w /\ conn[w].client \notin Nodes
        /\ UNCHANGED <<announcer, node, heard, inbox>>
    BY <1>2, <1>7 DEF FreeWorkers, Call, Asks, history
  <2>3. Handler(Callee(w), CallOp(w), w, CallFor(w)).client = w
    BY DEF Handler, Free
  <2>4. \A u \in Workers : /\ u # v => save'[u] = save[u]
                           /\ u \notin {v, w} => conn'[u] = conn[u]
    BY <2>1, <2>2 DEF IInv, Typed, Procs
  <2>5. conn'[v].client = w /\ conn'[w].client = conn[w].client
    <3>1. conn'[v] = Handler(Callee(w), CallOp(w), w, CallFor(w))
          /\ conn'[w] = [conn[w] EXCEPT !.pc = "wait"]
      BY <2>1, <2>2 DEF IInv, Typed
    <3> QED
      BY <1>3, <2>3, <3>1
  <2>6. ASSUME NEW n \in Nodes PROVE Talk(n)'
    <3>1. \A u \in Workers : conn'[u].client = n => u \notin {v, w}
      BY <1>1, <2>2, <2>5
    <3> QED
      BY <1>1, <2>2, <2>4, <3>1, SameTalk
  <2> QED
    BY <2>6 DEF Talks
<1>8. CASE CallRefused(w) \/ NoRoute(w) \/ TargetReplies(w)
  <2>1. PICK c \in {Free, NextSeed(conn[w])} : conn' = [conn EXCEPT ![w] = c]
    BY <1>8 DEF CallRefused, NoRoute, TargetReplies
  <2>2. /\ conn[w].pc # "ingest" /\ UNCHANGED <<announcer, node, heard, save>>
        /\ inbox' = inbox \/ inbox' = [inbox EXCEPT ![w] = NoReply]
    BY <1>8 DEF CallRefused, NoRoute, TargetReplies, Asks, history
  <2>3. /\ \A n \in Nodes : inbox'[n] = inbox[n]
        /\ \A v \in Workers \ {w} : save'[v] = save[v]
    BY <1>4, <2>2
  <2>4. (c.client = None \/ c.client = conn[w].client) /\ conn[w].client \notin Nodes
    BY <1>2, <1>3, <2>2
  <2>5. conn' = [conn EXCEPT ![w] = c] /\ UNCHANGED <<announcer, node, heard>>
    BY <2>1, <2>2
  <2> QED
    BY <2>3, <2>4, <2>5, TalksAfterMove
<1>9. CASE SeedReplies(w)
  <2> DEFINE d == [conn[w] EXCEPT !.pc = "learn", !.target = inbox[w].found]
  <2>1. /\ conn[w].pc # "ingest" /\ UNCHANGED <<announcer, node, heard>>
        /\ inbox' = [inbox EXCEPT ![w] = NoReply]
        /\ save' = save \/ \E s : save' = [save EXCEPT ![w] = s]
        /\ conn' = [conn EXCEPT ![w] = NextSeed(conn[w])] \/ conn' = [conn EXCEPT ![w] = d]
    BY <1>9 DEF SeedReplies, history
  <2>2. d.client = conn[w].client
    BY <1>3
  <2> HIDE DEF d
  <2>3. \A n \in Nodes : inbox'[n] = inbox[n]
    BY <1>4, <2>1
  <2>4. \A v \in Workers \ {w} : save'[v] = save[v]
    <3>1. CASE save' = save
      BY <3>1
    <3>2. ASSUME NEW s, save' = [save EXCEPT ![w] = s]
          PROVE  \A v \in Workers \ {w} : save'[v] = save[v]
      BY <1>5, <3>2
    <3> QED
      BY <2>1, <3>1, <3>2
  <2> QED
    BY <1>2, <1>3, <2>1, <2>2, <2>3, <2>4, TalksAfterMove
<1>10. CASE SeedLearnt(w)
  <2> DEFINE d == [conn[w] EXCEPT !.pc = "ask"]
  <2>1. /\ conn[w].pc # "ingest" /\ UNCHANGED <<announcer, node, heard, save, inbox>>
        /\ conn' = [conn EXCEPT ![w] = NextSeed(conn[w])] \/ conn' = [conn EXCEPT ![w] = d]
    BY <1>10 DEF SeedLearnt, history
  <2>2. d.client = conn[w].client
    BY <1>3
  <2> HIDE DEF d
  <2> QED
    BY <1>2, <1>3, <2>1, <2>2, TalksAfterMove
<1> QED
  BY <1>6, <1>7, <1>8, <1>9, <1>10, RespondTalks DEF Handle

-----------------------------------------------------------------------------
(* The announcer of one node moves; the others see nothing of it.          *)

LEMMA OthersTalk ==
  ASSUME IInv, Talks, NEW n \in Nodes, NEW m \in Nodes, m # n,
         \A v \in Workers : conn'[v].client = m => conn'[v] = conn[v] /\ save'[v] = save[v],
         announcer'[m] = announcer[m], node'[m] = node[m], inbox'[m] = inbox[m],
         \A s : <<m, s>> \in heard => <<m, s>> \in heard'
  PROVE  Talk(m)'
BY SameTalk DEF Talks

LEMMA AnnounceTalks ==
  ASSUME IInv, Talks, NEW n \in Nodes, Announce(n)
  PROVE  Talks'
<1>1. PICK task \in Tasks(n), w \in FreeWorkers :
        /\ Pending(n, task) /\ node[SeedOf(n, task)] = "up"
        /\ announcer' = [announcer EXCEPT ![n].pc = "wait"]
        /\ conn' = [conn EXCEPT ![w] = Handler(SeedOf(n, task), OpOf(task), n, None)]
        /\ \E routes : save' = [save EXCEPT ![w] = SaveInto(SeedOf(n, task), routes)]
  BY DEF Announce
<1> DEFINE h == Handler(SeedOf(n, task), OpOf(task), n, None)
           waiting == [announcer[n] EXCEPT !.pc = "wait"]
<1>2. h.client = n /\ h.pc = "ingest" /\ h.op = OpOf(task) /\ h.at = SeedOf(n, task)
  BY DEF Handler, Free
<1>3. /\ w \in Workers /\ Talk(n) /\ UNCHANGED <<node, inbox, heard>>
      /\ announcer[n] \in Announcer /\ announcer[n].pc = "next" /\ task = Task(n)
  BY <1>1, AnnouncerFields
     DEF FreeWorkers, Talks, Announce, history, Pending, AnnouncerAt, Task, IInv
<1>4. /\ waiting.pc = "wait" /\ waiting.task = announcer[n].task
      /\ waiting.done = announcer[n].done
  BY <1>3 DEF Announcer
<1>5. /\ announcer'[n] = waiting /\ \A m \in Nodes : m # n => announcer'[m] = announcer[m]
      /\ \A v \in Workers : conn'[v] = IF v = w THEN h ELSE conn[v]
      /\ \A v \in Workers : v # w => save'[v] = save[v]
      /\ save'[w].phase = "load"
  <2>1. DOMAIN announcer = Nodes /\ DOMAIN conn = Workers /\ DOMAIN save = Procs
        /\ Workers \subseteq Procs
    BY DEF IInv, Typed, Procs
  <2> HIDE DEF h
  <2> QED
    BY <1>1, <1>3, <2>1 DEF h, SaveInto
<1> HIDE DEF h, waiting
<1>6. (\A v \in Workers : conn[v].client # n) /\ inbox[n] = NoReply
  BY <1>3, NoHandler, NoReplyYet
<1>7. Talk(n)'
  <2>1. HandlersSave(n)' /\ OneHandler(n)'
    BY <1>2, <1>3, <1>4, <1>5, <1>6 DEF HandlersSave, OneHandler, Saved, Task
  <2>2. RepliesLast(n)' /\ RepliesHeard(n)'
    BY <1>3, <1>4, <1>5, <1>6 DEF RepliesLast, RepliesHeard, NoReply
  <2>3. DoneHeard(n)'
    BY <1>3, <1>4, <1>5 DEF Talk, DoneHeard, Heard
  <2>4. OffWhenDown(n)'
    BY <1>3 DEF Talk, OffWhenDown, Off
  <2> QED
    BY <2>1, <2>2, <2>3, <2>4 DEF Talk
<1>8. ASSUME NEW m \in Nodes, m # n PROVE Talk(m)'
  <2>1. \A v \in Workers : conn'[v].client = m => conn'[v] = conn[v] /\ save'[v] = save[v]
    BY <1>2, <1>5, <1>8
  <2> QED
    BY <1>3, <1>5, <1>8, <2>1, OthersTalk
<1> QED
  BY <1>7, <1>8 DEF Talks

(* The announcer of n goes on to another task or ends its round; what it   *)
(* has done besides was heard.                                             *)
LEMMA AnnouncerMoves ==
  ASSUME IInv, Talks, NEW n \in Nodes, NEW a, announcer' = [announcer EXCEPT ![n] = a],
         UNCHANGED <<node, conn, heard>>, \A v \in Workers : save'[v] = save[v],
         \A m \in Nodes : m # n => inbox'[m] = inbox[m],
         inbox'[n] = NoReply, \A v \in Workers : conn[v].client # n,
         a.pc = "learn" => Heard(n, a.task), \A task \in a.done : Heard(n, task),
         announcer[n] # Off
  PROVE  Talks'
<1>1. announcer'[n] = a /\ \A m \in Nodes : m # n => announcer'[m] = announcer[m]
  BY DEF IInv, Typed
<1>2. Talk(n)'
  <2>1. \A task : Heard(n, task)' <=> Heard(n, task)
    BY DEF Heard
  <2>2. (announcer[n].pc = "learn" => Heard(n, Task(n)))'
    BY <1>1, <2>1 DEF Task
  <2>3. DoneHeard(n)'
    BY <1>1, <2>1 DEF DoneHeard
  <2>4. OffWhenDown(n)'
    BY DEF Talks, Talk, OffWhenDown
  <2>5. \A v \in Workers : conn'[v].client # n
    OBVIOUS
  <2> QED
    BY <2>2, <2>3, <2>4, <2>5, QuietTalkNext
<1>3. ASSUME NEW m \in Nodes, m # n PROVE Talk(m)'
  BY <1>1, <1>3, OthersTalk
<1> QED
  BY <1>2, <1>3 DEF Talks

LEMMA DiscoverTalks ==
  ASSUME IInv, Talks, NEW n \in Nodes, Discover(n)
  PROVE  Talks'
<1> DEFINE a == announcer[n]
<1>1. /\ Talk(n) /\ a \in Announcer /\ n \notin Workers /\ n \in Procs
      /\ \A task \in a.done : Heard(n, task)
  BY AnnouncerFields, RegistryAssumption DEF Talks, Talk, DoneHeard, IInv, Procs
<1>2. /\ NextTask(a).pc = "next" /\ NextTask(a).done = a.done
  BY <1>1 DEF NextTask, Announcer
<1>3. CASE PassOver(n) \/ EndRound(n)
  <2>1. /\ a.pc = "next" /\ UNCHANGED <<node, conn, heard, save, inbox>>
    BY <1>3 DEF PassOver, EndRound, AnnouncerAt, history
  <2>2. PICK b : /\ announcer' = [announcer EXCEPT ![n] = b]
                 /\ b.done = a.done /\ b.pc # "learn"
    <3> DEFINE finished == [a EXCEPT !.pc = "ended"]
               further == [a EXCEPT !.pc = IF MoreRounds(n) THEN "next" ELSE "ended",
                                    !.task = 1, !.attempts = Rounds(n)]
    <3>1. /\ finished.done = a.done /\ finished.pc # "learn"
          /\ further.done = a.done /\ further.pc # "learn"
      BY <1>1 DEF Announcer
    <3>2. \/ announcer' = [announcer EXCEPT ![n] = NextTask(a)]
          \/ announcer' = [announcer EXCEPT ![n] = finished]
          \/ announcer' = [announcer EXCEPT ![n] = further]
      BY <1>3 DEF PassOver, EndRound
    <3> HIDE DEF finished, further
    <3> QED
      BY <1>2, <3>1, <3>2
  <2>3. /\ \A v \in Workers : conn[v].client # n
        /\ inbox[n] = NoReply /\ a # Off
    BY <1>1, <2>1, NoHandler, NoReplyYet DEF Off
  <2> HIDE DEF a
  <2> QED
    BY <1>1, <2>1, <2>2, <2>3, AnnouncerMoves DEF a
<1>4. CASE AnnouncerReply(n)
  <2> DEFINE learning == [a EXCEPT !.pc = "learn"]
  <2>1. /\ a.pc = "wait" /\ inbox[n].kind # "none" /\ UNCHANGED <<node, conn, heard>>
        /\ inbox' = [inbox EXCEPT ![n] = NoReply]
    BY <1>4 DEF AnnouncerReply, history
  <2>2. /\ \A m \in Nodes : m # n => inbox'[m] = inbox[m]
        /\ inbox'[n] = NoReply
    BY <1>1, <2>1 DEF IInv, Typed
  <2>3. \A v \in Workers : save'[v] = save[v]
    <3>1. DOMAIN save = Procs /\ Workers \subseteq Procs
      BY DEF IInv, Typed, Procs
    <3>2. save' = save \/ save' = [save EXCEPT ![n] = SaveInto(n, inbox[n].routes)]
      BY <1>4 DEF AnnouncerReply
    <3> QED
      BY <1>1, <3>1, <3>2
  <2>4. /\ \A v \in Workers : conn[v].client # n
        /\ a # Off
    BY <1>1, <2>1 DEF Talk, RepliesLast, NoReply, Off
  <2>5. /\ learning.pc = "learn" /\ learning.done = a.done /\ learning.task = a.task
    BY <1>1 DEF Announcer
  <2>6. CASE inbox[n].kind = "failed"
    <3>1. announcer' = [announcer EXCEPT ![n] = NextTask(a)]
      BY <1>4, <2>6 DEF AnnouncerReply
    <3> HIDE DEF a
    <3> QED
      BY <1>1, <1>2, <2>1, <2>2, <2>3, <2>4, <3>1, AnnouncerMoves DEF a
  <2>7. CASE inbox[n].kind # "failed"
    <3>1. announcer' = [announcer EXCEPT ![n] = learning]
      BY <1>4, <2>7 DEF AnnouncerReply
    <3>2. inbox[n].kind = "ok"
      <4>1. inbox[n] \in ReplyOK
        BY <1>1 DEF IInv, Typed
      <4> QED
        BY <2>1, <2>7, <4>1 DEF ReplyOK
    <3>3. Heard(n, a.task)
      BY <1>1, <3>2 DEF Talk, RepliesHeard, Task
    <3> HIDE DEF a, learning
    <3> QED
      BY <1>1, <2>1, <2>2, <2>3, <2>4, <2>5, <3>1, <3>3, AnnouncerMoves DEF a
  <2> QED
    BY <2>6, <2>7
<1>5. CASE TaskDone(n)
  <2> DEFINE b == [NextTask(a) EXCEPT !.done = @ \cup {a.task}]
  <2>1. /\ a.pc = "learn" /\ UNCHANGED <<node, conn, heard, save, inbox>>
        /\ announcer' = [announcer EXCEPT ![n] = b]
    BY <1>5 DEF TaskDone, history
  <2>2. b.pc = "next" /\ b.done = a.done \cup {a.task}
    BY <1>1, <1>2 DEF NextTask, Announcer
  <2>3. /\ \A v \in Workers : conn[v].client # n
        /\ inbox[n] = NoReply /\ a # Off
    BY <1>1, <2>1, NoHandler, NoReplyYet DEF Off
  <2>4. Heard(n, a.task)
    BY <1>1, <2>1 DEF Talk, RepliesHeard, Task
  <2> HIDE DEF a, b
  <2>5. \A task \in b.done : Heard(n, task)
    BY <1>1, <2>2, <2>4
  <2> QED
    BY <1>1, <2>1, <2>2, <2>3, <2>5, AnnouncerMoves DEF a
<1> QED
  BY <1>3, <1>4, <1>5, AnnounceTalks DEF Discover

-----------------------------------------------------------------------------
(* Nodes, users and faults.                                                *)

LEMMA StartTalks ==
  ASSUME IInv, Talks, NEW n \in Nodes, Start(n)
  PROVE  Talks'
<1>1. /\ announcer[n] = Off /\ Talk(n) /\ UNCHANGED <<announcer, conn, save, inbox, heard>>
      /\ \A m \in Nodes : m # n => node'[m] = node[m]
  BY DEF Start, Talks, Talk, OffWhenDown, history, IInv, Typed
<1>2. Off.pc = "off" /\ Off.done = {}
  BY DEF Off
<1>3. (\A v \in Workers : conn[v].client # n) /\ inbox[n] = NoReply
  BY <1>1, <1>2, NoHandler, NoReplyYet
<1>4. Talk(n)'
  <2>1. /\ \A v \in Workers : conn'[v].client # n
        /\ inbox'[n] = NoReply
    BY <1>1, <1>3
  <2>2. (announcer[n].pc = "learn" => Heard(n, Task(n)))' /\ DoneHeard(n)' /\ OffWhenDown(n)'
    BY <1>1, <1>2 DEF DoneHeard, OffWhenDown
  <2> QED
    BY <2>1, <2>2, QuietTalkNext
<1>5. ASSUME NEW m \in Nodes, m # n PROVE Talk(m)'
  BY <1>1, <1>5, OthersTalk
<1> QED
  BY <1>4, <1>5 DEF Talks

(* What a former announcer of the node told others is forgotten.           *)
LEMMA ListenTalks ==
  ASSUME IInv, Talks, NEW n \in Nodes, Listen(n)
  PROVE  Talks'
<1> DEFINE forked == [Off EXCEPT !.pc = IF Seeds[n] = <<>> THEN "ended" ELSE "next"]
<1>1. /\ announcer[n] = Off /\ Talk(n) /\ UNCHANGED <<conn, save, inbox>>
      /\ node'[n] = "up" /\ announcer'[n] = forked
      /\ \A m \in Nodes : m # n => node'[m] = node[m] /\ announcer'[m] = announcer[m]
      /\ heard' = {h \in heard : h[1] # n}
  BY DEF Listen, Talks, Talk, OffWhenDown, IInv, Typed
<1>2. /\ Off.pc = "off" /\ forked.done = {} /\ forked.pc \in {"ended", "next"}
  BY DEF Off
<1> HIDE DEF forked
<1>3. (\A v \in Workers : conn[v].client # n) /\ inbox[n] = NoReply
  BY <1>1, <1>2, NoHandler, NoReplyYet
<1>4. Talk(n)'
  <2>1. /\ \A v \in Workers : conn'[v].client # n
        /\ inbox'[n] = NoReply
    BY <1>1, <1>3
  <2>2. (announcer[n].pc = "learn" => Heard(n, Task(n)))' /\ DoneHeard(n)' /\ OffWhenDown(n)'
    BY <1>1, <1>2 DEF DoneHeard, OffWhenDown
  <2> QED
    BY <2>1, <2>2, QuietTalkNext
<1>5. ASSUME NEW m \in Nodes, m # n PROVE Talk(m)'
  <2>1. \A s : <<m, s>> \in heard => <<m, s>> \in heard'
    BY <1>1, <1>5
  <2> QED
    BY <1>1, <1>5, <2>1, OthersTalk
<1> QED
  BY <1>4, <1>5 DEF Talks

(* The handlers of a node that stops go on without a client.               *)
LEMMA StopTalks ==
  ASSUME IInv, Talks, NEW n \in Nodes, Stop(n)
  PROVE  Talks'
<1>1. /\ UNCHANGED heard /\ announcer'[n] = Off /\ inbox'[n] = NoReply
      /\ \A m \in Nodes : m # n => /\ node'[m] = node[m] /\ announcer'[m] = announcer[m]
                                   /\ inbox'[m] = inbox[m]
      /\ \A v \in Workers : save'[v] = save[v]
  <2>1. /\ DOMAIN announcer = Nodes /\ DOMAIN inbox = Procs /\ DOMAIN save = Procs
        /\ DOMAIN node = Nodes /\ Nodes \subseteq Procs /\ Workers \subseteq Procs
        /\ n \notin Workers
    BY RegistryAssumption DEF IInv, Typed, Procs
  <2> QED
    BY <2>1 DEF Stop
<1>2. \A v \in Workers : conn'[v] = IF conn[v].client = n THEN [conn[v] EXCEPT !.client = None]
                                    ELSE conn[v]
  BY DEF Stop
<1>3. \A v \in Workers : [conn[v] EXCEPT !.client = None].client = None /\ None \notin Nodes
  BY WithoutClientOK, RegistryAssumption DEF IInv, Typed, Procs
<1>4. Talk(n)'
  <2>1. \A v \in Workers : conn'[v].client # n
    BY <1>2, <1>3
  <2>2. (announcer[n].pc = "learn" => Heard(n, Task(n)))' /\ DoneHeard(n)' /\ OffWhenDown(n)'
    BY <1>1 DEF DoneHeard, OffWhenDown, Off
  <2> QED
    BY <1>1, <2>1, <2>2, QuietTalkNext
<1>5. ASSUME NEW m \in Nodes, m # n PROVE Talk(m)'
  <2>1. \A v \in Workers : conn'[v].client = m => conn'[v] = conn[v] /\ save'[v] = save[v]
    <3> SUFFICES ASSUME NEW v \in Workers, conn'[v].client = m
                 PROVE  conn'[v] = conn[v] /\ save'[v] = save[v]
      OBVIOUS
    <3>1. conn[v].client # n
      BY <1>2, <1>3
    <3> QED
      BY <1>1, <1>2, <3>1
  <2> QED
    BY <1>1, <1>5, <2>1, OthersTalk
<1> QED
  BY <1>4, <1>5 DEF Talks

(* A broken connection fails the announcer that waits on it, at most.      *)
LEMMA BreakTalks ==
  ASSUME IInv, Talks, NEW w \in Workers, Break(w)
  PROVE  Talks'
<1> DEFINE c == conn[w].client
           without == [conn[w] EXCEPT !.client = None]
<1>1. /\ UNCHANGED <<node, announcer, heard>> /\ inbox' = [inbox EXCEPT ![c] = Failure]
      /\ c \in Procs /\ None \notin Nodes /\ Nodes \subseteq Procs
  BY RegistryAssumption DEF Break, IInv, Typed, ConnOK, Conn, Procs
<1>2. PICK new \in {without, Free} : conn' = [conn EXCEPT ![w] = new]
  BY DEF Break
<1>3. new.client = None
  <2>1. conn[w] \in ConnOK
    BY DEF IInv, Typed
  <2>2. without.client = None
    BY <2>1, WithoutClientOK
  <2> HIDE DEF without
  <2> QED
    BY <1>2, <2>2, Constructors
<1>4. \A v \in Workers \ {w} : save'[v] = save[v]
  <2>1. DOMAIN save = Procs /\ Workers \subseteq Procs
    BY DEF IInv, Typed, Procs
  <2> QED
    BY <2>1 DEF Break
<1>5. \A v \in Workers : conn'[v] = IF v = w THEN new ELSE conn[v]
  BY <1>2 DEF IInv, Typed
<1>6. \A m \in Nodes : inbox'[m] = IF m = c THEN Failure ELSE inbox[m]
  BY <1>1 DEF IInv, Typed
<1> HIDE DEF without
<1>7. ASSUME NEW m \in Nodes, m # c PROVE Talk(m)'
  <2>1. \A v \in Workers : conn'[v].client = m => conn'[v] = conn[v] /\ save'[v] = save[v]
    BY <1>1, <1>3, <1>4, <1>5
  <2>2. Talk(m)
    BY DEF Talks
  <2> QED
    BY <1>1, <1>6, <1>7, <2>1, <2>2, SameTalk
<1>8. ASSUME NEW m \in Nodes, m = c PROVE Talk(m)'
  <2>1. Talk(m) /\ announcer[m].pc = "wait"
    BY <1>8 DEF Talks, Talk, HandlersSave
  <2>2. \A v \in Workers : conn'[v].client # m
    BY <1>1, <1>3, <1>5, <1>8, <2>1 DEF Talk, OneHandler
  <2>3. inbox'[m] = Failure /\ Failure.kind = "failed"
    BY <1>6, <1>8 DEF Failure, NoReply
  <2>4. HandlersSave(m)' /\ OneHandler(m)' /\ RepliesLast(m)' /\ OffWhenDown(m)'
    BY <1>1, <2>1, <2>2 DEF Talk, HandlersSave, OneHandler, RepliesLast, OffWhenDown
  <2>5. RepliesHeard(m)' /\ DoneHeard(m)'
    BY <1>1, <2>1, <2>3 DEF Talk, RepliesHeard, DoneHeard, Heard, Task
  <2> QED
    BY <2>4, <2>5 DEF Talk
<1> QED
  BY <1>7, <1>8 DEF Talks

LEMMA UserQueryTalks ==
  ASSUME IInv, Talks, NEW n \in Nodes, NEW p \in Principals, UserQuery(n, p)
  PROVE  Talks'
<1>1. PICK v \in FreeWorkers :
        /\ conn' = [conn EXCEPT ![v] = Handler(n, "query", None, p)]
        /\ save' = [save EXCEPT ![v] = SaveInto(n, Ingested(n, None, "query"))]
  BY DEF UserQuery
<1>2. /\ v \in Workers /\ conn[v].client = None /\ None \notin Nodes
      /\ UNCHANGED <<announcer, node, heard, inbox>>
  BY RegistryAssumption
     DEF FreeWorkers, IInv, Linked, FreeUnlinked, UserQuery, Procs
<1>3. Handler(n, "query", None, p).client = None
  BY DEF Handler, Free
<1>4. \A u \in Workers \ {v} : save'[u] = save[u]
  BY <1>1, <1>2 DEF IInv, Typed, Procs
<1>5. \A m \in Nodes : inbox'[m] = inbox[m]
  BY <1>2
<1>6. UNCHANGED <<announcer, node, heard>> /\ conn[v].client \notin Nodes
  BY <1>2
<1> QED
  BY <1>1, <1>2, <1>3, <1>4, <1>5, <1>6, TalksAfterMove

-----------------------------------------------------------------------------
LEMMA InitTalks == Init => Talks
<1> SUFFICES ASSUME Init, NEW n \in Nodes PROVE Talk(n)
  BY DEF Talks
<1>1. /\ announcer[n] = Off /\ inbox[n] = NoReply
      /\ \A v \in Workers : conn[v].client # n
  BY Constructors, RegistryAssumption DEF Init, Procs
<1>2. DoneHeard(n) /\ OffWhenDown(n) /\ announcer[n].pc # "learn"
  BY <1>1 DEF DoneHeard, OffWhenDown, Off
<1> QED
  BY <1>1, <1>2, QuietTalk

LEMMA NextTalks ==
  ASSUME IInv, Talks, [Next]_vars
  PROVE  Talks'
<1>1. CASE Next
  BY <1>1, FileTalks, HandleTalks, BreakTalks, DiscoverTalks, StartTalks, ListenTalks,
     StopTalks, UserQueryTalks DEF Next
<1>2. CASE UNCHANGED vars
  <2>1. ASSUME NEW n \in Nodes PROVE Talk(n)'
    BY <1>2, SameTalk DEF vars, Talks
  <2> QED
    BY <2>1 DEF Talks
<1> QED
  BY <1>1, <1>2

(* distributed.c 2055-2102: whatever breaks or restarts, an announcer that *)
(* counts an announcement as made, and so will not make it again, was      *)
(* heard: the seed had saved the routes of this life of the node.          *)
THEOREM AnnouncementsWereHeard == Spec => []AnnouncedWasHeard
<1>1. Talks => AnnouncedWasHeard
  BY DEF Talks, Talk, DoneHeard, Heard, AnnouncedWasHeard
<1> QED
  BY <1>1, InitIInv, InitTalks, NextIInv, NextTalks, PTL DEF Spec

-----------------------------------------------------------------------------
(* Processes that change a file                                            *)

(* A change of a file is made by a process that handles a connection of    *)
(* the node, or by its announcer, and an announcement is only saved and    *)
(* answered.                                                               *)
HandlersPlaced ==
  \A w \in Workers :
    /\ save[w].phase # "idle" => conn[w].pc \in {"ingest", "learn"} /\ save[w].at = conn[w].at
    /\ conn[w].op = "announce" => conn[w].pc = "ingest"
AnnouncersPlaced ==
  \A n \in Nodes : save[n].phase # "idle" => announcer[n].pc = "learn" /\ save[n].at = n
Placed == HandlersPlaced /\ AnnouncersPlaced

(* What is saved for an announcement has the routes announced.             *)
Carries ==
  \A w \in Workers :
    save[w].phase # "idle" /\ conn[w].op = "announce" /\ conn[w].client \in Nodes
      => Hosts[conn[w].client] \subseteq DOMAIN save[w].routes

-----------------------------------------------------------------------------
(* Without faults                                                          *)

(* Nodes that were up stay up.                                             *)
HandlersLive == \A w \in Workers : conn[w].pc # "free" => node[conn[w].at] = "up"
HeardLive == \A m, n \in Nodes : <<m, n>> \in heard => node[n] = "up"

(* The routes m announced are in the file of n, or about to be written.    *)
Rewriting(p, n) == save[p].at = n /\ save[p].phase \in {"truncate", "write"}
Kept(m, n) ==
  /\ \A p \in Procs : Rewriting(p, n) => Hosts[m] \subseteq DOMAIN save[p].routes
  /\ (\A p \in Procs : save[p].at = n => save[p].phase # "write")
       => Hosts[m] \subseteq DOMAIN file[n]
HeardKept == \A m, n \in Nodes : <<m, n>> \in heard => Kept(m, n)

-----------------------------------------------------------------------------
(* Without queries                                                         *)

Leaf(n) == \A m \in Nodes : n \notin {Seeds[m][i] : i \in DOMAIN Seeds[m]}
SeedHosts(n, task) == Hosts[SeedOf(n, task)]

OnlyDiscovery ==
  \A w \in Workers : conn[w].pc # "free"
    => conn[w].pc = "ingest" /\ conn[w].wants = None /\ ~ Leaf(conn[w].at)

RepliesTell(n) ==
  inbox[n].kind = "ok" => SeedHosts(n, Task(n)) \subseteq DOMAIN inbox[n].routes
LearningTells(n) ==
  announcer[n].pc = "learn" =>
    SeedHosts(n, Task(n)) \subseteq
      IF save[n].phase = "idle" THEN DOMAIN file[n] ELSE DOMAIN save[n].routes
DoneStays(n) ==
  \A task \in announcer[n].done :
    /\ save[n].phase \in {"truncate", "write"} => SeedHosts(n, task) \subseteq DOMAIN save[n].routes
    /\ save[n].phase # "write" => SeedHosts(n, task) \subseteq DOMAIN file[n]
Learnt(n) == RepliesTell(n) /\ LearningTells(n) /\ DoneStays(n)
LeavesLearn == \A n \in Nodes : Leaf(n) => Learnt(n)

-----------------------------------------------------------------------------
(* What a step does to a process that handles a connection: nothing, or it *)
(* loses its client, goes on with its file, ends, is started for a         *)
(* request, or goes on with a user's query.                                *)

HandlerStays(w) ==
  save'[w] = save[w] /\ conn'[w] \in {conn[w], [conn[w] EXCEPT !.client = None]}
HandlerSaves(w) == ChangeFile(w) /\ conn'[w] = conn[w]
HandlerEnds(w) ==
  conn'[w] = Free /\ save[w].phase \in {"idle", "load"} /\ save'[w].phase = "idle"

(* Who makes a request for wants at n: an announcer, a user or a query.    *)
Requested(n, wants) ==
  \/ wants = None /\ \E m \in Nodes : \E task \in Tasks(m) : n = SeedOf(m, task)
  \/ queries < MaxQueries
  \/ \E v \in Workers : conn[v].pc \in {"ask", "seeds"}
StartsFor(w, n, m, op, client, wants) ==
  /\ node[n] = "up" /\ Requested(n, wants)
  /\ conn'[w] = Handler(n, op, client, wants)
  /\ save'[w] = SaveInto(n, Ingested(n, m, op))
  /\ op = "announce" /\ client \in Nodes => m = client
HandlerStarts(w) ==
  /\ save[w].phase = "idle"
  /\ \E n \in Nodes, m \in Nodes \cup {None}, op \in Ops, client \in Procs \cup {None} :
       \E wants \in Principals \cup {None} : StartsFor(w, n, m, op, client, wants)
HandlerGoes(w) ==
  /\ conn[w].pc # "free"
  /\ conn[w].pc = "ingest" => IsUserQuery(w)
  /\ conn[w].pc \in {"ingest", "learn"} => Saved(w)
  /\ conn'[w].pc \in {"seeds", "ask", "wait", "learn"}
  /\ conn'[w].at = conn[w].at /\ conn'[w].op = conn[w].op
  /\ \/ save'[w] = save[w]
     \/ conn'[w].pc = "learn" /\ save'[w] = SaveInto(conn[w].at, inbox[w].routes)

HandlerMove(w) == \/ HandlerStays(w) \/ HandlerSaves(w) \/ HandlerEnds(w)
                  \/ HandlerStarts(w) \/ HandlerGoes(w)

LEMMA ProcsApart ==
  /\ None \notin Procs /\ Workers \subseteq Procs /\ Nodes \subseteq Procs
  /\ \A w \in Workers : w \notin Nodes
BY RegistryAssumption DEF Procs

(* Only one process changes a file at a step.                              *)
LEMMA ChangeFileMoves ==
  ASSUME IInv, NEW p \in Procs, ChangeFile(p), NEW w \in Workers
  PROVE  HandlerMove(w)
<1>1. conn' = conn /\ \A q \in Procs : q # p => save'[q] = save[q]
  BY DEF ChangeFile, Load, Truncate, Write, IInv, Typed
<1>2. CASE w = p
  BY <1>1, <1>2 DEF HandlerMove, HandlerSaves
<1>3. CASE w # p
  BY <1>1, <1>3, ProcsApart DEF HandlerMove, HandlerStays
<1> QED
  BY <1>2, <1>3

(* A process that moves alone.                                             *)
LEMMA MovesAlone ==
  ASSUME IInv, NEW u \in Workers, NEW c, conn' = [conn EXCEPT ![u] = c],
         \A v \in Workers : v # u => save'[v] = save[v],
         HandlerMove(u), NEW w \in Workers
  PROVE  HandlerMove(w)
<1>1. CASE w = u
  BY <1>1
<1>2. CASE w # u
  BY <1>2 DEF IInv, Typed, HandlerMove, HandlerStays
<1> QED
  BY <1>1, <1>2

(* The fields a process keeps when it goes on.                             *)
LEMMA ConnFields ==
  ASSUME IInv, NEW w \in Workers
  PROVE  /\ conn[w] \in ConnOK /\ conn[w] \in Conn
         /\ \A pc : LET c == [conn[w] EXCEPT !.pc = pc] IN
              c.pc = pc /\ c.at = conn[w].at /\ c.op = conn[w].op
         /\ \A pc : \A target : LET c == [conn[w] EXCEPT !.pc = pc, !.target = target] IN
              c.pc = pc /\ c.at = conn[w].at /\ c.op = conn[w].op
         /\ LET c == NextSeed(conn[w]) IN
              c.pc = "seeds" /\ c.at = conn[w].at /\ c.op = conn[w].op
<1>1. conn[w] \in ConnOK /\ conn[w] \in Conn
  BY DEF IInv, Typed, ConnOK
<1>2. \A pc : LET c == [conn[w] EXCEPT !.pc = pc] IN
        c.pc = pc /\ c.at = conn[w].at /\ c.op = conn[w].op
  BY <1>1 DEF Conn
<1>3. \A pc : \A target : LET c == [conn[w] EXCEPT !.pc = pc, !.target = target] IN
        c.pc = pc /\ c.at = conn[w].at /\ c.op = conn[w].op
  BY <1>1 DEF Conn
<1>4. LET c == NextSeed(conn[w]) IN
        c.pc = "seeds" /\ c.at = conn[w].at /\ c.op = conn[w].op
  BY <1>1 DEF Conn, NextSeed
<1> QED
  BY <1>1, <1>2, <1>3, <1>4

LEMMA GoesOn ==
  ASSUME IInv, NEW u \in Workers, NEW c, conn' = [conn EXCEPT ![u] = c],
         \A v \in Workers : v # u => save'[v] = save[v],
         conn[u].pc # "free", conn[u].pc = "ingest" => IsUserQuery(u),
         conn[u].pc \in {"ingest", "learn"} => Saved(u),
         c.pc \in {"seeds", "ask", "wait", "learn"}, c.at = conn[u].at, c.op = conn[u].op,
         \/ save'[u] = save[u]
         \/ c.pc = "learn" /\ save'[u] = SaveInto(conn[u].at, inbox[u].routes),
         NEW w \in Workers
  PROVE  HandlerMove(w)
<1>1. conn'[u] = c
  BY DEF IInv, Typed
<1>2. HandlerMove(u)
  BY <1>1 DEF HandlerMove, HandlerGoes
<1> QED
  BY <1>2, MovesAlone

LEMMA Ends ==
  ASSUME IInv, NEW u \in Workers, conn' = [conn EXCEPT ![u] = Free],
         \A v \in Workers : v # u => save'[v] = save[v],
         save[u].phase \in {"idle", "load"}, save'[u].phase = "idle",
         NEW w \in Workers
  PROVE  HandlerMove(w)
<1>1. conn'[u] = Free
  BY DEF IInv, Typed
<1>2. HandlerMove(u)
  BY <1>1 DEF HandlerMove, HandlerEnds
<1> QED
  BY <1>2, MovesAlone

LEMMA CallMoves ==
  ASSUME IInv, NEW u \in Workers, Call(u), NEW w \in Workers
  PROVE  HandlerMove(w)
<1> DEFINE handler == Handler(Callee(u), CallOp(u), u, CallFor(u))
           request == SaveInto(Callee(u), Ingested(Callee(u), conn[u].at, CallOp(u)))
           waiting == [conn[u] EXCEPT !.pc = "wait"]
<1>1. PICK v \in FreeWorkers : /\ conn' = [conn EXCEPT ![u].pc = "wait", ![v] = handler]
                               /\ save' = [save EXCEPT ![v] = request]
  BY DEF Call
<1>2. /\ v \in Workers /\ conn[v].pc = "free" /\ save[v].phase = "idle" /\ v # u
      /\ conn[u].pc \in {"ask", "seeds"} /\ conn[u].at \in Nodes
      /\ conn[u].wants \in Principals \cup {None}
  BY ConnFields DEF FreeWorkers, Call, Asks, ConnOK, Conn
<1>3. Callee(u) \in Nodes /\ node[Callee(u)] = "up"
  <2>1. CASE conn[u].pc = "ask"
    BY <2>1, ConnFields DEF Callee, ConnOK, Call
  <2>2. CASE conn[u].pc # "ask"
    BY <1>2, <2>2, SeedTriedIsNode DEF Callee, IInv, Call, Asks
  <2> QED
    BY <2>1, <2>2
<1>4. /\ CallOp(u) \in Ops /\ CallOp(u) # "announce"
      /\ CallFor(u) \in Principals \cup {None} /\ u \in Procs
  BY <1>2, ProcsApart DEF CallOp, CallFor, Ops
<1>5. /\ conn'[v] = handler /\ conn'[u] = waiting
      /\ \A x \in Workers : x \notin {u, v} => conn'[x] = conn[x]
      /\ save'[v] = request /\ \A x \in Workers : x # v => save'[x] = save[x]
  <2> HIDE DEF handler, request
  <2>1. DOMAIN conn = Workers /\ DOMAIN save = Procs
    BY DEF IInv, Typed
  <2> QED
    BY <1>1, <1>2, <2>1, ProcsApart
<1>6. CASE w = v
  <2>1. Requested(Callee(u), CallFor(u))
    BY <1>2 DEF Requested
  <2>2. StartsFor(v, Callee(u), conn[u].at, CallOp(u), u, CallFor(u))
    BY <1>3, <1>4, <1>5, <2>1 DEF StartsFor
  <2> QED
    BY <1>2, <1>3, <1>4, <1>6, <2>2 DEF HandlerMove, HandlerStarts
<1>7. CASE w = u
  <2>1. waiting.pc = "wait" /\ waiting.at = conn[u].at /\ waiting.op = conn[u].op
    BY ConnFields
  <2> HIDE DEF waiting
  <2> QED
    BY <1>2, <1>5, <1>7, <2>1 DEF HandlerMove, HandlerGoes
<1>8. CASE w \notin {u, v}
  BY <1>5, <1>8 DEF HandlerMove, HandlerStays
<1> QED
  BY <1>6, <1>7, <1>8

LEMMA HandleMoves ==
  ASSUME IInv, HandlersPlaced, NEW u \in Workers, Handle(u), NEW w \in Workers
  PROVE  HandlerMove(w)
<1>1. CASE Respond(u) \/ NoRoute(u) \/ TargetReplies(u)
  <2>1. conn' = [conn EXCEPT ![u] = Free] /\ save' = save
    BY <1>1 DEF Respond, NoRoute, TargetReplies
  <2>2. save[u].phase = "idle"
    BY <1>1 DEF Respond, NoRoute, TargetReplies, Saved, HandlersPlaced
  <2> QED
    BY <2>1, <2>2, Ends
<1>2. CASE CallRefused(u)
  <2>1. save' = save /\ save[u].phase = "idle" /\ conn[u].pc \in {"ask", "seeds"}
    BY <1>2 DEF CallRefused, Asks, HandlersPlaced
  <2>2. CASE conn[u].pc = "ask"
    BY <1>2, <2>1, <2>2, Ends DEF CallRefused
  <2>3. CASE conn[u].pc # "ask"
    <3>1. conn' = [conn EXCEPT ![u] = NextSeed(conn[u])]
      BY <1>2, <2>3 DEF CallRefused
    <3> QED
      BY <2>1, <3>1, ConnFields, GoesOn
  <2> QED
    BY <2>2, <2>3
<1>3. CASE Lookup(u)
  <2> DEFINE known == Known(conn[u].at, conn[u].wants)
             pc == IF known = None THEN "seeds" ELSE "ask"
             c == [conn[u] EXCEPT !.pc = pc, !.target = known]
  <2>1. conn' = [conn EXCEPT ![u] = c] /\ save' = save
    BY <1>3 DEF Lookup
  <2>2. c.pc = pc /\ c.at = conn[u].at /\ c.op = conn[u].op
    BY ConnFields
  <2>3. conn[u].pc = "ingest" /\ IsUserQuery(u) /\ Saved(u) /\ pc \in {"seeds", "ask"}
    BY <1>3 DEF Lookup
  <2> HIDE DEF c, pc
  <2> QED
    BY <2>1, <2>2, <2>3, GoesOn
<1>4. CASE Call(u)
  BY <1>4, CallMoves
<1>5. CASE SeedReplies(u)
  <2> DEFINE c == [conn[u] EXCEPT !.pc = "learn", !.target = inbox[u].found]
  <2>1. conn[u].pc = "wait" /\ DOMAIN save = Procs /\ u \in Procs
    BY <1>5, ProcsApart DEF SeedReplies, IInv, Typed
  <2>2. CASE inbox[u].kind = "failed"
    <3>1. conn' = [conn EXCEPT ![u] = NextSeed(conn[u])] /\ save' = save
      BY <1>5, <2>2 DEF SeedReplies
    <3> QED
      BY <2>1, <3>1, ConnFields, GoesOn
  <2>3. CASE inbox[u].kind # "failed"
    <3>1. /\ conn' = [conn EXCEPT ![u] = c]
          /\ save' = [save EXCEPT ![u] = SaveInto(conn[u].at, inbox[u].routes)]
      BY <1>5, <2>3 DEF SeedReplies
    <3>2. c.pc = "learn" /\ c.at = conn[u].at /\ c.op = conn[u].op
      BY ConnFields
    <3>3. /\ save'[u] = SaveInto(conn[u].at, inbox[u].routes)
          /\ \A v \in Workers : v # u => save'[v] = save[v]
      BY <2>1, <3>1, ProcsApart
    <3> HIDE DEF c
    <3> QED
      BY <2>1, <3>1, <3>2, <3>3, GoesOn
  <2> QED
    BY <2>2, <2>3
<1>6. CASE SeedLearnt(u)
  <2> DEFINE c == [conn[u] EXCEPT !.pc = "ask"]
  <2>1. conn[u].pc = "learn" /\ Saved(u) /\ save' = save
    BY <1>6 DEF SeedLearnt
  <2>2. PICK d \in {NextSeed(conn[u]), c} : conn' = [conn EXCEPT ![u] = d]
    BY <1>6 DEF SeedLearnt
  <2>3. c.pc = "ask" /\ c.at = conn[u].at /\ c.op = conn[u].op
    BY ConnFields
  <2> HIDE DEF c
  <2>4. d.pc \in {"seeds", "ask"} /\ d.at = conn[u].at /\ d.op = conn[u].op
    BY <2>2, <2>3, ConnFields
  <2> QED
    BY <2>1, <2>2, <2>4, GoesOn
<1> QED
  BY <1>1, <1>2, <1>3, <1>4, <1>5, <1>6 DEF Handle

LEMMA DiscoverMoves ==
  ASSUME IInv, NEW n \in Nodes, Discover(n), NEW w \in Workers
  PROVE  HandlerMove(w)
<1>1. CASE Announce(n)
  <2>1. PICK task \in Tasks(n), v \in FreeWorkers :
          /\ node[SeedOf(n, task)] = "up"
          /\ conn' = [conn EXCEPT ![v] = Handler(SeedOf(n, task), OpOf(task), n, None)]
          /\ save' = [save EXCEPT ![v] =
                        SaveInto(SeedOf(n, task), Ingested(SeedOf(n, task), n, OpOf(task)))]
    BY <1>1 DEF Announce
  <2> DEFINE handler == Handler(SeedOf(n, task), OpOf(task), n, None)
             request == SaveInto(SeedOf(n, task), Ingested(SeedOf(n, task), n, OpOf(task)))
  <2>2. v \in Workers /\ save[v].phase = "idle" /\ DOMAIN save = Procs /\ DOMAIN conn = Workers
    BY DEF FreeWorkers, IInv, Typed
  <2>3. SeedOf(n, task) \in Nodes /\ OpOf(task) \in Ops
    BY SeedIsNode DEF OpOf, Ops
  <2>4. conn'[v] = handler /\ save'[v] = request /\ \A x \in Workers : x # v => save'[x] = save[x]
    <3> HIDE DEF handler, request
    <3> QED
      BY <2>1, <2>2, ProcsApart DEF handler, request
  <2>5. Requested(SeedOf(n, task), None)
    BY DEF Requested
  <2>6. StartsFor(v, SeedOf(n, task), n, OpOf(task), n, None)
    BY <2>1, <2>4, <2>5 DEF StartsFor
  <2>7. HandlerMove(v)
    BY <2>2, <2>3, <2>6, ProcsApart DEF HandlerMove, HandlerStarts
  <2> QED
    BY <2>1, <2>2, <2>4, <2>7, MovesAlone
<1>2. CASE PassOver(n) \/ AnnouncerReply(n) \/ TaskDone(n) \/ EndRound(n)
  <2>1. conn' = conn
    BY <1>2 DEF PassOver, AnnouncerReply, TaskDone, EndRound
  <2>2. save' = save \/ \E s : save' = [save EXCEPT ![n] = s]
    BY <1>2 DEF PassOver, AnnouncerReply, TaskDone, EndRound
  <2>3. save'[w] = save[w]
    BY <2>2, ProcsApart DEF IInv, Typed
  <2> QED
    BY <2>1, <2>3 DEF HandlerMove, HandlerStays
<1> QED
  BY <1>1, <1>2 DEF Discover

LEMMA NodeMoves ==
  ASSUME IInv, NEW n \in Nodes, NEW w \in Workers,
         \/ Start(n) \/ Listen(n) \/ Stop(n)
         \/ \E p \in Principals : UserQuery(n, p)
  PROVE  HandlerMove(w)
<1>1. CASE Start(n) \/ Listen(n)
  BY <1>1 DEF Start, Listen, HandlerMove, HandlerStays
<1>2. CASE Stop(n)
  <2>1. save'[w] = save[w]
    BY <1>2, ProcsApart DEF Stop, IInv, Typed
  <2>2. conn'[w] \in {conn[w], [conn[w] EXCEPT !.client = None]}
    BY <1>2 DEF Stop
  <2> QED
    BY <2>1, <2>2 DEF HandlerMove, HandlerStays
<1>3. ASSUME NEW p \in Principals, UserQuery(n, p) PROVE HandlerMove(w)
  <2>1. PICK v \in FreeWorkers :
          /\ conn' = [conn EXCEPT ![v] = Handler(n, "query", None, p)]
          /\ save' = [save EXCEPT ![v] = SaveInto(n, Ingested(n, None, "query"))]
    BY <1>3 DEF UserQuery
  <2> DEFINE handler == Handler(n, "query", None, p)
             request == SaveInto(n, Ingested(n, None, "query"))
  <2>2. v \in Workers /\ save[v].phase = "idle" /\ DOMAIN save = Procs /\ DOMAIN conn = Workers
    BY DEF FreeWorkers, IInv, Typed
  <2>3. conn'[v] = handler /\ save'[v] = request /\ \A x \in Workers : x # v => save'[x] = save[x]
    <3> HIDE DEF handler, request
    <3> QED
      BY <2>1, <2>2, ProcsApart DEF handler, request
  <2>4. Requested(n, p) /\ node[n] = "up" /\ "query" \in Ops
    BY <1>3 DEF Requested, UserQuery, Ops
  <2>5. StartsFor(v, n, None, "query", None, p)
    BY <2>3, <2>4 DEF StartsFor
  <2>6. HandlerMove(v)
    BY <2>2, <2>4, <2>5 DEF HandlerMove, HandlerStarts
  <2> QED
    BY <2>1, <2>2, <2>3, <2>6, MovesAlone
<1> QED
  BY <1>1, <1>2, <1>3

LEMMA BreakMoves ==
  ASSUME IInv, NEW u \in Workers, Break(u), NEW w \in Workers
  PROVE  HandlerMove(w)
<1>1. CASE conn' = [conn EXCEPT ![u].client = None] /\ UNCHANGED save
  BY <1>1 DEF HandlerMove, HandlerStays, IInv, Typed
<1>2. CASE /\ save[u].phase = "load" /\ conn' = [conn EXCEPT ![u] = Free]
           /\ save' = [save EXCEPT ![u] = NoSave]
  <2>1. /\ save'[u].phase = "idle" /\ \A v \in Workers : v # u => save'[v] = save[v]
    BY <1>2, ProcsApart DEF NoSave, IInv, Typed
  <2> QED
    BY <1>2, <2>1, Ends
<1> QED
  BY <1>1, <1>2 DEF Break

LEMMA NextMoves ==
  ASSUME IInv, HandlersPlaced, [Next]_vars, NEW w \in Workers
  PROVE  HandlerMove(w)
<1>1. CASE UNCHANGED vars
  BY <1>1 DEF vars, HandlerMove, HandlerStays
<1> QED
  BY <1>1, ChangeFileMoves, HandleMoves, BreakMoves, DiscoverMoves, NodeMoves DEF Next

-----------------------------------------------------------------------------
(* Processes that handle connections are where they should be.             *)

LEMMA ClientFields ==
  ASSUME IInv, NEW w \in Workers, HandlerStays(w)
  PROVE  /\ conn'[w].pc = conn[w].pc /\ conn'[w].at = conn[w].at /\ conn'[w].op = conn[w].op
         /\ conn'[w].wants = conn[w].wants /\ conn'[w].client \in {conn[w].client, None}
         /\ save'[w] = save[w]
<1>1. conn[w] \in Conn
  BY ConnFields
<1> QED
  BY <1>1 DEF HandlerStays, Conn

(* A change of a file keeps to it; it adds to what is in memory when it    *)
(* reads and forgets it when it is done.                                   *)
LEMMA SaveFields ==
  ASSUME IInv, NEW p \in Procs, ChangeFile(p)
  PROVE  /\ save[p].at \in Nodes /\ save[p].phase # "idle"
         /\ Load(p) => /\ save[p].phase = "load" /\ save'[p].phase = "truncate"
                       /\ save'[p].at = save[p].at
                       /\ DOMAIN save'[p].routes = DOMAIN file[save[p].at] \cup DOMAIN save[p].routes
         /\ Truncate(p) => /\ save[p].phase = "truncate" /\ save'[p].phase = "write"
                           /\ save'[p].at = save[p].at /\ save'[p].routes = save[p].routes
         /\ Write(p) => save[p].phase = "write" /\ save'[p] = NoSave
<1>1. save[p] \in SaveOK /\ DOMAIN save = Procs /\ save[p].at \in Nodes /\ save[p].phase # "idle"
  BY DEF IInv, Typed, ChangeFile, Load, Truncate, Write, SaveOK
<1>2. ASSUME Load(p)
      PROVE  /\ save[p].phase = "load" /\ save'[p].phase = "truncate"
             /\ save'[p].at = save[p].at
             /\ DOMAIN save'[p].routes = DOMAIN file[save[p].at] \cup DOMAIN save[p].routes
  <2>1. save' = [save EXCEPT ![p] = [save[p] EXCEPT !.phase = "truncate", !.routes = Updated(p)]]
    BY <1>2 DEF Load
  <2>2. save'[p] = [save[p] EXCEPT !.phase = "truncate", !.routes = Updated(p)]
    BY <1>1, <2>1
  <2>3. /\ save'[p].phase = "truncate" /\ save'[p].at = save[p].at
        /\ save'[p].routes = Updated(p)
    BY <1>1, <2>2 DEF SaveOK
  <2>4. DOMAIN Updated(p) = DOMAIN file[save[p].at] \cup DOMAIN save[p].routes
    BY DEF Updated, Merge
  <2> QED
    BY <1>2, <2>3, <2>4 DEF Load
<1>3. ASSUME Truncate(p)
      PROVE  /\ save[p].phase = "truncate" /\ save'[p].phase = "write"
             /\ save'[p].at = save[p].at /\ save'[p].routes = save[p].routes
  BY <1>1, <1>3 DEF Truncate, SaveOK
<1>4. ASSUME Write(p) PROVE save[p].phase = "write" /\ save'[p] = NoSave
  BY <1>1, <1>4 DEF Write
<1> QED
  BY <1>1, <1>2, <1>3, <1>4

LEMMA StartFields ==
  ASSUME NEW w \in Workers, NEW n, NEW m, NEW op, NEW client, NEW wants,
         StartsFor(w, n, m, op, client, wants)
  PROVE  /\ conn'[w].pc = "ingest" /\ conn'[w].at = n /\ conn'[w].op = op
         /\ conn'[w].client = client /\ conn'[w].wants = wants
         /\ save'[w].phase = "load" /\ save'[w].at = n
         /\ save'[w].routes = Ingested(n, m, op)
BY DEF StartsFor, Handler, Free, SaveInto

LEMMA NextHandlersPlaced ==
  ASSUME IInv, HandlersPlaced, [Next]_vars
  PROVE  HandlersPlaced'
<1> SUFFICES ASSUME NEW w \in Workers
             PROVE  /\ save'[w].phase # "idle" =>
                         conn'[w].pc \in {"ingest", "learn"} /\ save'[w].at = conn'[w].at
                    /\ conn'[w].op = "announce" => conn'[w].pc = "ingest"
  BY DEF HandlersPlaced
<1>1. /\ save[w].phase # "idle" => conn[w].pc \in {"ingest", "learn"} /\ save[w].at = conn[w].at
      /\ conn[w].op = "announce" => conn[w].pc = "ingest"
  BY DEF HandlersPlaced
<1>2. CASE HandlerStays(w)
  BY <1>1, <1>2, ClientFields
<1>3. CASE HandlerSaves(w)
  BY <1>1, <1>3, SaveFields, ProcsApart DEF HandlerSaves, ChangeFile, NoSave
<1>4. CASE HandlerEnds(w)
  BY <1>4 DEF HandlerEnds, Free
<1>5. CASE HandlerStarts(w)
  BY <1>5, StartFields DEF HandlerStarts
<1>6. CASE HandlerGoes(w)
  <2>1. save[w].phase = "idle" /\ conn[w].op # "announce"
    BY <1>1, <1>6 DEF HandlerGoes, Saved, IsUserQuery
  <2> QED
    BY <1>6, <2>1 DEF HandlerGoes, SaveInto
<1> QED
  BY <1>2, <1>3, <1>4, <1>5, <1>6, NextMoves DEF HandlerMove

LEMMA NextCarries ==
  ASSUME IInv, HandlersPlaced, Carries, [Next]_vars
  PROVE  Carries'
<1> SUFFICES ASSUME NEW w \in Workers, save'[w].phase # "idle", conn'[w].op = "announce",
                    conn'[w].client \in Nodes
             PROVE  Hosts[conn'[w].client] \subseteq DOMAIN save'[w].routes
  BY DEF Carries
<1>1. save[w].phase # "idle" /\ conn[w].op = "announce" /\ conn[w].client \in Nodes
        => Hosts[conn[w].client] \subseteq DOMAIN save[w].routes
  BY DEF Carries
<1>2. CASE HandlerStays(w)
  BY <1>1, <1>2, ClientFields, ProcsApart
<1>3. CASE HandlerSaves(w)
  <2>1. save[w].phase # "idle" /\ conn'[w] = conn[w] /\ w \in Procs
    BY <1>3, SaveFields, ProcsApart DEF HandlerSaves
  <2>2. DOMAIN save[w].routes \subseteq DOMAIN save'[w].routes
    BY <1>3, <2>1, SaveFields DEF HandlerSaves, ChangeFile, NoSave
  <2> QED
    BY <1>1, <2>1, <2>2
<1>4. CASE HandlerEnds(w)
  BY <1>4 DEF HandlerEnds
<1>5. CASE HandlerStarts(w)
  <2>1. PICK n \in Nodes, m \in Nodes \cup {None}, op \in Ops, client \in Procs \cup {None},
             wants \in Principals \cup {None} : StartsFor(w, n, m, op, client, wants)
    BY <1>5 DEF HandlerStarts
  <2>2. op = "announce" /\ m = client /\ conn'[w].client = m /\ m # None
        /\ save'[w].routes = Ingested(n, m, op)
    BY <2>1, StartFields, ProcsApart DEF StartsFor
  <2>3. Hosts[m] \subseteq DOMAIN Ingested(n, m, op)
    BY <2>2 DEF Ingested, Merge, RequestRoutes, LocalRoutes
  <2> QED
    BY <2>2, <2>3
<1>6. CASE HandlerGoes(w)
  BY <1>6 DEF HandlerGoes, IsUserQuery, HandlersPlaced
<1> QED
  BY <1>2, <1>3, <1>4, <1>5, <1>6, NextMoves DEF HandlerMove

(* Nobody stops while no fault is left to happen.                          *)
LEMMA StaysUp ==
  ASSUME IInv, MaxFaults = 0, [Next]_vars, NEW n \in Nodes, node[n] = "up"
  PROVE  node'[n] = "up"
<1>1. ~ faults < MaxFaults
  BY DEF IInv, Typed
<1>2. ASSUME NEW p \in Procs, ChangeFile(p) PROVE node' = node
  BY <1>2 DEF ChangeFile, Load, Truncate, Write
<1>3. ASSUME NEW w \in Workers, Handle(w) \/ Break(w) PROVE node' = node
  BY <1>3 DEF Handle, Respond, Lookup, Call, CallRefused, NoRoute, SeedReplies, SeedLearnt,
              TargetReplies, Break
<1>4. ASSUME NEW m \in Nodes, Discover(m) \/ \E p \in Principals : UserQuery(m, p)
      PROVE  node' = node
  BY <1>4 DEF Discover, Announce, PassOver, AnnouncerReply, TaskDone, EndRound, UserQuery
<1>5. ASSUME NEW m \in Nodes, Start(m) \/ Listen(m) PROVE node'[n] = "up"
  BY <1>5 DEF Start, Listen, IInv, Typed
<1>6. ASSUME NEW m \in Nodes PROVE ~ Stop(m)
  BY <1>1 DEF Stop
<1> QED
  BY <1>2, <1>3, <1>4, <1>5, <1>6 DEF Next, vars

LEMMA NextHandlersLive ==
  ASSUME IInv, HandlersPlaced, HandlersLive, MaxFaults = 0, [Next]_vars
  PROVE  HandlersLive'
<1> SUFFICES ASSUME NEW w \in Workers, conn'[w].pc # "free"
             PROVE  node'[conn'[w].at] = "up"
  BY DEF HandlersLive
<1>1. conn[w].pc # "free" => conn[w].at \in Nodes /\ node[conn[w].at] = "up"
  BY ConnFields DEF HandlersLive, ConnOK
<1>2. CASE HandlerStays(w)
  BY <1>1, <1>2, ClientFields, StaysUp
<1>3. CASE HandlerSaves(w)
  BY <1>1, <1>3, StaysUp DEF HandlerSaves
<1>4. CASE HandlerEnds(w)
  BY <1>4 DEF HandlerEnds, Free
<1>5. CASE HandlerStarts(w)
  BY <1>5, StartFields, StaysUp DEF HandlerStarts, StartsFor
<1>6. CASE HandlerGoes(w)
  BY <1>1, <1>6, StaysUp DEF HandlerGoes
<1> QED
  BY <1>2, <1>3, <1>4, <1>5, <1>6, NextMoves DEF HandlerMove

LEMMA SeedOfListed ==
  ASSUME NEW n \in Nodes, NEW task \in Tasks(n)
  PROVE  SeedOf(n, task) \in {Seeds[n][i] : i \in DOMAIN Seeds[n]}
<1>1. Seeds[n] \in Seq(Nodes) /\ Len(Seeds[n]) \in Nat
  BY RegistryAssumption
<1>2. (task + 1) \div 2 \in 1..Len(Seeds[n])
  BY <1>1 DEF Tasks
<1> QED
  BY <1>1, <1>2 DEF SeedOf

LEMMA NextOnlyDiscovery ==
  ASSUME IInv, HandlersPlaced, OnlyDiscovery, MaxQueries = 0, [Next]_vars
  PROVE  OnlyDiscovery'
<1> SUFFICES ASSUME NEW w \in Workers, conn'[w].pc # "free"
             PROVE  conn'[w].pc = "ingest" /\ conn'[w].wants = None /\ ~ Leaf(conn'[w].at)
  BY DEF OnlyDiscovery, Leaf
<1>1. conn[w].pc # "free"
        => conn[w].pc = "ingest" /\ conn[w].wants = None /\ ~ Leaf(conn[w].at)
  BY DEF OnlyDiscovery
<1>2. CASE HandlerStays(w)
  BY <1>1, <1>2, ClientFields
<1>3. CASE HandlerSaves(w)
  BY <1>1, <1>3 DEF HandlerSaves
<1>4. CASE HandlerEnds(w)
  BY <1>4 DEF HandlerEnds, Free
<1>5. CASE HandlerStarts(w)
  <2>1. PICK n \in Nodes, m \in Nodes \cup {None}, op \in Ops, client \in Procs \cup {None},
             wants \in Principals \cup {None} : StartsFor(w, n, m, op, client, wants)
    BY <1>5 DEF HandlerStarts
  <2>2. ~ queries < MaxQueries /\ \A v \in Workers : conn[v].pc \notin {"ask", "seeds"}
    BY DEF IInv, Typed, OnlyDiscovery
  <2>3. wants = None /\ \E k \in Nodes : \E task \in Tasks(k) : n = SeedOf(k, task)
    BY <2>1, <2>2 DEF StartsFor, Requested
  <2>4. ~ Leaf(n)
    BY <2>3, SeedOfListed DEF Leaf
  <2> QED
    BY <2>1, <2>3, <2>4, StartFields
<1>6. CASE HandlerGoes(w)
  BY <1>1, <1>6 DEF HandlerGoes, IsUserQuery
<1> QED
  BY <1>2, <1>3, <1>4, <1>5, <1>6, NextMoves DEF HandlerMove

-----------------------------------------------------------------------------
(* What a step does to the announcer of a node: nothing, though a reply    *)
(* may arrive; or it goes on with its file, with its tasks, takes a reply, *)
(* is done with a task, or is killed or started anew.                      *)

AnnouncerStays(n) ==
  /\ announcer'[n] = announcer[n] /\ save'[n] = save[n]
  /\ \/ inbox'[n] \in {inbox[n], Failure}
     \/ \E v \in Workers : conn[v].client = n /\ inbox'[n] = ReplyOf(v)
AnnouncerSaves(n) ==
  ChangeFile(n) /\ announcer'[n] = announcer[n] /\ inbox'[n] = inbox[n]
AnnouncerGoes(n) ==
  /\ announcer[n].pc \in {"next", "wait"} /\ announcer'[n].pc \in {"next", "wait", "ended"}
  /\ announcer'[n].done = announcer[n].done
  /\ save'[n] = save[n] /\ inbox'[n].kind = "none"
AnnouncerTakes(n) ==
  /\ announcer[n].pc = "wait" /\ inbox[n].kind = "ok"
  /\ announcer'[n].pc = "learn" /\ announcer'[n].task = announcer[n].task
  /\ announcer'[n].done = announcer[n].done
  /\ save'[n] = SaveInto(n, inbox[n].routes) /\ inbox'[n].kind = "none"
AnnouncerLearnt(n) ==
  /\ announcer[n].pc = "learn" /\ Saved(n)
  /\ announcer'[n].pc = "next"
  /\ announcer'[n].done = announcer[n].done \cup {announcer[n].task}
  /\ save'[n] = save[n] /\ inbox'[n].kind = "none"
AnnouncerResets(n) ==
  /\ announcer'[n].pc \in {"off", "next", "ended"} /\ announcer'[n].done = {}
  /\ save'[n].phase = "idle" /\ inbox'[n].kind = "none"
  /\ faults < MaxFaults \/ save'[n] = save[n]

AnnouncerMove(n) == \/ AnnouncerStays(n) \/ AnnouncerSaves(n) \/ AnnouncerGoes(n)
                    \/ AnnouncerTakes(n) \/ AnnouncerLearnt(n) \/ AnnouncerResets(n)

LEMMA ChangeFileAnnouncers ==
  ASSUME IInv, NEW p \in Procs, ChangeFile(p), NEW n \in Nodes
  PROVE  AnnouncerMove(n)
<1>1. /\ UNCHANGED <<announcer, inbox>> /\ \A q \in Procs : q # p => save'[q] = save[q]
  BY DEF ChangeFile, Load, Truncate, Write, IInv, Typed
<1> QED
  BY <1>1, ProcsApart DEF AnnouncerMove, AnnouncerStays, AnnouncerSaves

LEMMA HandleAnnouncers ==
  ASSUME IInv, NEW w \in Workers, Handle(w) \/ Break(w), NEW n \in Nodes
  PROVE  AnnouncerMove(n)
<1>1. /\ DOMAIN save = Procs /\ DOMAIN inbox = Procs /\ n \in Procs /\ n \notin Workers
      /\ conn[w].client \in Procs \cup {None} /\ n # None
  BY ProcsApart, ConnFields DEF IInv, Typed, Conn
<1>2. UNCHANGED announcer
  BY DEF Handle, Respond, Lookup, Call, CallRefused, NoRoute, SeedReplies, SeedLearnt,
         TargetReplies, Break, history
<1>3. CASE Respond(w)
  <2>1. save' = save /\ inbox' \in {inbox, [inbox EXCEPT ![conn[w].client] = ReplyOf(w)]}
    BY <1>3 DEF Respond
  <2> QED
    BY <1>1, <1>2, <2>1 DEF AnnouncerMove, AnnouncerStays
<1>4. CASE Break(w)
  <2>1. /\ inbox' = [inbox EXCEPT ![conn[w].client] = Failure]
        /\ save' \in {save, [save EXCEPT ![w] = NoSave]}
    BY <1>4 DEF Break
  <2> QED
    BY <1>1, <1>2, <2>1 DEF AnnouncerMove, AnnouncerStays
<1>5. CASE Handle(w) /\ ~ Respond(w)
  <2>1. inbox' = inbox \/ inbox' = [inbox EXCEPT ![w] = NoReply]
    BY <1>5 DEF Handle, Lookup, Call, CallRefused, NoRoute, SeedReplies, SeedLearnt,
                TargetReplies
  <2>2. save' = save \/ \E v \in Workers : \E s : save' = [save EXCEPT ![v] = s]
    <3>1. CASE Call(w)
      BY <3>1 DEF Call, FreeWorkers
    <3>2. CASE SeedReplies(w)
      BY <3>2 DEF SeedReplies
    <3> QED
      BY <1>5, <3>1, <3>2
         DEF Handle, Lookup, CallRefused, NoRoute, SeedLearnt, TargetReplies
  <2>3. inbox'[n] = inbox[n] /\ save'[n] = save[n]
    BY <1>1, <2>1, <2>2
  <2> QED
    BY <1>2, <2>3 DEF AnnouncerMove, AnnouncerStays
<1> QED
  BY <1>3, <1>4, <1>5

LEMMA DiscoverAnnouncers ==
  ASSUME IInv, Talks, NEW m \in Nodes, Discover(m), NEW n \in Nodes
  PROVE  AnnouncerMove(n)
<1>1. /\ DOMAIN save = Procs /\ DOMAIN inbox = Procs /\ DOMAIN announcer = Nodes
      /\ n \in Procs /\ m \in Procs /\ n \notin Workers
  BY ProcsApart DEF IInv, Typed
<1>2. /\ announcer[m] \in Announcer
      /\ announcer[m].pc # "wait" => inbox[m] = NoReply
  BY AnnouncerFields, NoReplyYet DEF IInv, Talks
<1>3. \E a : announcer' = [announcer EXCEPT ![m] = a]
  BY DEF Discover, Announce, PassOver, AnnouncerReply, TaskDone, EndRound
<1>4. inbox' = inbox \/ inbox' = [inbox EXCEPT ![m] = NoReply]
  BY DEF Discover, Announce, PassOver, AnnouncerReply, TaskDone, EndRound
<1>5. save' = save \/ \E q \in Workers \cup {m} : \E s : save' = [save EXCEPT ![q] = s]
  <2>1. CASE Announce(m)
    BY <2>1 DEF Announce, FreeWorkers
  <2>2. CASE AnnouncerReply(m)
    BY <2>2 DEF AnnouncerReply
  <2> QED
    BY <2>1, <2>2 DEF Discover, PassOver, TaskDone, EndRound
<1>6. CASE n # m
  <2>1. announcer'[n] = announcer[n] /\ inbox'[n] = inbox[n] /\ save'[n] = save[n]
    BY <1>1, <1>3, <1>4, <1>5, <1>6
  <2> QED
    BY <2>1 DEF AnnouncerMove, AnnouncerStays
<1>7. CASE n = m
  <2> DEFINE a == announcer[n]
  <2>1. NoReply.kind = "none" /\ (a.pc # "wait" => inbox[n].kind = "none")
    BY <1>2, <1>7 DEF NoReply
  <2>2. /\ NextTask(a).pc = "next" /\ NextTask(a).done = a.done
        /\ \A pc : [a EXCEPT !.pc = pc].pc = pc /\ [a EXCEPT !.pc = pc].task = a.task
                   /\ [a EXCEPT !.pc = pc].done = a.done
    BY <1>2, <1>7 DEF NextTask, Announcer
  <2>3. CASE Announce(n)
    <3>1. PICK v \in Workers : \E s : save' = [save EXCEPT ![v] = s]
      BY <2>3 DEF Announce, FreeWorkers
    <3>2. /\ a.pc = "next" /\ announcer' = [announcer EXCEPT ![n] = [a EXCEPT !.pc = "wait"]]
          /\ inbox' = inbox
      BY <2>3 DEF Announce, Pending, AnnouncerAt
    <3>3. announcer'[n] = [a EXCEPT !.pc = "wait"]
      BY <1>1, <3>2
    <3>4. save'[n] = save[n]
      BY <1>1, <3>1
    <3> QED
      BY <2>1, <2>2, <3>2, <3>3, <3>4 DEF AnnouncerMove, AnnouncerGoes
  <2>4. CASE PassOver(n)
    <3>1. /\ a.pc = "next" /\ announcer' = [announcer EXCEPT ![n] = NextTask(a)]
          /\ inbox' = inbox /\ save' = save
      BY <2>4 DEF PassOver, AnnouncerAt
    <3>2. announcer'[n] = NextTask(a)
      BY <1>1, <3>1
    <3> QED
      BY <2>1, <2>2, <3>1, <3>2 DEF AnnouncerMove, AnnouncerGoes
  <2>5. CASE AnnouncerReply(n)
    <3>1. a.pc = "wait" /\ inbox[n].kind # "none" /\ inbox' = [inbox EXCEPT ![n] = NoReply]
      BY <2>5 DEF AnnouncerReply
    <3>2. inbox'[n].kind = "none"
      BY <1>1, <2>1, <3>1
    <3>3. CASE inbox[n].kind = "failed"
      <4>1. announcer' = [announcer EXCEPT ![n] = NextTask(a)] /\ save' = save
        BY <2>5, <3>3 DEF AnnouncerReply
      <4>2. announcer'[n] = NextTask(a)
        BY <1>1, <4>1
      <4> QED
        BY <2>2, <3>1, <3>2, <4>1, <4>2 DEF AnnouncerMove, AnnouncerGoes
    <3>4. CASE inbox[n].kind # "failed"
      <4>1. inbox[n].kind = "ok"
        BY <1>1, <3>1, <3>4 DEF IInv, Typed, ReplyOK
      <4>2. /\ announcer' = [announcer EXCEPT ![n] = [a EXCEPT !.pc = "learn"]]
            /\ save' = [save EXCEPT ![n] = SaveInto(n, inbox[n].routes)]
        BY <2>5, <3>4 DEF AnnouncerReply
      <4>3. announcer'[n] = [a EXCEPT !.pc = "learn"] /\ save'[n] = SaveInto(n, inbox[n].routes)
        BY <1>1, <4>2
      <4> QED
        BY <2>2, <3>1, <3>2, <4>1, <4>3 DEF AnnouncerMove, AnnouncerTakes
    <3> QED
      BY <3>3, <3>4
  <2>6. CASE TaskDone(n)
    <3>1. /\ a.pc = "learn" /\ Saved(n) /\ inbox' = inbox /\ save' = save
          /\ announcer' = [announcer EXCEPT ![n] =
                             [NextTask(a) EXCEPT !.done = NextTask(a).done \cup {a.task}]]
      BY <2>6 DEF TaskDone
    <3>2. announcer'[n] = [NextTask(a) EXCEPT !.done = NextTask(a).done \cup {a.task}]
      BY <1>1, <3>1
    <3>3. announcer'[n].pc = "next" /\ announcer'[n].done = a.done \cup {a.task}
      BY <1>2, <1>7, <3>2 DEF NextTask, Announcer
    <3> QED
      BY <2>1, <3>1, <3>3 DEF AnnouncerMove, AnnouncerLearnt
  <2>7. CASE EndRound(n)
    <3>1. a.pc = "next" /\ inbox' = inbox /\ save' = save
      BY <2>7 DEF EndRound, AnnouncerAt
    <3>2. announcer'[n].pc \in {"next", "ended"} /\ announcer'[n].done = a.done
      BY <1>1, <1>2, <1>7, <2>7 DEF EndRound, Announcer
    <3> QED
      BY <2>1, <3>1, <3>2 DEF AnnouncerMove, AnnouncerGoes
  <2> QED
    BY <1>7, <2>3, <2>4, <2>5, <2>6, <2>7 DEF Discover
<1> QED
  BY <1>6, <1>7

LEMMA NodeAnnouncers ==
  ASSUME IInv, Talks, AnnouncersPlaced, NEW m \in Nodes, NEW n \in Nodes,
         \/ Start(m) \/ Listen(m) \/ Stop(m)
         \/ \E p \in Principals : UserQuery(m, p)
  PROVE  AnnouncerMove(n)
<1>1. /\ DOMAIN save = Procs /\ DOMAIN inbox = Procs /\ DOMAIN announcer = Nodes
      /\ n \in Procs /\ m \in Procs /\ n \notin Workers
      /\ NoReply.kind = "none" /\ NoSave.phase = "idle"
  BY ProcsApart DEF IInv, Typed, NoReply, NoSave
<1>2. CASE Start(m)
  BY <1>2 DEF Start, AnnouncerMove, AnnouncerStays
<1>3. CASE Listen(m)
  <2>1. node[m] # "up" /\ UNCHANGED <<save, inbox>>
        /\ announcer' = [announcer EXCEPT ![m] =
             [Off EXCEPT !.pc = IF Seeds[m] = <<>> THEN "ended" ELSE "next"]]
    BY <1>3 DEF Listen
  <2>2. CASE n = m
    <3>1. announcer[n] = Off /\ inbox[n] = NoReply /\ save[n].phase = "idle"
      BY <2>1, <2>2 DEF Talks, Talk, OffWhenDown, RepliesLast, AnnouncersPlaced, Off
    <3>2. announcer'[n].pc \in {"next", "ended"} /\ announcer'[n].done = {}
      BY <1>1, <2>1, <2>2 DEF Off
    <3> QED
      BY <1>1, <2>1, <3>1, <3>2 DEF AnnouncerMove, AnnouncerResets
  <2>3. CASE n # m
    BY <1>1, <2>1, <2>3 DEF AnnouncerMove, AnnouncerStays
  <2> QED
    BY <2>2, <2>3
<1>4. CASE Stop(m)
  <2>1. /\ faults < MaxFaults
        /\ announcer' = [announcer EXCEPT ![m] = Off] /\ save' = [save EXCEPT ![m] = NoSave]
        /\ inbox' = [inbox EXCEPT ![m] = NoReply]
    BY <1>4 DEF Stop
  <2>2. CASE n = m
    BY <1>1, <2>1, <2>2 DEF AnnouncerMove, AnnouncerResets, Off
  <2>3. CASE n # m
    BY <1>1, <2>1, <2>3 DEF AnnouncerMove, AnnouncerStays
  <2> QED
    BY <2>2, <2>3
<1>5. ASSUME NEW p \in Principals, UserQuery(m, p) PROVE AnnouncerMove(n)
  <2>1. UNCHANGED <<announcer, inbox>>
        /\ \E v \in Workers : \E s : save' = [save EXCEPT ![v] = s]
    BY <1>5 DEF UserQuery, FreeWorkers
  <2> QED
    BY <1>1, <2>1 DEF AnnouncerMove, AnnouncerStays
<1> QED
  BY <1>2, <1>3, <1>4, <1>5

LEMMA NextAnnouncers ==
  ASSUME IInv, Talks, AnnouncersPlaced, [Next]_vars, NEW n \in Nodes
  PROVE  AnnouncerMove(n)
<1>1. CASE UNCHANGED vars
  BY <1>1 DEF vars, AnnouncerMove, AnnouncerStays
<1> QED
  BY <1>1, ChangeFileAnnouncers, HandleAnnouncers, DiscoverAnnouncers, NodeAnnouncers DEF Next

LEMMA NextAnnouncersPlaced ==
  ASSUME IInv, Talks, AnnouncersPlaced, [Next]_vars
  PROVE  AnnouncersPlaced'
<1> SUFFICES ASSUME NEW n \in Nodes, save'[n].phase # "idle"
             PROVE  announcer'[n].pc = "learn" /\ save'[n].at = n
  BY DEF AnnouncersPlaced
<1>1. save[n].phase # "idle" => announcer[n].pc = "learn" /\ save[n].at = n
  BY DEF AnnouncersPlaced
<1>2. CASE AnnouncerSaves(n)
  BY <1>1, <1>2, SaveFields, ProcsApart DEF AnnouncerSaves, ChangeFile, NoSave
<1>3. CASE AnnouncerStays(n) \/ AnnouncerGoes(n) \/ AnnouncerLearnt(n) \/ AnnouncerResets(n)
  BY <1>1, <1>3 DEF AnnouncerStays, AnnouncerGoes, AnnouncerLearnt, AnnouncerResets, Saved
<1>4. CASE AnnouncerTakes(n)
  BY <1>4 DEF AnnouncerTakes, SaveInto
<1> QED
  BY <1>2, <1>3, <1>4, NextAnnouncers DEF AnnouncerMove

-----------------------------------------------------------------------------
(* What was announced is kept unless files are changed at a time.          *)

(* Only a process that changes a file gets past reading it.                *)
LEMMA SavesMove ==
  ASSUME IInv, Talks, Placed, MaxFaults = 0, [Next]_vars, NEW p \in Procs
  PROVE  \/ ChangeFile(p)
         \/ save'[p] = save[p]
         \/ save[p].phase \in {"idle", "load"} /\ save'[p].phase \in {"idle", "load"}
<1>1. CASE p \in Workers
  <2>1. HandlerMove(p)
    BY <1>1, NextMoves DEF Placed
  <2>2. HandlerGoes(p) => save[p].phase = "idle"
    BY <1>1 DEF HandlerGoes, Placed, HandlersPlaced, Saved
  <2>3. CASE HandlerStays(p) \/ HandlerSaves(p) \/ HandlerEnds(p)
    BY <2>3 DEF HandlerStays, HandlerSaves, HandlerEnds
  <2>4. CASE HandlerStarts(p)
    BY <1>1, <2>4, StartFields DEF HandlerStarts
  <2>5. CASE HandlerGoes(p)
    BY <2>2, <2>5 DEF HandlerGoes, SaveInto
  <2> QED
    BY <2>1, <2>3, <2>4, <2>5 DEF HandlerMove
<1>2. CASE p \in Nodes
  <2>1. AnnouncerMove(p) /\ ~ faults < MaxFaults
    BY <1>2, NextAnnouncers DEF Placed, IInv, Typed
  <2>2. CASE AnnouncerTakes(p)
    BY <1>2, <2>2 DEF AnnouncerTakes, Placed, AnnouncersPlaced, SaveInto
  <2>3. CASE AnnouncerMove(p) /\ ~ AnnouncerTakes(p)
    BY <2>1, <2>3 DEF AnnouncerMove, AnnouncerStays, AnnouncerSaves, AnnouncerGoes,
                      AnnouncerLearnt, AnnouncerResets
  <2> QED
    BY <2>1, <2>2, <2>3
<1> QED
  BY <1>1, <1>2 DEF Procs

(* The file of a node that is up is only changed by a process at work.     *)
LEMMA FileMoves ==
  ASSUME IInv, [Next]_vars, NEW n \in Nodes, node[n] = "up"
  PROVE  \/ file'[n] = file[n]
         \/ \E p \in Procs : (Truncate(p) \/ Write(p)) /\ save[p].at = n
<1>1. ASSUME NEW p \in Procs, ChangeFile(p)
      PROVE  file'[n] = file[n] \/ ((Truncate(p) \/ Write(p)) /\ save[p].at = n)
  BY <1>1 DEF ChangeFile, Load, Truncate, Write, IInv, Typed
<1>2. ASSUME NEW w \in Workers, Handle(w) \/ Break(w) PROVE file' = file
  BY <1>2 DEF Handle, Respond, Lookup, Call, CallRefused, NoRoute, SeedReplies, SeedLearnt,
              TargetReplies, Break
<1>3. ASSUME NEW m \in Nodes, Discover(m) \/ Stop(m) \/ \E p \in Principals : UserQuery(m, p)
      PROVE  file' = file
  BY <1>3 DEF Discover, Announce, PassOver, AnnouncerReply, TaskDone, EndRound, UserQuery, Stop
<1>4. ASSUME NEW m \in Nodes, Start(m) \/ Listen(m) PROVE file'[n] = file[n]
  <2>1. m # n /\ DOMAIN file = Nodes
    BY <1>4 DEF Start, Listen, IInv, Typed
  <2>2. \E map : file' = [file EXCEPT ![m] = map]
    BY <1>4 DEF Start, Listen
  <2> QED
    BY <2>1, <2>2
<1>5. CASE UNCHANGED vars
  BY <1>5 DEF vars
<1> QED
  BY <1>1, <1>2, <1>3, <1>4, <1>5 DEF Next

LEMMA HeardMoves ==
  ASSUME IInv, [Next]_vars, NEW m \in Nodes, NEW n \in Nodes, <<m, n>> \in heard'
  PROVE  \/ <<m, n>> \in heard
         \/ \E p \in Workers : /\ Write(p) /\ conn[p].op = "announce"
                               /\ conn[p].client = m /\ conn[p].at = n
<1>1. ASSUME NEW p \in Procs, ChangeFile(p)
      PROVE  \/ <<m, n>> \in heard
             \/ /\ p \in Workers /\ Write(p) /\ conn[p].op = "announce"
                /\ conn[p].client = m /\ conn[p].at = n
  BY <1>1 DEF ChangeFile, Load, Truncate, Write, history
<1>2. ASSUME NEW w \in Workers, Handle(w) \/ Break(w) PROVE heard' = heard
  BY <1>2 DEF Handle, Respond, Lookup, Call, CallRefused, NoRoute, SeedReplies, SeedLearnt,
              TargetReplies, Break, history
<1>3. ASSUME NEW k \in Nodes,
             \/ Discover(k) \/ Stop(k) \/ Start(k) \/ Listen(k)
             \/ \E p \in Principals : UserQuery(k, p)
      PROVE  heard' \subseteq heard
  BY <1>3 DEF Discover, Announce, PassOver, AnnouncerReply, TaskDone, EndRound, UserQuery, Stop,
              Start, Listen, history
<1>4. CASE UNCHANGED vars
  BY <1>4 DEF vars
<1> QED
  BY <1>1, <1>2, <1>3, <1>4 DEF Next

(* A write loses nothing of what it writes, whatever remains of the file.  *)
LEMMA WrittenKeeps ==
  ASSUME NEW old, NEW new, NEW contents \in Written(old, new)
  PROVE  DOMAIN new \subseteq DOMAIN contents
<1>1. CASE contents = new
  BY <1>1
<1>2. ASSUME NEW kept, contents \in Overlaid(old, new, kept)
      PROVE  DOMAIN new \subseteq DOMAIN contents
  BY <1>2 DEF Overlaid, Merge
<1> QED
  BY <1>1, <1>2 DEF Written

LEMMA WriteKeeps ==
  ASSUME IInv, NEW p \in Procs, Write(p)
  PROVE  DOMAIN save[p].routes \subseteq DOMAIN file'[save[p].at]
<1>1. save[p].at \in Nodes
  BY SaveFields DEF ChangeFile
<1>2. PICK contents \in Written(file[save[p].at], save[p].routes) :
        file' = [file EXCEPT ![save[p].at] = contents]
  BY DEF Write
<1>3. file'[save[p].at] = contents
  BY <1>1, <1>2 DEF IInv, Typed
<1> QED
  BY <1>2, <1>3, WrittenKeeps

LEMMA NextHeardLive ==
  ASSUME IInv, HandlersPlaced, HandlersLive, HeardLive, MaxFaults = 0, [Next]_vars
  PROVE  HeardLive'
<1> SUFFICES ASSUME NEW m \in Nodes, NEW n \in Nodes, <<m, n>> \in heard'
             PROVE  node'[n] = "up"
  BY DEF HeardLive
<1>1. CASE <<m, n>> \in heard
  BY <1>1, StaysUp DEF HeardLive
<1>2. CASE \E p \in Workers : conn[p].op = "announce" /\ conn[p].at = n
  BY <1>2, StaysUp DEF HandlersPlaced, HandlersLive
<1> QED
  BY <1>1, <1>2, HeardMoves

(* No other process changes the file of n than p.                          *)
LEMMA OnlyWriter ==
  ASSUME IInv, NEW p \in Procs, ChangeFile(p), NEW n \in Nodes, save[p].at = n,
         ~ Racing, ~ Racing', NEW q \in Procs, q # p
  PROVE  /\ save'[q] = save[q]
         /\ ~ Load(p) => ~ Rewriting(q, n)
         /\ ~ Write(p) => ~ Rewriting(q, n)
<1>1. save'[q] = save[q]
  BY DEF ChangeFile, Load, Truncate, Write, IInv, Typed
<1>2. ~ Load(p) => save[p].phase \in {"truncate", "write"}
  BY SaveFields DEF ChangeFile
<1>3. ~ Write(p) => save'[p].at = n /\ save'[p].phase \in {"truncate", "write"}
  BY SaveFields DEF ChangeFile
<1> QED
  BY <1>1, <1>2, <1>3 DEF Racing, Rewriting

LEMMA NextHeardKept ==
  ASSUME IInv, Talks, Placed, Carries, HandlersLive, HeardLive, HeardKept, ~ Racing,
         MaxFaults = 0, [Next]_vars, ~ Racing'
  PROVE  HeardKept'
<1> SUFFICES ASSUME NEW m \in Nodes, NEW n \in Nodes, <<m, n>> \in heard'
             PROVE  Kept(m, n)'
  BY DEF HeardKept
<1>1. <<m, n>> \in heard => Kept(m, n) /\ node[n] = "up"
  BY DEF HeardKept, HeardLive
<1>2. ASSUME NEW p \in Procs, ChangeFile(p), save[p].at = n
      PROVE  Kept(m, n)'
  <2>1. ASSUME NEW q \in Procs, q # p
        PROVE  /\ save'[q] = save[q]
               /\ ~ Load(p) => ~ Rewriting(q, n)
               /\ ~ Write(p) => ~ Rewriting(q, n)
    BY <1>2, <2>1, OnlyWriter
  <2>2. CASE Load(p)
    <3>1. file' = file /\ heard' = heard
      BY <2>2 DEF Load, history
    <3>2. /\ save[p].phase = "load" /\ save'[p].phase = "truncate" /\ save'[p].at = n
          /\ DOMAIN file[n] \subseteq DOMAIN save'[p].routes
      BY <1>2, <2>2, SaveFields
    <3>3. \A q \in Procs : q # p => save'[q] = save[q] /\ ~ Rewriting(q, n)
      BY <2>1, <3>2 DEF Write
    <3>4. \A q \in Procs : ~ (save[q].at = n /\ save[q].phase = "write")
      BY <3>2, <3>3 DEF Rewriting
    <3>5. Hosts[m] \subseteq DOMAIN file[n]
      BY <1>1, <3>1, <3>4 DEF Kept
    <3>6. \A q \in Procs : Rewriting(q, n)' => q = p
      BY <3>3 DEF Rewriting
    <3> QED
      BY <3>1, <3>2, <3>5, <3>6 DEF Kept
  <2>3. CASE Truncate(p)
    <3>1. heard' = heard
      BY <2>3 DEF Truncate, history
    <3>2. /\ save[p].phase = "truncate" /\ save'[p].phase = "write" /\ save'[p].at = n
          /\ save'[p].routes = save[p].routes
      BY <1>2, <2>3, SaveFields
    <3>3. Hosts[m] \subseteq DOMAIN save'[p].routes
      BY <1>1, <1>2, <3>1, <3>2 DEF Kept, Rewriting
    <3>4. \A q \in Procs : q # p => save'[q] = save[q] /\ ~ Rewriting(q, n)
      BY <2>1, <3>2 DEF Write
    <3>5. \A q \in Procs : Rewriting(q, n)' => q = p
      BY <3>4 DEF Rewriting
    <3> QED
      BY <3>2, <3>3, <3>5 DEF Kept
  <2>4. CASE Write(p)
    <3>1. save[p].phase = "write" /\ save'[p].phase = "idle"
      BY <1>2, <2>4, SaveFields DEF NoSave
    <3>2. Hosts[m] \subseteq DOMAIN save[p].routes
      <4>1. CASE <<m, n>> \in heard
        BY <1>1, <1>2, <3>1, <4>1 DEF Kept, Rewriting
      <4>2. ASSUME NEW q \in Workers, Write(q), conn[q].op = "announce", conn[q].client = m
            PROVE  Hosts[m] \subseteq DOMAIN save[p].routes
        <5>1. q \in Procs /\ save[q].phase = "write" /\ save'[q].phase = "idle"
          BY <4>2, SaveFields, ProcsApart DEF NoSave, ChangeFile
        <5>2. q = p
          BY <2>1, <5>1
        <5> QED
          BY <4>2, <5>1, <5>2 DEF Carries
      <4> QED
        BY <4>1, <4>2, HeardMoves
    <3>3. Hosts[m] \subseteq DOMAIN file'[n]
      BY <1>2, <2>4, <3>2, WriteKeeps
    <3>4. Write(p) => ~ Load(p)
      BY <1>2, <3>1, SaveFields
    <3>5. \A q \in Procs : ~ Rewriting(q, n)'
      BY <2>1, <2>4, <3>1, <3>4 DEF Rewriting
    <3> QED
      BY <3>3, <3>5 DEF Kept
  <2> QED
    BY <1>2, <2>2, <2>3, <2>4 DEF ChangeFile
<1>3. CASE \A p \in Procs : ChangeFile(p) => save[p].at # n
  <2>1. <<m, n>> \in heard
    <3>1. ASSUME NEW q \in Workers, Write(q), conn[q].op = "announce", conn[q].at = n
          PROVE  FALSE
      BY <1>3, <3>1, SaveFields, ProcsApart DEF ChangeFile, Placed, HandlersPlaced
    <3> QED
      BY <3>1, HeardMoves
  <2>2. file'[n] = file[n]
    BY <1>1, <1>3, <2>1, FileMoves DEF ChangeFile
  <2>3. ASSUME NEW p \in Procs, save'[p].at = n, save'[p].phase \in {"truncate", "write"}
        PROVE  save'[p] = save[p]
    <3>1. ~ ChangeFile(p)
      BY <1>3, <2>3, SaveFields DEF ChangeFile, NoSave
    <3> QED
      BY <2>3, <3>1, SavesMove
  <2>4. ASSUME NEW p \in Procs, save[p].at = n, save[p].phase = "write"
        PROVE  save'[p] = save[p]
    BY <1>3, <2>4, SavesMove
  <2> QED
    BY <1>1, <2>1, <2>2, <2>3, <2>4 DEF Kept, Rewriting
<1> QED
  BY <1>2, <1>3

-----------------------------------------------------------------------------
(* Announcements stay unless processes of a node raced.                    *)

WInv == /\ IInv /\ Talks /\ Placed /\ Carries /\ HandlersLive /\ HeardLive
        /\ raced \/ (~ Racing /\ HeardKept)

LEMMA InitWInv ==
  ASSUME Init, raced = FALSE
  PROVE  WInv
<1>1. IInv /\ Talks
  BY InitIInv, InitTalks
<1>2. \A p \in Procs : save[p].phase = "idle"
  BY DEF Init, NoSave
<1>3. Placed /\ Carries /\ ~ Racing
  BY <1>2, ProcsApart DEF Init, Free, Placed, HandlersPlaced, AnnouncersPlaced, Carries, Racing
<1>4. HandlersLive /\ HeardLive /\ HeardKept
  BY DEF Init, Free, HandlersLive, HeardLive, HeardKept
<1> QED
  BY <1>1, <1>3, <1>4 DEF WInv

LEMMA NextWInv ==
  ASSUME MaxFaults = 0, WInv, [Next /\ raced' = (raced \/ Racing')]_<<vars, raced>>
  PROVE  WInv'
<1>1. [Next]_vars
  OBVIOUS
<1>2. IInv' /\ Talks' /\ Placed' /\ Carries' /\ HandlersLive' /\ HeardLive'
  BY <1>1, NextIInv, NextTalks, NextHandlersPlaced, NextAnnouncersPlaced, NextCarries,
     NextHandlersLive, NextHeardLive DEF WInv, Placed
<1>3. CASE raced'
  BY <1>2, <1>3 DEF WInv
<1>4. CASE ~ raced'
  <2>1. ~ raced /\ ~ Racing'
    <3>1. CASE raced' = (raced \/ Racing')
      BY <1>4, <3>1
    <3>2. CASE UNCHANGED <<vars, raced>>
      <4>1. ~ raced /\ ~ Racing
        BY <1>4, <3>2 DEF WInv
      <4>2. save' = save
        BY <3>2 DEF vars
      <4>3. ~ Racing'
        BY <4>1, <4>2 DEF Racing
      <4> QED
        BY <4>1, <4>3
    <3> QED
      BY <3>1, <3>2
  <2>2. HeardKept'
    BY <1>1, <2>1, NextHeardKept DEF WInv
  <2> QED
    BY <1>2, <2>1, <2>2 DEF WInv
<1> QED
  BY <1>3, <1>4

(* Where a task is, the announcement to the same seed is a task too.       *)
LEMMA AnnouncementTask ==
  ASSUME NEW n \in Nodes, NEW task \in Tasks(n)
  PROVE  \E first \in Tasks(n) : OpOf(first) = "announce" /\ SeedOf(n, first) = SeedOf(n, task)
<1> DEFINE i == (task + 1) \div 2
           first == 2 * i - 1
<1>1. Len(Seeds[n]) \in Nat /\ task \in 1..(2 * Len(Seeds[n]))
  BY RegistryAssumption DEF Tasks
<1>2. i \in 1..Len(Seeds[n])
  BY <1>1
<1> HIDE DEF i
<1>3. first \in Tasks(n) /\ (first + 1) \div 2 = i /\ first % 2 = 1
  BY <1>1, <1>2 DEF Tasks
<1> QED
  BY <1>3 DEF OpOf, SeedOf, i

(* distributed.c 349-465, docs/architecture.md 106-116: when nothing fails *)
(* and no two processes of a node ever changed its file at the same time,  *)
(* a seed that all nodes announced to knows who hosts what, in whatever    *)
(* order announcements, queries and replies were handled.                  *)
THEOREM UnracedRegistriesConverge ==
  ASSUME MaxFaults = 0
  PROVE  WatchedSpec => []ConvergesUnlessRaced
<1>1. WInv => ConvergesUnlessRaced
  <2> SUFFICES ASSUME WInv, ~ raced, Quiet, NEW n \in Nodes, NEW task \in Tasks(n)
               PROVE  Hosts[n] \subseteq DOMAIN Snapshot(SeedOf(n, task))
    BY DEF ConvergesUnlessRaced, RegistryConverges
  <2>1. PICK first \in Tasks(n) :
          OpOf(first) = "announce" /\ SeedOf(n, first) = SeedOf(n, task)
    BY AnnouncementTask
  <2>2. SeedOf(n, task) \in Nodes
    BY SeedIsNode
  <2>3. first \in announcer[n].done
    BY DEF Quiet
  <2>4. <<n, SeedOf(n, task)>> \in heard
    BY <2>1, <2>3 DEF WInv, Talks, Talk, DoneHeard, Heard
  <2>5. Kept(n, SeedOf(n, task))
    BY <2>2, <2>4 DEF WInv, HeardKept
  <2>6. Hosts[n] \subseteq DOMAIN file[SeedOf(n, task)]
    BY <2>5 DEF Kept, Quiet
  <2> QED
    BY <2>6 DEF Snapshot, Merge
<1>2. Init /\ raced = FALSE => WInv
  BY InitWInv
<1>3. WInv /\ [Next /\ raced' = (raced \/ Racing')]_<<vars, raced>> => WInv'
  BY NextWInv
<1> QED
  BY <1>1, <1>2, <1>3, PTL DEF WatchedSpec

-----------------------------------------------------------------------------
(* What a leaf learnt, its own announcer keeps.                            *)

(* Nobody else changes the file of a leaf.                                 *)
LEMMA LeafFile ==
  ASSUME IInv, Placed, OnlyDiscovery, [Next]_vars, NEW n \in Nodes, Leaf(n), node[n] = "up"
  PROVE  file'[n] = file[n] \/ Truncate(n) \/ Write(n)
<1>1. ASSUME NEW p \in Procs, Truncate(p) \/ Write(p), save[p].at = n PROVE p = n
  <2>1. save[p].phase # "idle"
    BY <1>1, SaveFields DEF ChangeFile
  <2>2. p \notin Workers
    BY <1>1, <2>1 DEF Placed, HandlersPlaced, OnlyDiscovery
  <2> QED
    BY <1>1, <2>1, <2>2 DEF Procs, Placed, AnnouncersPlaced
<1> QED
  BY <1>1, FileMoves

(* A snapshot of a node lists whom it hosts.                               *)
LEMMA RepliesTellHosts ==
  ASSUME NEW v
  PROVE  Hosts[conn[v].at] \subseteq DOMAIN ReplyOf(v).routes
<1>1. ReplyOf(v).routes = Snapshot(conn[v].at)
  BY DEF ReplyOf
<1> QED
  BY <1>1 DEF Snapshot, Added, LocalRoutes, Merge

LEMMA NextLeavesLearn ==
  ASSUME IInv, Talks, Placed, OnlyDiscovery, LeavesLearn, [Next]_vars
  PROVE  LeavesLearn'
<1> SUFFICES ASSUME NEW n \in Nodes, Leaf(n)
             PROVE  Learnt(n)'
  BY DEF LeavesLearn, Leaf
<1>1. RepliesTell(n) /\ LearningTells(n) /\ DoneStays(n)
  BY DEF LeavesLearn, Learnt
<1>2. /\ AnnouncerMove(n) /\ Talk(n) /\ NoReply.kind = "none" /\ n \in Procs
      /\ save[n].phase # "idle" => announcer[n].pc = "learn" /\ save[n].at = n
  BY NextAnnouncers, ProcsApart DEF Placed, AnnouncersPlaced, Talks, NoReply
<1>3. ASSUME announcer'[n].pc # "learn", announcer'[n].done = {}, inbox'[n].kind # "ok"
      PROVE  Learnt(n)'
  BY <1>3 DEF Learnt, RepliesTell, LearningTells, DoneStays
<1>4. CASE announcer[n] = Off
  <2>1. /\ announcer[n].pc = "off" /\ announcer[n].done = {} /\ inbox[n] = NoReply
        /\ \A v \in Workers : conn[v].client # n
    BY <1>2, <1>4, NoHandler, NoReplyYet DEF Off
  <2>2. CASE AnnouncerStays(n) \/ AnnouncerSaves(n)
    BY <1>2, <1>3, <2>1, <2>2 DEF AnnouncerStays, AnnouncerSaves, Failure, NoReply
  <2>3. CASE AnnouncerResets(n)
    BY <1>3, <2>3 DEF AnnouncerResets
  <2> QED
    BY <1>2, <2>1, <2>2, <2>3 DEF AnnouncerMove, AnnouncerGoes, AnnouncerTakes, AnnouncerLearnt
<1>5. CASE announcer[n] # Off
  <2>1. file'[n] = file[n] \/ Truncate(n) \/ Write(n)
    BY <1>2, <1>5, LeafFile DEF Talk, OffWhenDown
  <2>2. Truncate(n) \/ Write(n) => save[n].phase # "idle" /\ save'[n] # save[n]
    BY <1>2, SaveFields DEF ChangeFile, NoSave
  <2>3. CASE AnnouncerStays(n)
    <3>1. announcer'[n] = announcer[n] /\ save'[n] = save[n] /\ file'[n] = file[n]
      BY <2>1, <2>2, <2>3 DEF AnnouncerStays
    <3>2. LearningTells(n)' /\ DoneStays(n)'
      BY <1>1, <3>1 DEF LearningTells, DoneStays, SeedHosts, Task, SeedOf
    <3>3. RepliesTell(n)'
      <4>1. CASE inbox'[n] \in {inbox[n], Failure}
        BY <1>1, <3>1, <4>1 DEF RepliesTell, SeedHosts, Task, SeedOf, Failure, NoReply
      <4>2. ASSUME NEW v \in Workers, conn[v].client = n, inbox'[n] = ReplyOf(v)
            PROVE  RepliesTell(n)'
        <5>1. conn[v].at = SeedOf(n, Task(n))
          BY <1>2, <4>2 DEF Talk, HandlersSave
        <5>2. Task(n)' = Task(n)
          BY <3>1 DEF Task
        <5>3. Hosts[SeedOf(n, Task(n))] \subseteq DOMAIN inbox'[n].routes
          BY <4>2, <5>1, RepliesTellHosts
        <5> QED
          BY <5>2, <5>3 DEF RepliesTell, SeedHosts, SeedOf
      <4> QED
        BY <2>3, <4>1, <4>2 DEF AnnouncerStays
    <3> QED
      BY <3>2, <3>3 DEF Learnt
  <2>4. CASE AnnouncerSaves(n)
    <3>1. /\ announcer'[n] = announcer[n] /\ inbox'[n] = inbox[n] /\ Task(n)' = Task(n)
          /\ save[n].phase # "idle" /\ announcer[n].pc = "learn" /\ save[n].at = n
      BY <1>2, <2>4, SaveFields DEF AnnouncerSaves, Task
    <3>2. RepliesTell(n)'
      BY <1>1, <3>1 DEF RepliesTell, SeedHosts, SeedOf
    <3>3. SeedHosts(n, Task(n)) \subseteq DOMAIN save[n].routes
      BY <1>1, <3>1 DEF LearningTells
    <3>4. CASE Load(n)
      <4>1. /\ file'[n] = file[n] /\ save[n].phase = "load" /\ save'[n].phase = "truncate"
            /\ DOMAIN save'[n].routes = DOMAIN file[n] \cup DOMAIN save[n].routes
        BY <1>2, <3>1, <3>4, SaveFields DEF Load, ChangeFile
      <4>2. LearningTells(n)' /\ DoneStays(n)'
        BY <1>1, <3>1, <3>3, <4>1 DEF LearningTells, DoneStays, SeedHosts, SeedOf
      <4> QED
        BY <3>2, <4>2 DEF Learnt
    <3>5. CASE Truncate(n)
      <4>1. /\ save[n].phase = "truncate" /\ save'[n].phase = "write"
            /\ save'[n].routes = save[n].routes
        BY <1>2, <3>5, SaveFields DEF ChangeFile
      <4>2. LearningTells(n)' /\ DoneStays(n)'
        BY <1>1, <3>1, <3>3, <4>1 DEF LearningTells, DoneStays, SeedHosts, SeedOf
      <4> QED
        BY <3>2, <4>2 DEF Learnt
    <3>6. CASE Write(n)
      <4>1. save[n].phase = "write" /\ save'[n].phase = "idle"
        BY <1>2, <3>6, SaveFields DEF ChangeFile, NoSave
      <4>2. DOMAIN save[n].routes \subseteq DOMAIN file'[n]
        BY <1>2, <3>1, <3>6, WriteKeeps
      <4>3. LearningTells(n)' /\ DoneStays(n)'
        BY <1>1, <3>1, <3>3, <4>1, <4>2 DEF LearningTells, DoneStays, SeedHosts, SeedOf
      <4> QED
        BY <3>2, <4>3 DEF Learnt
    <3> QED
      BY <2>4, <3>4, <3>5, <3>6 DEF AnnouncerSaves, ChangeFile
  <2>5. CASE AnnouncerGoes(n)
    <3>1. file'[n] = file[n] /\ save'[n] = save[n] /\ save[n].phase = "idle"
      BY <1>2, <2>1, <2>2, <2>5 DEF AnnouncerGoes
    <3>2. /\ announcer'[n].pc # "learn" /\ announcer'[n].done = announcer[n].done
          /\ inbox'[n].kind # "ok"
      BY <2>5 DEF AnnouncerGoes
    <3> QED
      BY <1>1, <3>1, <3>2
         DEF Learnt, RepliesTell, LearningTells, DoneStays, SeedHosts, SeedOf
  <2>6. CASE AnnouncerTakes(n)
    <3>1. /\ announcer[n].pc = "wait" /\ inbox[n].kind = "ok" /\ inbox'[n].kind # "ok"
          /\ announcer'[n].done = announcer[n].done /\ Task(n)' = Task(n)
          /\ save'[n].phase = "load" /\ save'[n].routes = inbox[n].routes
      BY <2>6 DEF AnnouncerTakes, Task, SaveInto
    <3>2. file'[n] = file[n] /\ save[n].phase = "idle"
      BY <1>2, <2>1, <2>2, <3>1
    <3> QED
      BY <1>1, <3>1, <3>2
         DEF Learnt, RepliesTell, LearningTells, DoneStays, SeedHosts, SeedOf
  <2>7. CASE AnnouncerLearnt(n)
    <3>1. /\ announcer[n].pc = "learn" /\ save[n].phase = "idle" /\ save'[n] = save[n]
          /\ announcer'[n].pc # "learn" /\ inbox'[n].kind # "ok"
          /\ announcer'[n].done = announcer[n].done \cup {Task(n)}
      BY <2>7 DEF AnnouncerLearnt, Saved, Task
    <3>2. file'[n] = file[n]
      BY <2>1, <2>2, <3>1
    <3> QED
      BY <1>1, <3>1, <3>2
         DEF Learnt, RepliesTell, LearningTells, DoneStays, SeedHosts, SeedOf
  <2>8. CASE AnnouncerResets(n)
    BY <1>3, <2>8 DEF AnnouncerResets
  <2> QED
    BY <1>2, <2>3, <2>4, <2>5, <2>6, <2>7, <2>8 DEF AnnouncerMove
<1> QED
  BY <1>4, <1>5

(* distributed.c 1957-2102: where users ask nothing, what a leaf pulled    *)
(* from its seeds stays in its file, though others rewrite the files of    *)
(* the seeds at a time, nodes stop and start over and connections break.   *)
THEOREM LeavesKeepWhatTheyLearnt ==
  ASSUME MaxQueries = 0
  PROVE  Spec => []LeafLearnsSeeds
<1> DEFINE LInv == IInv /\ Talks /\ Placed /\ OnlyDiscovery /\ LeavesLearn
<1>1. LInv => LeafLearnsSeeds
  BY DEF LeavesLearn, Leaf, Learnt, DoneStays, SeedHosts, LeafLearnsSeeds
<1>2. Init => LInv
  <2>1. Init => Placed /\ OnlyDiscovery
    BY ProcsApart
       DEF Init, NoSave, Free, Placed, HandlersPlaced, AnnouncersPlaced, OnlyDiscovery
  <2>2. Init => LeavesLearn
    BY ProcsApart
       DEF Init, Off, NoReply, LeavesLearn, Learnt, RepliesTell, LearningTells, DoneStays
  <2> QED
    BY <2>1, <2>2, InitIInv, InitTalks
<1>3. LInv /\ [Next]_vars => LInv'
  <2> SUFFICES ASSUME LInv, [Next]_vars PROVE LInv'
    OBVIOUS
  <2>1. IInv' /\ Talks' /\ Placed'
    BY NextIInv, NextTalks, NextHandlersPlaced, NextAnnouncersPlaced DEF Placed
  <2>2. OnlyDiscovery' /\ LeavesLearn'
    BY NextOnlyDiscovery, NextLeavesLearn DEF Placed
  <2> QED
    BY <2>1, <2>2
<1> QED
  BY <1>1, <1>2, <1>3, PTL DEF Spec

-----------------------------------------------------------------------------
(* Why processes end: they wait for at most one other, which waits for     *)
(* nobody, and every step of theirs is one of a bounded number.            *)

Waiting(p) == IF p \in Workers THEN conn[p].pc = "wait" ELSE announcer[p].pc = "wait"
Answered(p) == inbox[p].kind # "none"

(* A process at work on a request that is only saved and answered.         *)
Serves(v, p) == conn[v].client = p /\ conn[v].pc = "ingest" /\ ~ IsUserQuery(v)

(* Whoever waits has its answer, or one at work on it alone.               *)
WaitsAreServed == \A p \in Procs : Waiting(p) => Answered(p) \/ \E v \in Workers : Serves(v, p)

Attended(p) == Answered(p) \/ \E v \in Workers : conn[v].client = p
Awaited == \A p \in Procs : Waiting(p) => Attended(p)

-----------------------------------------------------------------------------
(* Whoever waits is attended to.                                           *)

LEMMA AttendedKept ==
  ASSUME NEW p, Attended(p),
         \/ inbox'[p].kind # "none"
         \/ /\ inbox'[p] = inbox[p]
            /\ \A v \in Workers : conn[v].client = p => conn'[v].client = p
  PROVE  Attended(p)'
BY DEF Attended, Answered

(* Only a request that is saved and answered has a client.                 *)
LEMMA NobodysHandler ==
  ASSUME IInv, Talks, NEW w \in Workers, conn[w].pc # "ingest" \/ IsUserQuery(w)
  PROVE  conn[w].client \notin Procs
<1>1. conn[w].client \notin Workers
  BY NotAHandler DEF IInv
<1>2. conn[w].client \notin Nodes
  BY DEF Talks, Talk, HandlersSave, IsUserQuery, OpOf
<1> QED
  BY <1>1, <1>2 DEF Procs

(* A process without a client goes on, and not to wait.                    *)
LEMMA AwaitedAfterMove ==
  ASSUME IInv, Awaited, NEW w \in Workers, conn[w].client \notin Procs, NEW c, c.pc # "wait",
         conn' = [conn EXCEPT ![w] = c], announcer' = announcer,
         \A p \in Procs : p # w => inbox'[p] = inbox[p]
  PROVE  Awaited'
<1> SUFFICES ASSUME NEW p \in Procs, Waiting(p)' PROVE Attended(p)'
  BY DEF Awaited
<1>1. \A v \in Workers : conn'[v] = IF v = w THEN c ELSE conn[v]
  BY DEF IInv, Typed
<1>2. p # w /\ Waiting(p)
  BY <1>1 DEF Waiting
<1>3. \A v \in Workers : conn[v].client = p => conn'[v].client = p
  BY <1>1
<1> QED
  BY <1>2, <1>3, AttendedKept DEF Awaited

(* A process gets a handler of its own, and may wait from now on.          *)
LEMMA AwaitedAfterAccept ==
  ASSUME IInv, Awaited, NEW v \in Workers, conn[v].pc = "free", conn'[v].pc = "ingest",
         inbox' = inbox,
         \A w \in Workers : w # v => conn'[w].client = conn[w].client,
         \A p \in Procs : Waiting(p)' => Waiting(p) \/ conn'[v].client = p
  PROVE  Awaited'
<1> SUFFICES ASSUME NEW p \in Procs, Waiting(p)' PROVE Attended(p)'
  BY DEF Awaited
<1>1. CASE conn'[v].client = p
  BY <1>1 DEF Attended
<1>2. CASE Waiting(p)
  <2>1. conn[v].client # p
    BY RegistryAssumption DEF IInv, Linked, FreeUnlinked
  <2> QED
    BY <1>2, <2>1, AttendedKept DEF Awaited
<1> QED
  BY <1>1, <1>2

LEMMA HandleAwaited ==
  ASSUME IInv, Talks, Awaited, NEW w \in Workers, Handle(w)
  PROVE  Awaited'
<1>1. /\ conn[w] \in Conn /\ DOMAIN conn = Workers /\ DOMAIN inbox = Procs
      /\ \A v \in Workers : conn[v] \in Conn
  BY ConnFields DEF IInv, Typed
<1>2. Free.pc = "free" /\ Free.client = None /\ NextSeed(conn[w]).pc = "seeds"
  BY Constructors, ConnFields
<1>3. CASE Respond(w)
  <2>1. /\ conn[w].pc = "ingest" /\ conn' = [conn EXCEPT ![w] = Free] /\ UNCHANGED announcer
        /\ inbox' = IF conn[w].client = None THEN inbox
                    ELSE [inbox EXCEPT ![conn[w].client] = ReplyOf(w)]
    BY <1>3 DEF Respond
  <2>2. ReplyOf(w).kind = "ok"
    BY DEF ReplyOf
  <2> SUFFICES ASSUME NEW p \in Procs, Waiting(p)' PROVE Attended(p)'
    BY DEF Awaited
  <2>3. \A v \in Workers : conn'[v] = IF v = w THEN Free ELSE conn[v]
    BY <1>1, <2>1
  <2>4. Waiting(p)
    BY <1>2, <2>1, <2>3 DEF Waiting
  <2>5. CASE conn[w].client = p
    <3>1. inbox'[p] = ReplyOf(w)
      BY <1>1, <2>1, <2>5, ProcsApart
    <3> QED
      BY <2>2, <3>1 DEF Attended, Answered
  <2>6. CASE conn[w].client # p
    <3>1. inbox'[p] = inbox[p]
      BY <1>1, <2>1, <2>6
    <3>2. \A v \in Workers : conn[v].client = p => conn'[v].client = p
      BY <2>3, <2>6
    <3> QED
      BY <2>4, <3>1, <3>2, AttendedKept DEF Awaited
  <2> QED
    BY <2>5, <2>6
<1>4. CASE NoRoute(w) \/ TargetReplies(w)
  <2>1. /\ conn[w].pc # "ingest" /\ conn' = [conn EXCEPT ![w] = Free] /\ UNCHANGED announcer
        /\ inbox' = inbox \/ inbox' = [inbox EXCEPT ![w] = NoReply]
    BY <1>4 DEF NoRoute, TargetReplies
  <2> QED
    BY <1>1, <1>2, <2>1, NobodysHandler, AwaitedAfterMove
<1>5. CASE CallRefused(w)
  <2>1. conn[w].pc # "ingest" /\ UNCHANGED <<announcer, inbox>>
    BY <1>5 DEF CallRefused, Asks
  <2>2. PICK d \in {Free, NextSeed(conn[w])} : conn' = [conn EXCEPT ![w] = d]
    BY <1>5 DEF CallRefused
  <2> QED
    BY <1>2, <2>1, <2>2, NobodysHandler, AwaitedAfterMove
<1>6. CASE Lookup(w)
  <2> DEFINE known == Known(conn[w].at, conn[w].wants)
             pc == IF known = None THEN "seeds" ELSE "ask"
             c == [conn[w] EXCEPT !.pc = pc, !.target = known]
  <2>1. conn' = [conn EXCEPT ![w] = c] /\ UNCHANGED <<announcer, inbox>> /\ IsUserQuery(w)
    BY <1>6 DEF Lookup
  <2>2. c.pc = pc /\ pc # "wait"
    BY ConnFields
  <2> HIDE DEF c, pc
  <2> QED
    BY <2>1, <2>2, NobodysHandler, AwaitedAfterMove
<1>7. CASE SeedReplies(w)
  <2> DEFINE c == [conn[w] EXCEPT !.pc = "learn", !.target = inbox[w].found]
  <2>1. conn[w].pc = "wait" /\ UNCHANGED announcer /\ inbox' = [inbox EXCEPT ![w] = NoReply]
    BY <1>7 DEF SeedReplies
  <2>2. PICK d \in {c, NextSeed(conn[w])} : conn' = [conn EXCEPT ![w] = d]
    BY <1>7 DEF SeedReplies
  <2>3. c.pc = "learn"
    BY ConnFields
  <2> HIDE DEF c
  <2>4. d.pc # "wait" /\ \A p \in Procs : p # w => inbox'[p] = inbox[p]
    BY <1>1, <1>2, <2>1, <2>2, <2>3
  <2> QED
    BY <2>1, <2>2, <2>4, NobodysHandler, AwaitedAfterMove
<1>8. CASE SeedLearnt(w)
  <2> DEFINE c == [conn[w] EXCEPT !.pc = "ask"]
  <2>1. conn[w].pc = "learn" /\ UNCHANGED <<announcer, inbox>>
    BY <1>8 DEF SeedLearnt
  <2>2. PICK d \in {c, NextSeed(conn[w])} : conn' = [conn EXCEPT ![w] = d]
    BY <1>8 DEF SeedLearnt
  <2>3. c.pc = "ask"
    BY ConnFields
  <2> HIDE DEF c
  <2>4. d.pc # "wait"
    BY <1>2, <2>2, <2>3
  <2> QED
    BY <2>1, <2>2, <2>4, NobodysHandler, AwaitedAfterMove
<1>9. CASE Call(w)
  <2> DEFINE handler == Handler(Callee(w), CallOp(w), w, CallFor(w))
             waiting == [conn[w] EXCEPT !.pc = "wait"]
  <2>1. PICK v \in FreeWorkers : conn' = [conn EXCEPT ![w].pc = "wait", ![v] = handler]
    BY <1>9 DEF Call
  <2>2. /\ v \in Workers /\ conn[v].pc = "free" /\ v # w /\ inbox' = inbox /\ announcer' = announcer
    BY <1>9 DEF FreeWorkers, Call, Asks
  <2>3. handler.pc = "ingest" /\ handler.client = w
    BY <1>1 DEF Handler, Free
  <2>4. waiting.client = conn[w].client
    BY <1>1 DEF Conn
  <2>5. /\ conn'[v] = handler /\ conn'[w] = waiting
        /\ \A x \in Workers : x \notin {w, v} => conn'[x] = conn[x]
    <3> HIDE DEF handler
    <3> QED
      BY <1>1, <2>1, <2>2
  <2> HIDE DEF handler, waiting
  <2>6. \A x \in Workers : x # v => conn'[x].client = conn[x].client
    BY <2>4, <2>5
  <2>7. \A p \in Procs : Waiting(p)' => Waiting(p) \/ conn'[v].client = p
    BY <2>2, <2>3, <2>5 DEF Waiting
  <2> QED
    BY <2>2, <2>3, <2>5, <2>6, <2>7, AwaitedAfterAccept
<1> QED
  BY <1>3, <1>4, <1>5, <1>6, <1>7, <1>8, <1>9 DEF Handle

LEMMA DiscoverAwaited ==
  ASSUME IInv, Talks, Awaited, NEW n \in Nodes, Discover(n)
  PROVE  Awaited'
<1>1. /\ announcer[n] \in Announcer /\ DOMAIN announcer = Nodes /\ DOMAIN conn = Workers
      /\ DOMAIN inbox = Procs /\ n \notin Workers
  BY AnnouncerFields, ProcsApart DEF IInv, Typed
<1>2. CASE Announce(n)
  <2>1. PICK task \in Tasks(n), v \in FreeWorkers :
          /\ conn' = [conn EXCEPT ![v] = Handler(SeedOf(n, task), OpOf(task), n, None)]
          /\ announcer' = [announcer EXCEPT ![n].pc = "wait"] /\ inbox' = inbox
    BY <1>2 DEF Announce
  <2> DEFINE handler == Handler(SeedOf(n, task), OpOf(task), n, None)
  <2>2. v \in Workers /\ conn[v].pc = "free" /\ handler.pc = "ingest" /\ handler.client = n
    BY DEF FreeWorkers, Handler, Free
  <2> HIDE DEF handler
  <2>3. conn'[v] = handler /\ \A w \in Workers : w # v => conn'[w] = conn[w]
    BY <1>1, <2>1, <2>2 DEF handler
  <2>4. \A m \in Nodes : m # n => announcer'[m] = announcer[m]
    BY <1>1, <2>1
  <2>5. \A p \in Procs : Waiting(p)' => Waiting(p) \/ p = n
    BY <2>2, <2>3, <2>4 DEF Waiting, Procs
  <2> QED
    BY <2>1, <2>2, <2>3, <2>5, AwaitedAfterAccept
<1>3. CASE ~ Announce(n)
  <2>1. PICK a : announcer' = [announcer EXCEPT ![n] = a] /\ a.pc # "wait"
    <3>1. NextTask(announcer[n]).pc = "next"
      BY <1>1 DEF NextTask, Announcer
    <3>2. CASE PassOver(n)
      BY <3>1, <3>2 DEF PassOver
    <3>3. CASE AnnouncerReply(n)
      <4> DEFINE b == [announcer[n] EXCEPT !.pc = "learn"]
      <4>1. b.pc = "learn"
        BY <1>1 DEF Announcer
      <4>2. announcer' = [announcer EXCEPT ![n] = NextTask(announcer[n])]
              \/ announcer' = [announcer EXCEPT ![n] = b]
        BY <3>3 DEF AnnouncerReply
      <4> HIDE DEF b
      <4> QED
        BY <3>1, <4>1, <4>2
    <3>4. CASE TaskDone(n)
      <4> DEFINE b == [NextTask(announcer[n]) EXCEPT !.done = NextTask(announcer[n]).done \cup {announcer[n].task}]
      <4>1. b.pc = "next"
        BY <1>1 DEF NextTask, Announcer
      <4>2. announcer' = [announcer EXCEPT ![n] = b]
        BY <3>4 DEF TaskDone
      <4> HIDE DEF b
      <4> QED
        BY <4>1, <4>2
    <3>5. CASE EndRound(n)
      <4> DEFINE b == [announcer[n] EXCEPT !.pc = "ended"]
                 d == [announcer[n] EXCEPT !.pc = IF MoreRounds(n) THEN "next" ELSE "ended",
                                           !.task = 1, !.attempts = Rounds(n)]
      <4>1. b.pc # "wait" /\ d.pc # "wait"
        BY <1>1 DEF Announcer
      <4>2. announcer' = [announcer EXCEPT ![n] = b] \/ announcer' = [announcer EXCEPT ![n] = d]
        BY <3>5 DEF EndRound
      <4> HIDE DEF b, d
      <4> QED
        BY <4>1, <4>2
    <3> QED
      BY <1>3, <3>2, <3>3, <3>4, <3>5 DEF Discover
  <2>2. conn' = conn /\ (inbox' = inbox \/ inbox' = [inbox EXCEPT ![n] = NoReply])
    BY <1>3 DEF Discover, PassOver, AnnouncerReply, TaskDone, EndRound
  <2> SUFFICES ASSUME NEW p \in Procs, Waiting(p)' PROVE Attended(p)'
    BY DEF Awaited
  <2>3. p # n /\ Waiting(p) /\ inbox'[p] = inbox[p]
    BY <1>1, <2>1, <2>2 DEF Waiting, Procs
  <2> QED
    BY <2>2, <2>3, AttendedKept DEF Awaited
<1> QED
  BY <1>2, <1>3

LEMMA NodesAwaited ==
  ASSUME IInv, Talks, Awaited, NEW n \in Nodes,
         Start(n) \/ Listen(n) \/ Stop(n) \/ \E q \in Principals : UserQuery(n, q)
  PROVE  Awaited'
<1>1. /\ DOMAIN announcer = Nodes /\ DOMAIN conn = Workers /\ DOMAIN inbox = Procs
      /\ n \notin Workers /\ \A v \in Workers : conn[v] \in Conn
      /\ Off.pc = "off"
  BY ProcsApart, ConnFields DEF IInv, Typed, Off
<1>2. ASSUME conn' = conn, inbox' = inbox, NEW a, a.pc # "wait",
             announcer' = announcer \/ announcer' = [announcer EXCEPT ![n] = a]
      PROVE  Awaited'
  <2> SUFFICES ASSUME NEW p \in Procs, Waiting(p)' PROVE Attended(p)'
    BY DEF Awaited
  <2>1. Waiting(p)
    BY <1>1, <1>2 DEF Waiting, Procs
  <2> QED
    BY <1>2, <2>1, AttendedKept DEF Awaited
<1>3. CASE Start(n) \/ Listen(n)
  <2> DEFINE a == [Off EXCEPT !.pc = IF Seeds[n] = <<>> THEN "ended" ELSE "next"]
  <2>1. a.pc # "wait"
    BY DEF Off
  <2>2. /\ conn' = conn /\ inbox' = inbox
        /\ announcer' = announcer \/ announcer' = [announcer EXCEPT ![n] = a]
    BY <1>3 DEF Start, Listen
  <2> HIDE DEF a
  <2> QED
    BY <1>2, <2>1, <2>2
<1>4. CASE Stop(n)
  <2>1. /\ announcer' = [announcer EXCEPT ![n] = Off] /\ inbox' = [inbox EXCEPT ![n] = NoReply]
        /\ conn' = [v \in Workers |-> IF conn[v].client = n THEN [conn[v] EXCEPT !.client = None]
                                      ELSE conn[v]]
    BY <1>4 DEF Stop
  <2> SUFFICES ASSUME NEW p \in Procs, Waiting(p)' PROVE Attended(p)'
    BY DEF Awaited
  <2>2. \A v \in Workers : conn'[v].pc = conn[v].pc
    BY <1>1, <2>1 DEF Conn
  <2>3. p # n /\ Waiting(p)
    BY <1>1, <2>1, <2>2 DEF Waiting, Procs
  <2>4. inbox'[p] = inbox[p] /\ \A v \in Workers : conn[v].client = p => conn'[v].client = p
    BY <1>1, <2>1, <2>3
  <2> QED
    BY <2>3, <2>4, AttendedKept DEF Awaited
<1>5. ASSUME NEW q \in Principals, UserQuery(n, q) PROVE Awaited'
  <2>1. PICK v \in FreeWorkers : conn' = [conn EXCEPT ![v] = Handler(n, "query", None, q)]
    BY <1>5 DEF UserQuery
  <2> DEFINE handler == Handler(n, "query", None, q)
  <2>2. v \in Workers /\ conn[v].pc = "free" /\ handler.pc = "ingest"
    BY DEF FreeWorkers, Handler, Free
  <2> HIDE DEF handler
  <2>3. conn'[v] = handler /\ \A x \in Workers : x # v => conn'[x] = conn[x]
    BY <1>1, <2>1, <2>2 DEF handler
  <2>4. inbox' = inbox /\ announcer' = announcer
    BY <1>5 DEF UserQuery
  <2>5. \A p \in Procs : Waiting(p)' => Waiting(p) \/ conn'[v].client = p
    BY <2>2, <2>3, <2>4 DEF Waiting
  <2> QED
    BY <2>2, <2>3, <2>4, <2>5, AwaitedAfterAccept
<1> QED
  BY <1>3, <1>4, <1>5

LEMMA BreakAwaited ==
  ASSUME IInv, Talks, Awaited, NEW w \in Workers, Break(w)
  PROVE  Awaited'
<1>0. /\ DOMAIN announcer = Nodes /\ DOMAIN conn = Workers /\ DOMAIN inbox = Procs
      /\ \A v \in Workers : conn[v] \in Conn
  BY ConnFields DEF IInv, Typed
<1>1. announcer' = announcer /\ inbox' = [inbox EXCEPT ![conn[w].client] = Failure]
  BY DEF Break
<1>2. /\ \A v \in Workers : v # w => conn'[v] = conn[v]
      /\ conn'[w].pc = "wait" => conn[w].pc = "wait"
  BY <1>0, Constructors DEF Break, Conn
<1> SUFFICES ASSUME NEW p \in Procs, Waiting(p)' PROVE Attended(p)'
  BY DEF Awaited
<1>3. Waiting(p)
  BY <1>1, <1>2 DEF Waiting
<1>4. CASE conn[w].client = p
  BY <1>0, <1>1, <1>4 DEF Attended, Answered, Failure, NoReply
<1>5. CASE conn[w].client # p
  <2>1. inbox'[p] = inbox[p] /\ \A v \in Workers : conn[v].client = p => conn'[v].client = p
    BY <1>0, <1>1, <1>2, <1>5
  <2> QED
    BY <1>3, <2>1, AttendedKept DEF Awaited
<1> QED
  BY <1>4, <1>5

LEMMA NextAwaited ==
  ASSUME IInv, Talks, Awaited, [Next]_vars
  PROVE  Awaited'
<1>1. ASSUME conn' = conn, inbox' = inbox, announcer' = announcer PROVE Awaited'
  BY <1>1 DEF Awaited, Waiting, Attended, Answered
<1>2. CASE \E p \in Procs : ChangeFile(p)
  BY <1>1, <1>2 DEF ChangeFile, Load, Truncate, Write
<1>3. CASE \E w \in Workers : Handle(w) \/ Break(w)
  BY <1>3, HandleAwaited, BreakAwaited
<1>4. CASE \E n \in Nodes : Discover(n)
  BY <1>4, DiscoverAwaited
<1>5. CASE \E n \in Nodes : Start(n) \/ Listen(n) \/ Stop(n)
                            \/ \E q \in Principals : UserQuery(n, q)
  BY <1>5, NodesAwaited
<1>6. CASE UNCHANGED vars
  BY <1>1, <1>6 DEF vars
<1> QED
  BY <1>2, <1>3, <1>4, <1>5, <1>6 DEF Next

LEMMA InitAwaited == Init => Awaited
BY ProcsApart DEF Init, Awaited, Waiting, Procs, Off, Free

(* distributed.c 1414-1462, 2055-2102: a process waits without a timeout,  *)
(* but never for one that waits, nor in a circle: while it has no reply, a *)
(* process is at work on its request that will only save and respond.      *)
THEOREM WaitersAreServed == Spec => []WaitsAreServed
<1>1. ASSUME IInv, Talks, Awaited PROVE WaitsAreServed
  <2> SUFFICES ASSUME NEW p \in Procs, Waiting(p), ~ Answered(p)
               PROVE  \E v \in Workers : Serves(v, p)
    BY DEF WaitsAreServed
  <2>1. PICK v \in Workers : conn[v].client = p
    BY <1>1 DEF Awaited, Attended
  <2>2. conn[v].pc = "ingest" /\ ~ IsUserQuery(v)
    BY <1>1, <2>1, NobodysHandler
  <2> QED
    BY <2>1, <2>2 DEF Serves
<1>2. IInv /\ Talks /\ Awaited => WaitsAreServed
  BY <1>1
<1> QED
  BY <1>2, InitIInv, InitTalks, InitAwaited, NextIInv, NextTalks, NextAwaited, PTL DEF Spec

-----------------------------------------------------------------------------
(* Processes that handle connections run down.                             *)

(* Steps left to a process that handles a connection, by the seeds it has  *)
(* not tried, and to a change of a file.                                   *)
SaveLeft(s) ==
  IF s.phase = "load" THEN 3 ELSE IF s.phase = "truncate" THEN 2
  ELSE IF s.phase = "write" THEN 1 ELSE 0
Level(c) ==
  IF c.pc = "ingest" THEN 9 ELSE IF c.pc = "seeds" THEN 8
  ELSE IF c.pc = "wait" /\ c.target = None THEN 7
  ELSE IF c.pc = "learn" THEN 3 ELSE IF c.pc = "ask" THEN 2 ELSE 1
SeedsLeft(c) == Len(Seeds[c.at]) + 1 - c.index
ConnLeft(c) == IF c.pc = "free" THEN 0 ELSE 6 * SeedsLeft(c) + Level(c)
HandlerLeft(w) == ConnLeft(conn[w]) + SaveLeft(save[w])

(* The seed tried is one of the node's.                                    *)
Trying(c) == c.pc = "learn" \/ (c.pc = "wait" /\ c.target = None)
IndexOK(c) == c.pc # "free" => SeedsLeft(c) >= 0 /\ (Trying(c) => SeedsLeft(c) >= 1)
IndexesOK == \A w \in Workers : IndexOK(conn[w])

HandlerDescends(w) ==
  conn[w].pc # "free" =>
    /\ HandlerLeft(w)' <= HandlerLeft(w)
    /\ Handle(w) \/ ChangeFile(w) => HandlerLeft(w)' < HandlerLeft(w)

(* Only a free process is given a connection: one at work goes on by       *)
(* itself, loses its client, or ends with its connection.                  *)
LEMMA BusyKept ==
  ASSUME IInv, HandlersPlaced, [Next]_vars, NEW w \in Workers, conn[w].pc # "free", ~ Handle(w)
  PROVE  HandlerStays(w) \/ HandlerSaves(w) \/ HandlerEnds(w)
<1>1. /\ DOMAIN conn = Workers /\ DOMAIN save = Procs /\ w \in Procs /\ w \notin Nodes
  BY ProcsApart DEF IInv, Typed
<1>2. ASSUME NEW v \in FreeWorkers, NEW c, conn' = [conn EXCEPT ![v] = c],
             NEW s, save' = [save EXCEPT ![v] = s]
      PROVE  HandlerStays(w)
  BY <1>1, <1>2 DEF FreeWorkers, HandlerStays
<1>3. CASE UNCHANGED vars
  BY <1>3 DEF vars, HandlerStays
<1>4. ASSUME NEW p \in Procs, ChangeFile(p) PROVE HandlerStays(w) \/ HandlerSaves(w)
  <2>1. conn' = conn /\ \A q \in Procs : q # p => save'[q] = save[q]
    BY <1>1, <1>4 DEF ChangeFile, Load, Truncate, Write
  <2> QED
    BY <1>1, <1>4, <2>1 DEF HandlerStays, HandlerSaves
<1>5. ASSUME NEW u \in Workers, Handle(u) PROVE HandlerStays(w)
  <2>1. u # w
    BY <1>5
  <2>2. CASE Call(u)
    <3> DEFINE h == Handler(Callee(u), CallOp(u), u, CallFor(u))
               s == SaveInto(Callee(u), Ingested(Callee(u), conn[u].at, CallOp(u)))
    <3>1. PICK v \in FreeWorkers : /\ conn' = [conn EXCEPT ![u].pc = "wait", ![v] = h]
                                   /\ save' = [save EXCEPT ![v] = s]
      BY <2>2 DEF Call
    <3> HIDE DEF h, s
    <3> QED
      BY <1>1, <2>1, <3>1 DEF FreeWorkers, HandlerStays
  <2>3. CASE ~ Call(u)
    <3>1. \A v \in Workers : v # u => conn'[v] = conn[v]
      BY <1>1, <1>5, <2>3 DEF Handle, Respond, Lookup, CallRefused, NoRoute, SeedReplies,
         SeedLearnt, TargetReplies
    <3>2. save' = save \/ \E s : save' = [save EXCEPT ![u] = s]
      BY <1>5, <2>3 DEF Handle, Respond, Lookup, CallRefused, NoRoute, SeedReplies,
         SeedLearnt, TargetReplies
    <3> QED
      BY <1>1, <2>1, <3>1, <3>2 DEF HandlerStays
  <2> QED
    BY <2>2, <2>3
<1>6. ASSUME NEW u \in Workers, Break(u) PROVE HandlerStays(w) \/ HandlerEnds(w)
  <2>1. CASE conn' = [conn EXCEPT ![u].client = None] /\ UNCHANGED save
    BY <1>1, <2>1 DEF HandlerStays
  <2>2. CASE /\ save[u].phase = "load" /\ conn' = [conn EXCEPT ![u] = Free]
             /\ save' = [save EXCEPT ![u] = NoSave]
    BY <1>1, <2>2 DEF HandlerStays, HandlerEnds, NoSave
  <2> QED
    BY <1>6, <2>1, <2>2 DEF Break
<1>7. ASSUME NEW n \in Nodes, Discover(n) PROVE HandlerStays(w)
  <2>1. CASE Announce(n)
    BY <1>2, <2>1 DEF Announce
  <2>2. CASE PassOver(n) \/ AnnouncerReply(n) \/ TaskDone(n) \/ EndRound(n)
    <3>1. conn' = conn /\ (save' = save \/ \E s : save' = [save EXCEPT ![n] = s])
      BY <2>2 DEF PassOver, AnnouncerReply, TaskDone, EndRound
    <3> QED
      BY <1>1, <3>1 DEF HandlerStays
  <2> QED
    BY <1>7, <2>1, <2>2 DEF Discover
<1>8. ASSUME NEW n \in Nodes, Start(n) \/ Listen(n) \/ Stop(n) PROVE HandlerStays(w)
  BY <1>1, <1>8 DEF Start, Listen, Stop, HandlerStays
<1>9. ASSUME NEW n \in Nodes, NEW q \in Principals, UserQuery(n, q) PROVE HandlerStays(w)
  BY <1>2, <1>9 DEF UserQuery
<1> QED
  BY <1>3, <1>4, <1>5, <1>6, <1>7, <1>8, <1>9 DEF Next

(* What a change of a file has left, and what it counts as.                *)
LEMMA SaveLeftTypes ==
  ASSUME IInv, NEW p \in Procs
  PROVE  /\ SaveLeft(save[p]) \in 0..3 /\ (Saved(p) => SaveLeft(save[p]) = 0)
         /\ ChangeFile(p) => SaveLeft(save'[p]) < SaveLeft(save[p])
<1>1. SaveLeft(save[p]) \in 0..3 /\ (Saved(p) => SaveLeft(save[p]) = 0)
  BY DEF SaveLeft, Saved
<1>2. ASSUME ChangeFile(p) PROVE SaveLeft(save'[p]) < SaveLeft(save[p])
  BY <1>2, SaveFields DEF ChangeFile, SaveLeft, NoSave
<1> QED
  BY <1>1, <1>2

(* The steps left to a process depend on its record.                       *)
LEMMA ConnLeftTypes ==
  ASSUME NEW c \in Conn, c.pc # "free" => c.at \in Nodes, IndexOK(c)
  PROVE  /\ c.pc = "free" => ConnLeft(c) = 0
         /\ c.pc # "free" => /\ SeedsLeft(c) \in 0..Len(Seeds[c.at])
                             /\ ConnLeft(c) \in 1..(6 * Len(Seeds[c.at]) + 9)
<1>1. c.index \in Nat /\ c.index >= 1
  BY DEF Conn
<1>2. CASE c.pc = "free"
  BY <1>2 DEF ConnLeft
<1>3. CASE c.pc # "free"
  <2>1. Len(Seeds[c.at]) \in Nat
    BY <1>3, RegistryAssumption
  <2>2. SeedsLeft(c) = Len(Seeds[c.at]) + 1 - c.index /\ SeedsLeft(c) >= 0
    BY <1>3 DEF SeedsLeft, IndexOK
  <2>3. Level(c) \in 1..9
    BY DEF Level
  <2>4. ConnLeft(c) = 6 * SeedsLeft(c) + Level(c)
    BY <1>3 DEF ConnLeft
  <2>5. \A len, i \in Nat, level \in 1..9 : i >= 1 /\ len + 1 - i >= 0 =>
          len + 1 - i \in 0..len /\ 6 * (len + 1 - i) + level \in 1..(6 * len + 9)
    OBVIOUS
  <2>6. /\ SeedsLeft(c) \in 0..Len(Seeds[c.at])
        /\ 6 * SeedsLeft(c) + Level(c) \in 1..(6 * Len(Seeds[c.at]) + 9)
    BY <1>1, <2>1, <2>2, <2>3, <2>5
  <2> QED
    BY <1>3, <2>4, <2>6
<1> QED
  BY <1>2, <1>3

(* A process that stays at its seed.                                       *)
LEMMA SameSeedDescends ==
  ASSUME NEW c \in Conn, c.at \in Nodes, c.pc # "free", IndexOK(c),
         NEW d, d.pc # "free", d.at = c.at, d.index = c.index,
         Trying(d) => SeedsLeft(c) >= 1,
         NEW n \in Nat, Level(d) + n < Level(c)
  PROVE  IndexOK(d) /\ ConnLeft(d) \in Nat /\ ConnLeft(d) + n < ConnLeft(c)
<1>1. SeedsLeft(d) = SeedsLeft(c)
  BY DEF SeedsLeft
<1>2. SeedsLeft(c) \in Int /\ SeedsLeft(c) >= 0
  BY ConnLeftTypes
<1>3. Level(c) \in 1..9 /\ Level(d) \in 1..9
  BY DEF Level
<1>4. ConnLeft(c) = 6 * SeedsLeft(c) + Level(c) /\ ConnLeft(d) = 6 * SeedsLeft(d) + Level(d)
  BY DEF ConnLeft
<1>5. ConnLeft(d) \in Nat /\ ConnLeft(d) + n < ConnLeft(c)
  BY <1>1, <1>2, <1>3, <1>4
<1> QED
  BY <1>1, <1>2, <1>5 DEF IndexOK

(* A process that goes on to the next seed.                                *)
LEMMA NextSeedDescends ==
  ASSUME NEW c \in Conn, c.at \in Nodes, c.pc # "free", IndexOK(c),
         SeedsLeft(c) >= 1, Level(c) >= 3
  PROVE  /\ IndexOK(NextSeed(c))
         /\ ConnLeft(NextSeed(c)) \in Nat /\ ConnLeft(NextSeed(c)) < ConnLeft(c)
<1> DEFINE d == NextSeed(c)
<1>1. d.pc = "seeds" /\ d.at = c.at /\ d.index = c.index + 1
  BY DEF NextSeed, Conn
<1>2. SeedsLeft(c) \in Int /\ c.index \in Nat
  BY ConnLeftTypes DEF Conn
<1>3. Len(Seeds[c.at]) \in Nat
  BY RegistryAssumption
<1> HIDE DEF d
<1>4. SeedsLeft(d) = SeedsLeft(c) - 1
  BY <1>1, <1>2, <1>3 DEF SeedsLeft
<1>5. Level(c) \in 1..9 /\ Level(d) = 8
  BY <1>1 DEF Level
<1>6. ConnLeft(c) = 6 * SeedsLeft(c) + Level(c) /\ ConnLeft(d) = 6 * SeedsLeft(d) + 8
  BY <1>1, <1>5 DEF ConnLeft
<1>7. ConnLeft(d) \in Nat /\ ConnLeft(d) < ConnLeft(c)
  BY <1>2, <1>4, <1>5, <1>6
<1>8. IndexOK(d)
  BY <1>1, <1>2, <1>4 DEF IndexOK, Trying
<1> QED
  BY <1>7, <1>8 DEF d

LEMMA HandleDescends ==
  ASSUME IInv, HandlersPlaced, IndexesOK, NEW w \in Workers, Handle(w)
  PROVE  IndexOK(conn'[w]) /\ HandlerLeft(w)' < HandlerLeft(w)
<1> DEFINE c == conn[w]
<1>1. /\ c \in Conn /\ c \in ConnOK /\ c.pc # "free" /\ c.at \in Nodes /\ IndexOK(c)
      /\ DOMAIN conn = Workers /\ DOMAIN save = Procs /\ w \in Procs
  BY ConnFields, ProcsApart DEF Handle, Respond, Lookup, Call, CallRefused, NoRoute, SeedReplies,
     SeedLearnt, TargetReplies, Asks, IInv, Typed, ConnOK, IndexesOK
<1>2. SaveLeft(save[w]) = 0
  <2>1. Saved(w)
    BY <1>1 DEF HandlersPlaced, Handle, Respond, Lookup, Call, CallRefused, NoRoute, SeedReplies,
       SeedLearnt, TargetReplies, Asks, Saved
  <2> QED
    BY <1>1, <2>1, SaveLeftTypes
<1>3. ConnLeft(c) \in Nat /\ ConnLeft(c) >= 1 /\ SeedsLeft(c) \in Nat
  BY <1>1, ConnLeftTypes
<1>4. HandlerLeft(w) = ConnLeft(c)
  BY <1>2, <1>3 DEF HandlerLeft
<1>5. HandlerLeft(w)' = ConnLeft(conn'[w]) + SaveLeft(save'[w])
  BY DEF HandlerLeft
<1>6. ASSUME conn' = [conn EXCEPT ![w] = Free], save' = save
      PROVE  IndexOK(conn'[w]) /\ HandlerLeft(w)' < HandlerLeft(w)
  <2>1. IndexOK(Free) /\ ConnLeft(Free) = 0
    BY DEF IndexOK, ConnLeft, Free
  <2> QED
    BY <1>1, <1>2, <1>3, <1>4, <1>5, <1>6, <2>1
<1>7. ASSUME conn' = [conn EXCEPT ![w] = NextSeed(c)], save' = save, SeedsLeft(c) >= 1, Level(c) >= 3
      PROVE  IndexOK(conn'[w]) /\ HandlerLeft(w)' < HandlerLeft(w)
  <2>1. /\ IndexOK(NextSeed(c))
        /\ ConnLeft(NextSeed(c)) \in Nat /\ ConnLeft(NextSeed(c)) < ConnLeft(c)
    BY <1>1, <1>7, NextSeedDescends
  <2> QED
    BY <1>1, <1>2, <1>4, <1>5, <1>7, <2>1
<1>8. MoreSeeds(w) <=> SeedsLeft(c) >= 1
  <2>1. Len(Seeds[c.at]) \in Nat /\ c.index \in Nat
    BY <1>1, RegistryAssumption DEF Conn
  <2> QED
    BY <2>1 DEF MoreSeeds, SeedsLeft
<1>9. CASE Respond(w) \/ NoRoute(w) \/ TargetReplies(w)
  BY <1>6, <1>9 DEF Respond, NoRoute, TargetReplies
<1>10. CASE CallRefused(w)
  <2>1. CASE c.pc = "ask"
    BY <1>6, <1>10, <2>1 DEF CallRefused
  <2>2. CASE c.pc # "ask"
    BY <1>7, <1>8, <1>10, <2>2 DEF CallRefused, Asks, Level
  <2> QED
    BY <2>1, <2>2
<1>11. CASE Lookup(w)
  <2> DEFINE known == Known(conn[w].at, conn[w].wants)
             pc == IF known = None THEN "seeds" ELSE "ask"
             d == [conn[w] EXCEPT !.pc = pc, !.target = known]
  <2>1. conn' = [conn EXCEPT ![w] = d] /\ save' = save /\ c.pc = "ingest"
    BY <1>11 DEF Lookup
  <2>2. d.pc \in {"seeds", "ask"} /\ d.at = c.at /\ d.index = c.index
    BY <1>1 DEF Conn
  <2> HIDE DEF d
  <2>3. ~ Trying(d) /\ Level(d) + 0 < Level(c)
    BY <2>1, <2>2 DEF Trying, Level
  <2>4. IndexOK(d) /\ ConnLeft(d) \in Nat /\ ConnLeft(d) + 0 < ConnLeft(c)
    BY <1>1, <2>2, <2>3, SameSeedDescends
  <2> QED
    BY <1>1, <1>2, <1>4, <1>5, <2>1, <2>4
<1>12. CASE Call(w)
  <2> DEFINE d == [conn[w] EXCEPT !.pc = "wait"]
  <2>1. /\ d.pc = "wait" /\ d.at = c.at /\ d.index = c.index /\ d.target = c.target
    BY <1>1 DEF Conn
  <2>2. \/ c.pc = "seeds" /\ SeedsLeft(c) >= 1
        \/ c.pc = "ask" /\ c.target # None
    <3>1. c.pc = "ask" => c.target \in Nodes
      BY <1>1 DEF ConnOK
    <3> QED
      BY <1>8, <1>12, <3>1, ProcsApart DEF Call, Asks
  <2> HIDE DEF d
  <2>3. (Trying(d) => SeedsLeft(c) >= 1) /\ Level(d) + 0 < Level(c)
    BY <2>1, <2>2 DEF Trying, Level
  <2>4. IndexOK(d) /\ ConnLeft(d) \in Nat /\ ConnLeft(d) + 0 < ConnLeft(c)
    BY <1>1, <2>1, <2>3, SameSeedDescends
  <2>5. conn'[w] = d /\ save'[w] = save[w]
    <3> DEFINE h == Handler(Callee(w), CallOp(w), w, CallFor(w))
               s == SaveInto(Callee(w), Ingested(Callee(w), conn[w].at, CallOp(w)))
    <3>1. PICK v \in FreeWorkers : /\ conn' = [conn EXCEPT ![w].pc = "wait", ![v] = h]
                                   /\ save' = [save EXCEPT ![v] = s]
      BY <1>12 DEF Call
    <3> HIDE DEF h, s
    <3> QED
      BY <1>1, <3>1 DEF FreeWorkers, d
  <2> QED
    BY <1>2, <1>4, <1>5, <2>4, <2>5
<1>13. CASE SeedReplies(w)
  <2>1. c.pc = "wait" /\ c.target = None /\ SeedsLeft(c) >= 1 /\ Level(c) = 7
    BY <1>1, <1>13 DEF SeedReplies, IndexOK, Trying, Level
  <2>2. CASE inbox[w].kind = "failed"
    BY <1>7, <1>13, <2>1, <2>2 DEF SeedReplies
  <2>3. CASE inbox[w].kind # "failed"
    <3> DEFINE d == [conn[w] EXCEPT !.pc = "learn", !.target = inbox[w].found]
               s == SaveInto(conn[w].at, inbox[w].routes)
    <3>1. conn' = [conn EXCEPT ![w] = d] /\ save' = [save EXCEPT ![w] = s]
      BY <1>13, <2>3 DEF SeedReplies
    <3>2. d.pc = "learn" /\ d.at = c.at /\ d.index = c.index /\ SaveLeft(s) = 3
      BY <1>1 DEF Conn, SaveLeft, SaveInto
    <3> HIDE DEF d, s
    <3>3. IndexOK(d) /\ ConnLeft(d) \in Nat /\ ConnLeft(d) + 3 < ConnLeft(c)
      <4>1. Level(d) + 3 < Level(c)
        BY <2>1, <3>2 DEF Level
      <4> QED
        BY <1>1, <2>1, <3>2, <4>1, SameSeedDescends
    <3>4. SaveLeft(save'[w]) = 3
      BY <1>1, <3>1, <3>2
    <3> QED
      BY <1>1, <1>4, <1>5, <3>1, <3>3, <3>4
  <2> QED
    BY <2>2, <2>3
<1>14. CASE SeedLearnt(w)
  <2>1. c.pc = "learn" /\ SeedsLeft(c) >= 1 /\ Level(c) = 3
    BY <1>1, <1>14 DEF SeedLearnt, IndexOK, Trying, Level
  <2>2. CASE c.target = None
    BY <1>7, <1>14, <2>1, <2>2 DEF SeedLearnt
  <2>3. CASE c.target # None
    <3> DEFINE d == [conn[w] EXCEPT !.pc = "ask"]
    <3>1. conn' = [conn EXCEPT ![w] = d] /\ save' = save
      BY <1>14, <2>3 DEF SeedLearnt
    <3>2. d.pc = "ask" /\ d.at = c.at /\ d.index = c.index
      BY <1>1 DEF Conn
    <3> HIDE DEF d
    <3>3. ~ Trying(d) /\ Level(d) + 0 < Level(c)
      BY <2>1, <3>2 DEF Level, Trying
    <3>4. IndexOK(d) /\ ConnLeft(d) \in Nat /\ ConnLeft(d) + 0 < ConnLeft(c)
      BY <1>1, <3>2, <3>3, SameSeedDescends
    <3> QED
      BY <1>1, <1>2, <1>4, <1>5, <3>1, <3>4
  <2> QED
    BY <2>2, <2>3
<1> QED
  BY <1>9, <1>10, <1>11, <1>12, <1>13, <1>14 DEF Handle

LEMMA NextHandlersDescend ==
  ASSUME IInv, HandlersPlaced, IndexesOK, [Next]_vars, NEW w \in Workers
  PROVE  IndexOK(conn'[w]) /\ HandlerDescends(w)
<1>1. /\ conn[w] \in Conn /\ IndexOK(conn[w]) /\ w \in Procs
      /\ conn[w].pc # "free" => conn[w].at \in Nodes
  BY ConnFields, ProcsApart DEF IndexesOK, ConnOK
<1>2. CASE Handle(w)
  <2>1. IndexOK(conn'[w]) /\ HandlerLeft(w)' < HandlerLeft(w)
    BY <1>2, HandleDescends
  <2>2. conn'[w] \in Conn /\ (conn'[w].pc # "free" => conn'[w].at \in Nodes)
    BY NextIInv DEF IInv, Typed, ConnOK
  <2>3. ConnLeft(conn'[w]) \in Nat /\ ConnLeft(conn[w]) \in Nat
    BY <1>1, <2>1, <2>2, ConnLeftTypes
  <2>4. SaveLeft(save'[w]) \in Nat /\ SaveLeft(save[w]) \in Nat
    BY DEF SaveLeft
  <2>5. HandlerLeft(w)' <= HandlerLeft(w)
    BY <2>1, <2>3, <2>4 DEF HandlerLeft
  <2> QED
    BY <2>1, <2>5 DEF HandlerDescends
<1>3. CASE conn[w].pc # "free" /\ ~ Handle(w)
  <2>1. /\ ConnLeft(conn[w]) \in Nat /\ SaveLeft(save[w]) \in Nat
        /\ HandlerLeft(w) = ConnLeft(conn[w]) + SaveLeft(save[w])
        /\ HandlerLeft(w)' = ConnLeft(conn'[w]) + SaveLeft(save'[w])
    BY <1>1, <1>3, ConnLeftTypes, SaveLeftTypes DEF HandlerLeft
  <2>2. CASE HandlerSaves(w)
    <3>1. conn'[w] = conn[w] /\ SaveLeft(save'[w]) < SaveLeft(save[w])
      BY <1>1, <2>2, SaveLeftTypes DEF HandlerSaves
    <3>2. SaveLeft(save'[w]) \in Nat
      BY DEF SaveLeft
    <3> QED
      BY <1>1, <1>3, <2>1, <3>1, <3>2 DEF HandlerDescends
  <2>3. CASE HandlerStays(w)
    <3>1. /\ save'[w] = save[w] /\ conn'[w].pc = conn[w].pc /\ conn'[w].at = conn[w].at
          /\ conn'[w].index = conn[w].index /\ conn'[w].target = conn[w].target
      BY <1>1, <2>3 DEF HandlerStays, Conn
    <3>2. ConnLeft(conn'[w]) = ConnLeft(conn[w]) /\ IndexOK(conn'[w])
      BY <1>1, <3>1 DEF ConnLeft, Level, SeedsLeft, IndexOK, Trying
    <3>3. ~ ChangeFile(w)
      BY <1>1, <3>1, SaveFields, SaveLeftTypes
    <3> QED
      BY <1>3, <2>1, <3>1, <3>2, <3>3 DEF HandlerDescends
  <2>4. CASE HandlerEnds(w)
    <3>1. IndexOK(conn'[w]) /\ ConnLeft(conn'[w]) = 0 /\ SaveLeft(save'[w]) = 0
      BY <2>4 DEF HandlerEnds, IndexOK, ConnLeft, SaveLeft, Free
    <3>2. ConnLeft(conn[w]) >= 1
      BY <1>1, <1>3, ConnLeftTypes
    <3> QED
      BY <2>1, <3>1, <3>2 DEF HandlerDescends
  <2> QED
    BY <1>3, <2>2, <2>3, <2>4, BusyKept
<1>4. CASE conn[w].pc = "free"
  <2>1. CASE HandlerStays(w) \/ HandlerSaves(w) \/ HandlerEnds(w)
    BY <1>1, <1>4, <2>1, ClientFields
       DEF HandlerDescends, HandlerSaves, HandlerEnds, Free, IndexOK
  <2>2. ASSUME NEW n \in Nodes, NEW m, NEW op, NEW client, NEW wants,
               StartsFor(w, n, m, op, client, wants)
        PROVE  IndexOK(conn'[w])
    <3>1. conn'[w].pc = "ingest" /\ conn'[w].at = n /\ conn'[w].index = 1
      BY <2>2 DEF StartsFor, Handler, Free
    <3>2. Len(Seeds[n]) \in Nat
      BY RegistryAssumption
    <3> QED
      BY <3>1, <3>2 DEF IndexOK, SeedsLeft, Trying
  <2>3. ~ HandlerGoes(w)
    BY <1>4 DEF HandlerGoes
  <2>4. IndexOK(conn'[w])
    BY <2>1, <2>2, <2>3, NextMoves DEF HandlerMove, HandlerStarts
  <2> QED
    BY <1>4, <2>4 DEF HandlerDescends
<1> QED
  BY <1>2, <1>3, <1>4

LEMMA NextIndexesOK ==
  ASSUME IInv, HandlersPlaced, IndexesOK, [Next]_vars
  PROVE  IndexesOK'
BY NextHandlersDescend DEF IndexesOK

LEMMA InitIndexesOK == Init => HandlersPlaced /\ IndexesOK
BY ProcsApart DEF Init, HandlersPlaced, IndexesOK, IndexOK, Free, NoSave

(* distributed.c 1291-1547: a process that handles a connection, whatever  *)
(* others do to the file it shares with them and wherever connections      *)
(* break, takes no more steps than six for a seed and twelve: it cannot    *)
(* try seeds, save or ask for ever.                                        *)
THEOREM HandlersDescend ==
  /\ Spec => [](\A w \in Workers : conn[w].pc # "free" =>
                  HandlerLeft(w) \in 1..(6 * Len(Seeds[conn[w].at]) + 12))
  /\ Spec => [][\A w \in Workers : HandlerDescends(w)]_vars
<1> DEFINE Bounded == \A w \in Workers : conn[w].pc # "free" =>
                        HandlerLeft(w) \in 1..(6 * Len(Seeds[conn[w].at]) + 12)
           Down == \A w \in Workers : HandlerDescends(w)
<1>1. ASSUME IInv, IndexesOK PROVE Bounded
  <2> SUFFICES ASSUME NEW w \in Workers, conn[w].pc # "free"
               PROVE  HandlerLeft(w) \in 1..(6 * Len(Seeds[conn[w].at]) + 12)
    OBVIOUS
  <2>1. /\ conn[w] \in Conn /\ conn[w].at \in Nodes /\ IndexOK(conn[w]) /\ w \in Procs
    BY <1>1, ConnFields, ProcsApart DEF IndexesOK, ConnOK
  <2>2. /\ ConnLeft(conn[w]) \in 1..(6 * Len(Seeds[conn[w].at]) + 9)
        /\ SaveLeft(save[w]) \in 0..3 /\ Len(Seeds[conn[w].at]) \in Nat
    BY <1>1, <2>1, ConnLeftTypes, SaveLeftTypes, RegistryAssumption
  <2> QED
    BY <2>2 DEF HandlerLeft
<1>2. IInv /\ IndexesOK => Bounded
  BY <1>1
<1>3. IInv /\ HandlersPlaced /\ IndexesOK /\ [Next]_vars => [Down]_vars
  BY NextHandlersDescend
<1> HIDE DEF Bounded, Down
<1>4. Spec => [](IInv /\ HandlersPlaced /\ IndexesOK)
  BY InitIInv, InitIndexesOK, NextIInv, NextHandlersPlaced, NextIndexesOK, PTL DEF Spec
<1>5. Spec => []Bounded
  BY <1>2, <1>4, PTL
<1>6. Spec => [][Down]_vars
  BY <1>3, <1>4, PTL DEF Spec
<1> QED
  BY <1>5, <1>6 DEF Bounded, Down

-----------------------------------------------------------------------------
(* Announcers run down.                                                    *)

(* Steps left to an announcer, by the rounds and the tasks of a round.     *)
TaskLevel(a) == IF a.pc = "next" THEN 5 ELSE IF a.pc = "wait" THEN 4 ELSE 0
TasksLeft(n, a) == 2 * Len(Seeds[n]) + 1 - a.task
RoundSteps(n) == 12 * Len(Seeds[n]) + 1
RoundLeft(n, a) == 6 * TasksLeft(n, a) + TaskLevel(a)
Runs(a) == a.pc \in {"next", "wait", "learn"}
RoundsLeft(n, a) == (MaxAttempts - a.attempts) * RoundSteps(n)
TourLeft(n, a) == IF Runs(a) THEN RoundsLeft(n, a) + RoundLeft(n, a) ELSE 0
AnnouncerLeft(n) == TourLeft(n, announcer[n]) + SaveLeft(save[n])

TaskOK(n, a) ==
  Runs(a) => /\ TasksLeft(n, a) >= 0 /\ a.task >= 1
             /\ a.pc \in {"wait", "learn"} => TasksLeft(n, a) >= 1
TasksOK == \A n \in Nodes : TaskOK(n, announcer[n])

AnnouncerDescends(n) ==
  Runs(announcer[n]) =>
    /\ AnnouncerLeft(n)' <= AnnouncerLeft(n)
    /\ Discover(n) \/ ChangeFile(n) => AnnouncerLeft(n)' < AnnouncerLeft(n)

LEMMA Products ==
  ASSUME NEW x \in Nat, NEW y \in Nat, NEW r \in Nat
  PROVE  /\ x * r \in Nat
         /\ y = x + 1 => y * r = x * r + r
         /\ x <= y => x * r <= y * r
<1>1. \A z \in Nat : z * r \in Nat
  OBVIOUS
<1>2. ASSUME y = x + 1 PROVE y * r = x * r + r
  <2>1. (x + 1) * r = x * r + r
    OBVIOUS
  <2> QED
    BY <1>2, <2>1
<1>3. ASSUME x <= y PROVE x * r <= y * r
  <2>1. y - x \in Nat
    BY <1>3
  <2>2. (y - x) * r = y * r - x * r
    OBVIOUS
  <2> QED
    BY <1>1, <2>1, <2>2
<1> QED
  BY <1>1, <1>2, <1>3

(* The rounds an announcer has left.                                       *)
LEMMA RoundsLeftTypes ==
  ASSUME NEW n \in Nodes, NEW a \in Announcer
  PROVE  /\ RoundsLeft(n, a) \in Nat /\ RoundsLeft(n, a) <= MaxAttempts * RoundSteps(n)
         /\ RoundSteps(n) \in Nat /\ MaxAttempts * RoundSteps(n) \in Nat
<1> DEFINE x == MaxAttempts - a.attempts
           r == RoundSteps(n)
<1>1. x \in Nat /\ x <= MaxAttempts /\ MaxAttempts \in Nat
  BY RegistryAssumption DEF Announcer
<1>2. r \in Nat
  BY RegistryAssumption DEF RoundSteps
<1> HIDE DEF x, r
<1>3. x * r \in Nat /\ x * r <= MaxAttempts * r /\ MaxAttempts * r \in Nat
  BY <1>1, <1>2, Products
<1> QED
  BY <1>2, <1>3 DEF x, r, RoundsLeft

LEMMA OneRoundLess ==
  ASSUME NEW n \in Nodes, NEW a \in Announcer, NEW b \in Announcer,
         b.attempts = a.attempts + 1
  PROVE  RoundsLeft(n, a) = RoundsLeft(n, b) + RoundSteps(n)
<1> DEFINE x == MaxAttempts - b.attempts
           y == MaxAttempts - a.attempts
           r == RoundSteps(n)
<1>1. x \in Nat /\ y \in Nat /\ y = x + 1
  BY RegistryAssumption DEF Announcer
<1>2. r \in Nat
  BY RoundsLeftTypes
<1> HIDE DEF x, y, r
<1>3. y * r = x * r + r
  BY <1>1, <1>2, Products
<1> QED
  BY <1>3 DEF x, y, r, RoundsLeft

(* The parts of what an announcer has left.                                *)
LEMMA TourParts ==
  ASSUME NEW n \in Nodes, NEW a \in Announcer, Runs(a), TaskOK(n, a)
  PROVE  /\ Len(Seeds[n]) \in Nat
         /\ TasksLeft(n, a) = 2 * Len(Seeds[n]) + 1 - a.task
         /\ TasksLeft(n, a) \in Nat /\ TasksLeft(n, a) <= 2 * Len(Seeds[n])
         /\ TaskLevel(a) \in 0..5
         /\ TourLeft(n, a) = RoundsLeft(n, a) + (6 * TasksLeft(n, a) + TaskLevel(a))
<1>1. Len(Seeds[n]) \in Nat
  BY RegistryAssumption
<1>2. a.task \in Nat /\ a.task >= 1 /\ TasksLeft(n, a) >= 0
  BY DEF Announcer, TaskOK
<1>3. TasksLeft(n, a) = 2 * Len(Seeds[n]) + 1 - a.task
  BY DEF TasksLeft
<1>4. TasksLeft(n, a) \in Nat /\ TasksLeft(n, a) <= 2 * Len(Seeds[n])
  BY <1>1, <1>2, <1>3
<1>5. TaskLevel(a) \in 0..5
  BY DEF TaskLevel
<1> QED
  BY <1>1, <1>3, <1>4, <1>5 DEF TourLeft, RoundLeft

LEMMA TourTypes ==
  ASSUME NEW n \in Nodes, NEW a \in Announcer, TaskOK(n, a)
  PROVE  /\ TourLeft(n, a) \in Nat
         /\ TourLeft(n, a) <= MaxAttempts * RoundSteps(n) + 12 * Len(Seeds[n]) + TaskLevel(a)
<1> DEFINE all == MaxAttempts * RoundSteps(n)
<1>1. /\ TaskLevel(a) \in 0..5 /\ Len(Seeds[n]) \in Nat
      /\ RoundsLeft(n, a) \in Nat /\ RoundsLeft(n, a) <= all /\ all \in Nat
  BY RoundsLeftTypes, RegistryAssumption DEF TaskLevel
<1> HIDE DEF all
<1>2. CASE Runs(a)
  <2>1. /\ TasksLeft(n, a) \in Nat /\ TasksLeft(n, a) <= 2 * Len(Seeds[n])
        /\ TourLeft(n, a) = RoundsLeft(n, a) + (6 * TasksLeft(n, a) + TaskLevel(a))
    BY <1>2, TourParts
  <2>2. \A x, y, t, len, v \in Nat : x <= y /\ t <= 2 * len =>
          x + (6 * t + v) \in Nat /\ x + (6 * t + v) <= y + 12 * len + v
    OBVIOUS
  <2>3. TaskLevel(a) \in Nat
    BY <1>1
  <2>4. /\ TourLeft(n, a) \in Nat
        /\ TourLeft(n, a) <= all + 12 * Len(Seeds[n]) + TaskLevel(a)
    BY <1>1, <2>1, <2>2, <2>3
  <2> QED
    BY <2>4 DEF all
<1>3. CASE ~ Runs(a)
  <2>1. /\ TourLeft(n, a) \in Nat
        /\ TourLeft(n, a) <= all + 12 * Len(Seeds[n]) + TaskLevel(a)
    BY <1>1, <1>3 DEF TourLeft
  <2> QED
    BY <2>1 DEF all
<1> QED
  BY <1>2, <1>3

(* An announcer that goes on in its round.                                 *)
LEMMA RoundDescends ==
  ASSUME NEW n \in Nodes, NEW a \in Announcer, NEW b \in Announcer, Runs(a), Runs(b),
         TaskOK(n, a), TaskOK(n, b), b.attempts = a.attempts, NEW k \in Nat,
         6 * TasksLeft(n, b) + TaskLevel(b) + k < 6 * TasksLeft(n, a) + TaskLevel(a)
  PROVE  TourLeft(n, b) + k < TourLeft(n, a)
<1>1. RoundsLeft(n, a) \in Nat /\ RoundsLeft(n, b) = RoundsLeft(n, a)
  BY RoundsLeftTypes DEF RoundsLeft
<1>2. /\ TasksLeft(n, a) \in Nat /\ TaskLevel(a) \in 0..5
      /\ TourLeft(n, a) = RoundsLeft(n, a) + (6 * TasksLeft(n, a) + TaskLevel(a))
  BY TourParts
<1>3. /\ TasksLeft(n, b) \in Nat /\ TaskLevel(b) \in 0..5
      /\ TourLeft(n, b) = RoundsLeft(n, b) + (6 * TasksLeft(n, b) + TaskLevel(b))
  BY TourParts
<1> QED
  BY <1>1, <1>2, <1>3

(* An announcer that begins another round.                                 *)
LEMMA RoundsDescend ==
  ASSUME NEW n \in Nodes, NEW a \in Announcer, NEW b \in Announcer, a.pc = "next", b.pc = "next",
         TaskOK(n, a), TaskOK(n, b), b.attempts = a.attempts + 1,
         a.task = 2 * Len(Seeds[n]) + 1, b.task = 1
  PROVE  TourLeft(n, b) < TourLeft(n, a)
<1>1. Runs(a) /\ Runs(b) /\ TaskLevel(a) = 5 /\ TaskLevel(b) = 5
  BY DEF Runs, TaskLevel
<1>2. RoundsLeft(n, b) \in Nat /\ RoundsLeft(n, a) = RoundsLeft(n, b) + RoundSteps(n)
  BY RoundsLeftTypes, OneRoundLess
<1>3. Len(Seeds[n]) \in Nat /\ RoundSteps(n) = 12 * Len(Seeds[n]) + 1
  BY <1>1, TourParts DEF RoundSteps
<1>4. /\ TasksLeft(n, a) = 0
      /\ TourLeft(n, a) = RoundsLeft(n, a) + (6 * TasksLeft(n, a) + TaskLevel(a))
  BY <1>1, <1>3, TourParts
<1>5. /\ TasksLeft(n, b) = 2 * Len(Seeds[n])
      /\ TourLeft(n, b) = RoundsLeft(n, b) + (6 * TasksLeft(n, b) + TaskLevel(b))
  BY <1>1, <1>3, TourParts
<1> QED
  BY <1>1, <1>2, <1>3, <1>4, <1>5

LEMMA DiscoverDescends ==
  ASSUME IInv, Talks, AnnouncersPlaced, TasksOK, NEW n \in Nodes, Discover(n)
  PROVE  TaskOK(n, announcer'[n]) /\ AnnouncerLeft(n)' < AnnouncerLeft(n)
<1> DEFINE a == announcer[n]
           b == announcer'[n]
           t == TasksLeft(n, a)
<1>1. /\ a \in Announcer /\ Runs(a) /\ TaskOK(n, a) /\ b \in Announcer
      /\ DOMAIN announcer = Nodes /\ DOMAIN save = Procs /\ n \in Procs /\ n \notin Workers
  <2>1. IInv'
    BY NextIInv DEF Next
  <2> QED
    BY <2>1, ProcsApart DEF IInv, Typed, AnnouncerOK, TasksOK, Discover, Announce, PassOver,
       AnnouncerReply, TaskDone, EndRound, Pending, AnnouncerAt, Runs
<1>2. SaveLeft(save[n]) = 0
  <2>1. save[n].phase = "idle"
    BY DEF AnnouncersPlaced, Discover, Announce, PassOver, AnnouncerReply, TaskDone, EndRound,
       Pending, AnnouncerAt, Saved
  <2> QED
    BY <2>1 DEF SaveLeft
<1>3. /\ AnnouncerLeft(n) = TourLeft(n, a) /\ TourLeft(n, a) \in Nat
      /\ AnnouncerLeft(n)' = TourLeft(n, b) + SaveLeft(save'[n])
  <2>1. TourLeft(n, a) \in Nat
    BY <1>1, TourTypes
  <2>2. AnnouncerLeft(n)' = TourLeft(n, b) + SaveLeft(save'[n])
    BY DEF AnnouncerLeft, TourLeft, RoundLeft, TasksLeft, TaskLevel, RoundSteps
  <2> QED
    BY <1>2, <2>1, <2>2 DEF AnnouncerLeft
<1>4. /\ t \in Nat /\ t = 2 * Len(Seeds[n]) + 1 - a.task
      /\ Len(Seeds[n]) \in Nat /\ a.task \in Nat /\ a.task >= 1
  BY <1>1, TourParts DEF Announcer, TaskOK
<1>5. ASSUME NEW k \in Nat, SaveLeft(save'[n]) = k, Runs(b), TaskOK(n, b),
             b.attempts = a.attempts,
             6 * TasksLeft(n, b) + TaskLevel(b) + k < 6 * t + TaskLevel(a)
      PROVE  TaskOK(n, announcer'[n]) /\ AnnouncerLeft(n)' < AnnouncerLeft(n)
  <2>1. TourLeft(n, b) + k < TourLeft(n, a)
    BY <1>1, <1>5, RoundDescends
  <2> QED
    BY <1>3, <1>5, <2>1
<1>6. ASSUME b.pc = "next", b.task = a.task + 1, b.attempts = a.attempts, t >= 1, save' = save
      PROVE  TaskOK(n, announcer'[n]) /\ AnnouncerLeft(n)' < AnnouncerLeft(n)
  <2>1. TasksLeft(n, b) = t - 1
    BY <1>4, <1>6 DEF TasksLeft
  <2>2. Runs(b) /\ TaskOK(n, b)
    BY <1>4, <1>6, <2>1 DEF Runs, TaskOK
  <2>3. TaskLevel(b) = 5 /\ TaskLevel(a) \in 0..5
    BY <1>6 DEF TaskLevel
  <2>4. 6 * TasksLeft(n, b) + TaskLevel(b) + 0 < 6 * t + TaskLevel(a)
    BY <1>4, <1>6, <2>1, <2>3
  <2> QED
    BY <1>2, <1>5, <1>6, <2>2, <2>4
<1>7. CASE Announce(n)
  <2>1. PICK v \in Workers : \E s : save' = [save EXCEPT ![v] = s]
    BY <1>7 DEF Announce, FreeWorkers
  <2>2. /\ a.pc = "next" /\ a.task \in Tasks(n)
        /\ announcer' = [announcer EXCEPT ![n].pc = "wait"]
    BY <1>7 DEF Announce, Pending, AnnouncerAt
  <2>3. save'[n] = save[n] /\ b.pc = "wait" /\ b.task = a.task /\ b.attempts = a.attempts
    BY <1>1, <2>1, <2>2 DEF Announcer
  <2>4. TasksLeft(n, b) = t /\ t >= 1
    BY <1>4, <2>2, <2>3 DEF TasksLeft, Tasks
  <2>5. Runs(b) /\ TaskOK(n, b) /\ TaskLevel(b) = 4 /\ TaskLevel(a) = 5
    BY <1>4, <2>2, <2>3, <2>4 DEF Runs, TaskOK, TaskLevel
  <2>6. 6 * TasksLeft(n, b) + TaskLevel(b) + 0 < 6 * t + TaskLevel(a)
    BY <1>4, <2>4, <2>5
  <2> QED
    BY <1>2, <1>5, <2>3, <2>5, <2>6
<1>8. CASE PassOver(n)
  <2>1. /\ a.task \in Tasks(n) /\ save' = save
        /\ announcer' = [announcer EXCEPT ![n] = NextTask(announcer[n])]
    BY <1>8 DEF PassOver, AnnouncerAt
  <2>2. b.pc = "next" /\ b.task = a.task + 1 /\ b.attempts = a.attempts
    BY <1>1, <2>1 DEF Announcer, NextTask
  <2>3. t >= 1
    BY <1>4, <2>1 DEF Tasks
  <2> QED
    BY <1>6, <2>1, <2>2, <2>3
<1>9. CASE AnnouncerReply(n)
  <2>1. a.pc = "wait" /\ t >= 1
    BY <1>1, <1>9 DEF AnnouncerReply, TaskOK
  <2>2. CASE inbox[n].kind = "failed"
    <3>1. announcer' = [announcer EXCEPT ![n] = NextTask(announcer[n])] /\ save' = save
      BY <1>9, <2>2 DEF AnnouncerReply
    <3>2. b.pc = "next" /\ b.task = a.task + 1 /\ b.attempts = a.attempts
      BY <1>1, <3>1 DEF Announcer, NextTask
    <3> QED
      BY <1>6, <2>1, <3>1, <3>2
  <2>3. CASE inbox[n].kind # "failed"
    <3> DEFINE s == SaveInto(n, inbox[n].routes)
    <3>1. /\ announcer' = [announcer EXCEPT ![n].pc = "learn"]
          /\ save' = [save EXCEPT ![n] = s]
      BY <1>9, <2>3 DEF AnnouncerReply
    <3>2. SaveLeft(s) = 3
      BY DEF SaveLeft, SaveInto
    <3> HIDE DEF s
    <3>3. b.pc = "learn" /\ b.task = a.task /\ b.attempts = a.attempts /\ save'[n] = s
      BY <1>1, <3>1 DEF Announcer
    <3>4. TasksLeft(n, b) = t
      BY <1>4, <3>3 DEF TasksLeft
    <3>5. Runs(b) /\ TaskOK(n, b) /\ TaskLevel(b) = 0 /\ TaskLevel(a) = 4
      BY <1>4, <2>1, <3>3, <3>4 DEF Runs, TaskOK, TaskLevel
    <3>6. 6 * TasksLeft(n, b) + TaskLevel(b) + 3 < 6 * t + TaskLevel(a)
      BY <1>4, <3>4, <3>5
    <3> QED
      BY <1>5, <3>2, <3>3, <3>5, <3>6
  <2> QED
    BY <2>2, <2>3
<1>10. CASE TaskDone(n)
  <2>1. /\ a.pc = "learn" /\ save' = save
        /\ announcer' = [announcer EXCEPT ![n] =
                           [NextTask(a) EXCEPT !.done = NextTask(a).done \cup {a.task}]]
    BY <1>10 DEF TaskDone
  <2>2. b.pc = "next" /\ b.task = a.task + 1 /\ b.attempts = a.attempts
    BY <1>1, <2>1 DEF Announcer, NextTask
  <2>3. t >= 1
    BY <1>1, <2>1 DEF TaskOK
  <2> QED
    BY <1>6, <2>1, <2>2, <2>3
<1>11. CASE EndRound(n)
  <2>1. a.pc = "next" /\ a.task = 2 * Len(Seeds[n]) + 1 /\ save' = save
    BY <1>11 DEF EndRound, AnnouncerAt
  <2>2. t = 0 /\ TaskLevel(a) = 5
    BY <1>4, <2>1 DEF TaskLevel
  <2>3. TourLeft(n, a) >= 1
    BY <1>1, <2>2, TourParts, RoundsLeftTypes
  <2>4. CASE ~ Runs(b)
    BY <1>2, <1>3, <2>1, <2>3, <2>4 DEF TaskOK, TourLeft
  <2>5. CASE Runs(b)
    <3>1. b.pc = "next" /\ b.task = 1 /\ b.attempts = a.attempts + 1
      BY <1>1, <1>11, <2>5 DEF EndRound, Rounds, Announcer, Runs
    <3>2. TaskOK(n, b)
      BY <1>4, <3>1 DEF TasksLeft, TaskOK
    <3>3. TourLeft(n, b) \in Nat
      BY <1>1, <3>2, TourTypes
    <3>4. TourLeft(n, b) < TourLeft(n, a)
      BY <1>1, <2>1, <3>1, <3>2, RoundsDescend
    <3> QED
      BY <1>2, <1>3, <2>1, <3>2, <3>3, <3>4
  <2> QED
    BY <2>4, <2>5
<1> QED
  BY <1>7, <1>8, <1>9, <1>10, <1>11 DEF Discover

(* Only its own steps, and its start or its end, change an announcer.      *)
LEMMA AnnouncerKept ==
  ASSUME IInv, Talks, AnnouncersPlaced, [Next]_vars, NEW n \in Nodes, ~ Discover(n)
  PROVE  \/ announcer'[n] = announcer[n] /\ (save'[n] = save[n] \/ ChangeFile(n))
         \/ announcer'[n] = Off /\ save'[n].phase = "idle"
         \/ /\ ~ Runs(announcer[n]) /\ save'[n] = save[n]
            /\ announcer'[n] = [Off EXCEPT !.pc = IF Seeds[n] = <<>> THEN "ended" ELSE "next"]
<1>1. /\ DOMAIN announcer = Nodes /\ DOMAIN save = Procs /\ n \in Procs /\ n \notin Workers
  BY ProcsApart DEF IInv, Typed
<1>2. CASE UNCHANGED vars
  BY <1>2 DEF vars
<1>3. ASSUME NEW p \in Procs, ChangeFile(p)
      PROVE  announcer'[n] = announcer[n] /\ (save'[n] = save[n] \/ ChangeFile(n))
  <2>1. announcer' = announcer /\ \A q \in Procs : q # p => save'[q] = save[q]
    BY <1>1, <1>3 DEF ChangeFile, Load, Truncate, Write
  <2> QED
    BY <1>1, <1>3, <2>1
<1>4. ASSUME NEW w \in Workers, Handle(w) \/ Break(w)
      PROVE  announcer'[n] = announcer[n] /\ save'[n] = save[n]
  <2>1. UNCHANGED announcer
    BY <1>4 DEF Handle, Respond, Lookup, Call, CallRefused, NoRoute, SeedReplies, SeedLearnt,
       TargetReplies, Break, history
  <2>2. save' = save \/ \E v \in Workers : \E s : save' = [save EXCEPT ![v] = s]
    <3>1. CASE Call(w)
      BY <3>1 DEF Call, FreeWorkers
    <3>2. CASE SeedReplies(w) \/ Break(w)
      BY <3>2 DEF SeedReplies, Break
    <3> QED
      BY <1>4, <3>1, <3>2
         DEF Handle, Respond, Lookup, CallRefused, NoRoute, SeedLearnt, TargetReplies
  <2> QED
    BY <1>1, <2>1, <2>2
<1>5. ASSUME NEW m \in Nodes, Discover(m)
      PROVE  announcer'[n] = announcer[n] /\ save'[n] = save[n]
  <2>1. m # n
    BY <1>5
  <2>2. \E a : announcer' = [announcer EXCEPT ![m] = a]
    BY <1>5 DEF Discover, Announce, PassOver, AnnouncerReply, TaskDone, EndRound
  <2>3. save' = save \/ \E q \in Workers \cup {m} : \E s : save' = [save EXCEPT ![q] = s]
    <3>1. CASE Announce(m)
      BY <3>1 DEF Announce, FreeWorkers
    <3>2. CASE AnnouncerReply(m)
      BY <3>2 DEF AnnouncerReply
    <3> QED
      BY <1>5, <3>1, <3>2 DEF Discover, PassOver, TaskDone, EndRound
  <2> QED
    BY <1>1, <2>1, <2>2, <2>3
<1>6. ASSUME NEW m \in Nodes, Start(m) \/ \E q \in Principals : UserQuery(m, q)
      PROVE  announcer'[n] = announcer[n] /\ save'[n] = save[n]
  <2>1. announcer' = announcer
        /\ (save' = save \/ \E v \in Workers : \E s : save' = [save EXCEPT ![v] = s])
    BY <1>6 DEF Start, UserQuery, FreeWorkers
  <2> QED
    BY <1>1, <2>1
<1>7. ASSUME NEW m \in Nodes, Listen(m)
      PROVE  /\ save'[n] = save[n]
             /\ \/ announcer'[n] = announcer[n]
                \/ /\ ~ Runs(announcer[n])
                   /\ announcer'[n] =
                        [Off EXCEPT !.pc = IF Seeds[n] = <<>> THEN "ended" ELSE "next"]
  <2>1. /\ node[m] # "up" /\ save' = save
        /\ announcer' = [announcer EXCEPT ![m] =
             [Off EXCEPT !.pc = IF Seeds[m] = <<>> THEN "ended" ELSE "next"]]
    BY <1>7 DEF Listen
  <2>2. node[n] # "up" => ~ Runs(announcer[n])
    BY DEF Talks, Talk, OffWhenDown, Off, Runs
  <2> QED
    BY <1>1, <2>1, <2>2
<1>8. ASSUME NEW m \in Nodes, Stop(m)
      PROVE  \/ announcer'[n] = announcer[n] /\ save'[n] = save[n]
             \/ announcer'[n] = Off /\ save'[n].phase = "idle"
  <2>1. /\ announcer' = [announcer EXCEPT ![m] = Off] /\ save' = [save EXCEPT ![m] = NoSave]
        /\ NoSave.phase = "idle"
    BY <1>8 DEF Stop, NoSave
  <2> QED
    BY <1>1, <2>1
<1> QED
  BY <1>2, <1>3, <1>4, <1>5, <1>6, <1>7, <1>8 DEF Next

LEMMA NextAnnouncersDescend ==
  ASSUME IInv, Talks, AnnouncersPlaced, TasksOK, [Next]_vars, NEW n \in Nodes
  PROVE  TaskOK(n, announcer'[n]) /\ AnnouncerDescends(n)
<1>1. /\ announcer[n] \in Announcer /\ TaskOK(n, announcer[n]) /\ n \in Procs
      /\ announcer'[n] \in Announcer
  BY NextIInv, ProcsApart DEF IInv, Typed, AnnouncerOK, TasksOK
<1>2. /\ AnnouncerLeft(n) = TourLeft(n, announcer[n]) + SaveLeft(save[n])
      /\ AnnouncerLeft(n)' = TourLeft(n, announcer'[n]) + SaveLeft(save'[n])
      /\ SaveLeft(save[n]) \in Nat /\ SaveLeft(save'[n]) \in Nat
      /\ TourLeft(n, announcer[n]) \in Nat
  <2>1. AnnouncerLeft(n)' = TourLeft(n, announcer'[n]) + SaveLeft(save'[n])
    BY DEF AnnouncerLeft, TourLeft, RoundsLeft, RoundLeft, TasksLeft, TaskLevel, RoundSteps
  <2> QED
    BY <1>1, <2>1, TourTypes DEF AnnouncerLeft, SaveLeft
<1>3. CASE Discover(n)
  <2>1. TaskOK(n, announcer'[n]) /\ AnnouncerLeft(n)' < AnnouncerLeft(n)
    BY <1>3, DiscoverDescends
  <2>2. TourLeft(n, announcer'[n]) \in Nat
    BY <1>1, <2>1, TourTypes
  <2>3. AnnouncerLeft(n)' <= AnnouncerLeft(n)
    BY <1>2, <2>1, <2>2
  <2> QED
    BY <2>1, <2>3 DEF AnnouncerDescends
<1>4. CASE ~ Discover(n) /\ announcer'[n] = announcer[n] /\ save'[n] = save[n]
  <2>1. ~ ChangeFile(n)
    BY <1>1, <1>2, <1>4, SaveLeftTypes
  <2>2. AnnouncerLeft(n)' <= AnnouncerLeft(n)
    BY <1>2, <1>4
  <2> QED
    BY <1>1, <1>4, <2>1, <2>2 DEF AnnouncerDescends
<1>5. CASE ~ Discover(n) /\ announcer'[n] = announcer[n] /\ ChangeFile(n)
  <2>1. SaveLeft(save'[n]) < SaveLeft(save[n])
    BY <1>1, <1>5, SaveLeftTypes
  <2>2. AnnouncerLeft(n)' < AnnouncerLeft(n) /\ AnnouncerLeft(n)' <= AnnouncerLeft(n)
    BY <1>2, <1>5, <2>1
  <2> QED
    BY <1>1, <1>5, <2>2 DEF AnnouncerDescends
<1>6. CASE ~ Discover(n) /\ announcer'[n] = Off /\ save'[n].phase = "idle"
  <2>1. ~ Runs(Off)
    BY DEF Off, Runs
  <2>2. AnnouncerLeft(n)' = 0 /\ TaskOK(n, announcer'[n])
    BY <1>2, <1>6, <2>1 DEF TourLeft, SaveLeft, TaskOK
  <2>3. AnnouncerLeft(n)' <= AnnouncerLeft(n)
    BY <1>2, <2>2
  <2>4. ChangeFile(n) /\ Runs(announcer[n]) => AnnouncerLeft(n) > 0
    <3>1. ChangeFile(n) => SaveLeft(save[n]) > SaveLeft(save'[n])
      BY <1>1, SaveLeftTypes
    <3> QED
      BY <1>2, <3>1
  <2> QED
    BY <1>2, <1>6, <2>2, <2>3, <2>4 DEF AnnouncerDescends
<1>7. CASE /\ ~ Runs(announcer[n])
           /\ announcer'[n] = [Off EXCEPT !.pc = IF Seeds[n] = <<>> THEN "ended" ELSE "next"]
  <2>1. announcer'[n].task = 1 /\ announcer'[n].pc \in {"ended", "next"}
    BY <1>7 DEF Off
  <2>2. Len(Seeds[n]) \in Nat
    BY RegistryAssumption
  <2>3. TaskOK(n, announcer'[n])
    BY <2>1, <2>2 DEF TaskOK, TasksLeft
  <2> QED
    BY <1>7, <2>3 DEF AnnouncerDescends
<1> QED
  BY <1>3, <1>4, <1>5, <1>6, <1>7, AnnouncerKept

LEMMA NextTasksOK ==
  ASSUME IInv, Talks, AnnouncersPlaced, TasksOK, [Next]_vars
  PROVE  TasksOK'
<1>1. \A n \in Nodes : TaskOK(n, announcer'[n])
  BY NextAnnouncersDescend
<1>2. \A n \in Nodes : TaskOK(n, announcer'[n]) => TaskOK(n, announcer[n])'
  BY DEF TaskOK, TasksLeft
<1> QED
  BY <1>1, <1>2 DEF TasksOK

LEMMA InitTasksOK == Init => AnnouncersPlaced /\ TasksOK
BY ProcsApart DEF Init, AnnouncersPlaced, TasksOK, TaskOK, Runs, Off, NoSave

(* distributed.c 2055-2102: an announcer that is not killed, however often *)
(* its seeds refuse or break connections and whatever others do to the     *)
(* file it shares with them, takes no more steps than twelve and one for a *)
(* seed in each of its rounds, and those of one round: it gives up.        *)
THEOREM AnnouncersDescend ==
  /\ Spec => [](\A n \in Nodes : Runs(announcer[n]) =>
                  AnnouncerLeft(n) \in 0..(MaxAttempts * RoundSteps(n) + 12 * Len(Seeds[n]) + 5))
  /\ Spec => [][\A n \in Nodes : AnnouncerDescends(n)]_vars
<1> DEFINE Bounded == \A n \in Nodes : Runs(announcer[n]) =>
             AnnouncerLeft(n) \in 0..(MaxAttempts * RoundSteps(n) + 12 * Len(Seeds[n]) + 5)
           Down == \A n \in Nodes : AnnouncerDescends(n)
<1>1. ASSUME IInv, AnnouncersPlaced, TasksOK PROVE Bounded
  <2> SUFFICES ASSUME NEW n \in Nodes, Runs(announcer[n])
               PROVE  AnnouncerLeft(n)
                        \in 0..(MaxAttempts * RoundSteps(n) + 12 * Len(Seeds[n]) + 5)
    OBVIOUS
  <2> DEFINE all == MaxAttempts * RoundSteps(n)
             left == TourLeft(n, announcer[n])
  <2>1. announcer[n] \in Announcer /\ TaskOK(n, announcer[n])
    BY <1>1 DEF IInv, Typed, AnnouncerOK, TasksOK
  <2>2. all \in Nat /\ Len(Seeds[n]) \in Nat
    BY <2>1, RoundsLeftTypes, RegistryAssumption
  <2>3. /\ left \in Nat /\ left <= all + 12 * Len(Seeds[n]) + TaskLevel(announcer[n])
        /\ AnnouncerLeft(n) = left + SaveLeft(save[n])
    BY <2>1, TourTypes DEF AnnouncerLeft
  <2>4. TaskLevel(announcer[n]) \in Nat /\ SaveLeft(save[n]) \in Nat
        /\ TaskLevel(announcer[n]) + SaveLeft(save[n]) <= 5
    BY <1>1 DEF AnnouncersPlaced, TaskLevel, SaveLeft
  <2> HIDE DEF all, left
  <2>5. \A x, y, len, u, v \in Nat : x <= y + 12 * len + u /\ u + v <= 5 =>
          x + v \in 0..(y + 12 * len + 5)
    OBVIOUS
  <2>6. AnnouncerLeft(n) \in 0..(all + 12 * Len(Seeds[n]) + 5)
    BY <2>2, <2>3, <2>4, <2>5
  <2> QED
    BY <2>6 DEF all
<1>2. IInv /\ AnnouncersPlaced /\ TasksOK => Bounded
  BY <1>1
<1>3. IInv /\ Talks /\ AnnouncersPlaced /\ TasksOK /\ [Next]_vars => [Down]_vars
  BY NextAnnouncersDescend
<1> HIDE DEF Bounded, Down
<1>4. Spec => [](IInv /\ Talks /\ AnnouncersPlaced /\ TasksOK)
  BY InitIInv, InitTalks, InitTasksOK, NextIInv, NextTalks, NextAnnouncersPlaced, NextTasksOK,
     PTL DEF Spec
<1>5. Spec => []Bounded
  BY <1>2, <1>4, PTL
<1>6. Spec => [][Down]_vars
  BY <1>3, <1>4, PTL DEF Spec
<1> QED
  BY <1>5, <1>6 DEF Bounded, Down
=============================================================================
