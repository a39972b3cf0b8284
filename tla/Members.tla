-------------------------------- MODULE Members --------------------------------
(***************************************************************************)
(* The table of peers with leases (src/runtime/swim.c and peer.c). It is a  *)
(* part of the library that the node itself does not use: whoever keeps a   *)
(* table tells it what it heard of a peer, in whatever order that arrives,  *)
(* late or twice, and lets it expire entries.                               *)
(***************************************************************************)
EXTENDS Naturals, Sequences

CONSTANTS
  Nodes, Endpoints,
  Incarnations, Heartbeats,
  Reported,        \* the statuses reports tell of
  TimeSize,        \* the number of times a clock shows (2^64)
  Lease,
  MaxTold(_),      \* bound: how often the table is told of a node
  None

ASSUME MembersAssumption ==
  /\ TimeSize \in Nat \ {0}
  /\ Incarnations \subseteq 0 .. TimeSize - 1
  /\ Heartbeats \subseteq 0 .. TimeSize - 1
  /\ Lease \in 0 .. TimeSize - 1
  /\ Reported \subseteq {"alive", "suspect", "dead", "draining", "disabled"}
  /\ \A n \in Nodes : MaxTold(n) \in Nat

Leaving == {"draining", "disabled"}

Peer ==
  [endpoint : Endpoints, incarnation : Incarnations, heartbeat : Heartbeats,
   status : Reported]

\* What the table holds of a peer: an entry may have been declared dead.
Held ==
  [endpoint : Endpoints, incarnation : Incarnations, heartbeat : Heartbeats,
   status : Reported \cup {"dead"}]

ASSUME NoneIsNoEntry == None \notin Held

VARIABLES
  members,  \* the table: what it holds of each node, None before it is told
  told      \* what it was told of each node, in that order

vars == <<members, told>>

Init ==
  /\ members = [n \in Nodes |-> None]
  /\ told = [n \in Nodes |-> <<>>]

\* News of an earlier incarnation is dropped, an old heartbeat of the same
\* one is not; the endpoint stays the first.
\* Slip: whatever arrives last is believed.
UpsertedAlways(old, peer) == IF old = None THEN peer ELSE [peer EXCEPT !.endpoint = old.endpoint]
Upserted(old, peer) ==
  CASE old = None -> peer
    [] old # None /\ old.incarnation <= peer.incarnation ->
         [peer EXCEPT !.endpoint = old.endpoint]
    [] OTHER -> old

Upsert(n, peer) ==
  /\ Len(told[n]) < MaxTold(n)
  /\ members' = [members EXCEPT ![n] = Upserted(@, peer)]
  /\ told' = [told EXCEPT ![n] = Append(@, peer)]

\* The end of the lease is computed in 64 bits; a node that said it is
\* leaving stays as it is.
\* Slip: the entries that are suspected are left alone too.
ExpiredUnsuspected(peer, at) ==
  /\ peer # None
  /\ peer.status \notin Leaving \cup {"suspect"}
  /\ at > (peer.heartbeat + Lease) % TimeSize
Expired(peer, at) ==
  /\ peer # None
  /\ peer.status \notin Leaving
  /\ at > (peer.heartbeat + Lease) % TimeSize

Expire(at) ==
  /\ members' = [n \in Nodes |-> IF Expired(members[n], at)
                                 THEN [members[n] EXCEPT !.status = "dead"] ELSE members[n]]
  /\ UNCHANGED told

Next ==
  \/ \E n \in Nodes, peer \in Peer : Upsert(n, peer)
  \/ \E at \in 0 .. TimeSize - 1 : Expire(at)

Spec == Init /\ [][Next]_vars

\* The report an entry stands for: no later one is of the same incarnation.
Stands(n, i) ==
  /\ i \in 1 .. Len(told[n])
  /\ members[n].incarnation = told[n][i].incarnation
  /\ members[n].heartbeat = told[n][i].heartbeat
  /\ members[n].status \in {told[n][i].status, "dead"}
  /\ \A j \in i + 1 .. Len(told[n]) : told[n][j].incarnation < told[n][i].incarnation

\* In whatever order reports arrive, late or twice, an entry holds the last one
\* of the latest incarnation that was reported, and may only have been declared
\* dead since; its endpoint is still that of the first report
\* (etb_membership_upsert, swim.c:24).
EntryOfLatestLife ==
  \A n \in Nodes :
    /\ members[n] = None <=> told[n] = <<>>
    /\ told[n] # <<>> =>
         /\ members[n].endpoint = told[n][1].endpoint
         /\ \E i \in 1 .. Len(told[n]) : Stands(n, i)
         /\ \A j \in 1 .. Len(told[n]) : told[n][j].incarnation <= members[n].incarnation

\* After an expiry every node that is not dead either said that it is leaving,
\* in the last report of its latest incarnation, or sent that report within the
\* lease: no entry outlives its last report by a late copy of an earlier one,
\* nor by a lease whose end does not fit the clock (etb_membership_expire,
\* swim.c:56).
ExpiryLeavesTheRecent ==
  [][\A at \in 0 .. TimeSize - 1 : Expire(at) =>
       \A n \in Nodes : members'[n] # None /\ members'[n].status # "dead" =>
         \E i \in 1 .. Len(told[n]) :
           /\ \A j \in i + 1 .. Len(told[n]) :
                told[n][j].incarnation < told[n][i].incarnation
           /\ told[n][i].status \in Leaving \/ at <= told[n][i].heartbeat + Lease]_vars
=============================================================================
