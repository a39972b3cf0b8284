----------------------------- MODULE MembersProofs -----------------------------
(***************************************************************************)
(* What the table of peers holds, for every set of nodes, every lease and   *)
(* clock, and reports in any number and order.                              *)
(***************************************************************************)
EXTENDS Members, TLAPS

TypeOK ==
  /\ members \in [Nodes -> Held \cup {None}]
  /\ told \in [Nodes -> Seq(Peer)]

\* What EntryOfLatestLife says of one node, given its entry and its reports.
Right(entry, reports) ==
  /\ entry = None <=> reports = <<>>
  /\ reports # <<>> =>
       /\ entry.endpoint = reports[1].endpoint
       /\ \E i \in 1 .. Len(reports) :
            /\ entry.incarnation = reports[i].incarnation
            /\ entry.heartbeat = reports[i].heartbeat
            /\ entry.status \in {reports[i].status, "dead"}
            /\ \A j \in i + 1 .. Len(reports) : reports[j].incarnation < reports[i].incarnation
       /\ \A j \in 1 .. Len(reports) : reports[j].incarnation <= entry.incarnation

IInv == TypeOK /\ \A n \in Nodes : Right(members[n], told[n])

\* Clock readings and incarnations are natural numbers, and 64-bit addition is
\* no larger than the sum.
LEMMA Numbers ==
  /\ TimeSize \in Nat \ {0} /\ Lease \in Nat
  /\ \A k \in Incarnations : k \in Nat
  /\ \A t \in Heartbeats : t \in Nat /\ (t + Lease) % TimeSize <= t + Lease
<1>1. TimeSize \in Nat \ {0} /\ Lease \in Nat
  BY MembersAssumption
<1>2. \A k \in Incarnations : k \in Nat
  BY <1>1, MembersAssumption
<1>3. \A t \in Heartbeats : t \in Nat
  BY <1>1, MembersAssumption
<1>4. ASSUME NEW x \in Nat PROVE x % TimeSize <= x
  <2>1. x % TimeSize \in 0 .. TimeSize - 1
    BY <1>1
  <2>2. CASE x < TimeSize
    BY <1>1, <2>2
  <2>3. CASE ~(x < TimeSize)
    BY <1>1, <2>1, <2>3
  <2> QED
    BY <2>2, <2>3
<1> QED
  BY <1>1, <1>2, <1>3, <1>4

\* The named parts of IInv are those of EntryOfLatestLife.
LEMMA IInvIsEntry == IInv => EntryOfLatestLife
BY DEF IInv, Right, EntryOfLatestLife, Stands

\* A report is put in its place: the entry of a node that was told once more
\* still stands for its last report of the latest incarnation.
LEMMA UpsertedRight ==
  ASSUME NEW entry \in Held \cup {None}, NEW reports \in Seq(Peer), NEW peer \in Peer,
         Right(entry, reports)
  PROVE  /\ Upserted(entry, peer) \in Held
         /\ Right(Upserted(entry, peer), Append(reports, peer))
<1> DEFINE new == Upserted(entry, peer)
           more == Append(reports, peer)
<1>1. /\ Len(reports) \in Nat /\ Len(more) = Len(reports) + 1
      /\ more[Len(more)] = peer
      /\ \A i \in 1 .. Len(reports) : more[i] = reports[i] /\ reports[i] \in Peer
      /\ more # <<>>
      /\ reports = <<>> <=> Len(reports) = 0
  OBVIOUS
<1>2. peer.incarnation \in Nat /\ \A i \in 1 .. Len(reports) : reports[i].incarnation \in Nat
  BY <1>1, Numbers DEF Peer
<1>3. CASE entry = None
  <2>1. new = peer /\ reports = <<>> /\ new \in Held /\ new # None
    BY <1>3, NoneIsNoEntry DEF Upserted, Right, Peer, Held
  <2> QED
    BY <1>1, <1>2, <2>1 DEF Right
<1>4. CASE entry # None /\ entry.incarnation <= peer.incarnation
  <2>1. new = [peer EXCEPT !.endpoint = entry.endpoint] /\ entry \in Held
    BY <1>4 DEF Upserted
  <2>2. /\ new \in Held /\ new # None
        /\ new.endpoint = entry.endpoint
        /\ new.incarnation = peer.incarnation
        /\ new.heartbeat = peer.heartbeat
        /\ new.status = peer.status
    BY <2>1, NoneIsNoEntry DEF Peer, Held
  <2>3. reports # <<>> /\ more[1] = reports[1]
    BY <1>1, <1>4 DEF Right
  <2>4. \A j \in 1 .. Len(more) : more[j].incarnation <= new.incarnation
    <3>1. \A j \in 1 .. Len(reports) : reports[j].incarnation <= entry.incarnation
      BY <2>3 DEF Right
    <3>2. entry.incarnation \in Nat
      BY <2>1, Numbers DEF Held
    <3> QED
      BY <1>1, <1>2, <1>4, <2>2, <3>1, <3>2
  <2>5. new.endpoint = more[1].endpoint
    BY <2>2, <2>3 DEF Right
  <2>6. \E i \in 1 .. Len(more) :
          /\ new.incarnation = more[i].incarnation
          /\ new.heartbeat = more[i].heartbeat
          /\ new.status \in {more[i].status, "dead"}
          /\ \A j \in i + 1 .. Len(more) : more[j].incarnation < more[i].incarnation
    BY <1>1, <2>2
  <2> QED
    BY <1>1, <2>2, <2>4, <2>5, <2>6 DEF Right
<1>5. CASE entry # None /\ ~(entry.incarnation <= peer.incarnation)
  <2>1. new = entry /\ entry \in Held
    BY <1>5 DEF Upserted
  <2>2. reports # <<>> /\ more[1] = reports[1]
    BY <1>1, <1>5 DEF Right
  <2>3. entry.incarnation \in Nat /\ peer.incarnation < entry.incarnation
    <3>1. entry.incarnation \in Nat
      BY <2>1, Numbers DEF Held
    <3> QED
      BY <1>2, <1>5, <3>1
  <2>4. \A j \in 1 .. Len(more) : more[j].incarnation <= new.incarnation
    <3>1. \A j \in 1 .. Len(reports) : reports[j].incarnation <= entry.incarnation
      BY <2>2 DEF Right
    <3> QED
      BY <1>1, <1>2, <2>1, <2>3, <3>1
  <2>5. PICK i \in 1 .. Len(reports) :
          /\ entry.incarnation = reports[i].incarnation
          /\ entry.heartbeat = reports[i].heartbeat
          /\ entry.status \in {reports[i].status, "dead"}
          /\ \A j \in i + 1 .. Len(reports) : reports[j].incarnation < reports[i].incarnation
    BY <2>2 DEF Right
  <2>6. \A j \in i + 1 .. Len(more) : more[j].incarnation < more[i].incarnation
    BY <1>1, <2>3, <2>5
  <2> QED
    BY <1>1, <1>5, <2>1, <2>2, <2>4, <2>5, <2>6 DEF Right
<1> QED
  BY <1>3, <1>4, <1>5

\* IInv holds initially.
LEMMA InitRight == Init => IInv
BY DEF Init, IInv, TypeOK, Right

\* An expiry touches nothing but the status.
LEMMA ExpireRight == ASSUME IInv, NEW at \in 0 .. TimeSize - 1, Expire(at) PROVE IInv'
<1>1. ASSUME NEW n \in Nodes
      PROVE /\ members'[n] \in Held \cup {None}
            /\ members'[n] = None <=> members[n] = None
            /\ members[n] # None =>
                 /\ members'[n].endpoint = members[n].endpoint
                 /\ members'[n].incarnation = members[n].incarnation
                 /\ members'[n].heartbeat = members[n].heartbeat
                 /\ members'[n].status \in {members[n].status, "dead"}
  BY NoneIsNoEntry DEF IInv, TypeOK, Expire, Expired, Held
<1>2. members' \in [Nodes -> Held \cup {None}] /\ told' = told
  <2>1. members' = [n \in Nodes |-> members'[n]]
    BY DEF Expire
  <2> QED
    BY <1>1, <2>1 DEF Expire
<1>3. ASSUME NEW n \in Nodes PROVE Right(members'[n], told[n])
  BY <1>1, <1>3 DEF IInv, Right
<1> QED
  BY <1>2, <1>3 DEF IInv, TypeOK

\* Every step keeps IInv.
LEMMA NextRight == IInv /\ [Next]_vars => IInv'
<1> SUFFICES ASSUME IInv, [Next]_vars PROVE IInv'
  OBVIOUS
<1>1. ASSUME NEW n \in Nodes, NEW peer \in Peer, Upsert(n, peer) PROVE IInv'
  <2>1. /\ members' = [members EXCEPT ![n] = Upserted(members[n], peer)]
        /\ told' = [told EXCEPT ![n] = Append(told[n], peer)]
    BY <1>1 DEF Upsert
  <2>2. /\ Upserted(members[n], peer) \in Held
        /\ Right(Upserted(members[n], peer), Append(told[n], peer))
    BY UpsertedRight DEF IInv, TypeOK
  <2> QED
    BY <2>1, <2>2 DEF IInv, TypeOK
<1>2. CASE UNCHANGED vars
  BY <1>2 DEF vars, IInv, TypeOK
<1> QED
  BY <1>1, <1>2, ExpireRight DEF Next

\* In whatever order the reports arrive, every entry holds the last report of
\* the latest incarnation, under the first endpoint (swim.c:24-54).
THEOREM MembersHoldLatestLife == Spec => []EntryOfLatestLife
<1>1. Spec => []IInv
  BY InitRight, NextRight, PTL DEF Spec
<1> QED
  BY <1>1, IInvIsEntry, PTL

\* What an expiry does to one entry that stands for a report.
LEMMA ExpireLeavesRecent ==
  ASSUME IInv, NEW at \in 0 .. TimeSize - 1, Expire(at), NEW n \in Nodes,
         members'[n] # None, members'[n].status # "dead"
  PROVE  \E i \in 1 .. Len(told[n]) :
           /\ \A j \in i + 1 .. Len(told[n]) : told[n][j].incarnation < told[n][i].incarnation
           /\ told[n][i].status \in Leaving \/ at <= told[n][i].heartbeat + Lease
<1>1. /\ members[n] \in Held /\ members'[n] = members[n] /\ ~Expired(members[n], at)
  <2>1. CASE Expired(members[n], at)
    <3>1. members'[n] = [members[n] EXCEPT !.status = "dead"] /\ members[n] # None
      BY <2>1 DEF Expire, Expired
    <3>2. members[n] \in Held
      BY <3>1 DEF IInv, TypeOK
    <3> QED
      BY <3>1, <3>2 DEF Held
  <2> QED
    BY <2>1 DEF IInv, TypeOK, Expire
<1>2. members[n] # None /\ told[n] # <<>>
  BY <1>1, NoneIsNoEntry DEF IInv, Right
<1>3. PICK i \in 1 .. Len(told[n]) :
        /\ members[n].heartbeat = told[n][i].heartbeat
        /\ members[n].status \in {told[n][i].status, "dead"}
        /\ \A j \in i + 1 .. Len(told[n]) : told[n][j].incarnation < told[n][i].incarnation
  BY <1>2 DEF IInv, Right
<1>4. told[n][i].status \in Leaving \/ at <= (told[n][i].heartbeat + Lease) % TimeSize
  <2>1. members[n].status = told[n][i].status
    BY <1>1, <1>3
  <2>2. /\ members[n].heartbeat \in Nat /\ Lease \in Nat /\ TimeSize \in Nat \ {0}
        /\ (members[n].heartbeat + Lease) % TimeSize \in Nat
    BY <1>1, Numbers DEF Held
  <2> QED
    BY <1>1, <1>2, <1>3, <2>1, <2>2 DEF Expired
<1>5. (told[n][i].heartbeat + Lease) % TimeSize <= told[n][i].heartbeat + Lease
  BY <1>1, <1>3, Numbers DEF Held
<1>6. told[n][i].heartbeat \in Nat /\ Lease \in Nat /\ (told[n][i].heartbeat + Lease) % TimeSize \in Nat
  BY <1>1, <1>3, Numbers DEF Held
<1>7. told[n][i].status \in Leaving \/ at <= told[n][i].heartbeat + Lease
  BY <1>4, <1>5, <1>6
<1> QED
  BY <1>3, <1>7

\* After an expiry no entry is left that is neither leaving nor has sent its
\* last report within the lease (swim.c:56-65).
THEOREM MembersExpiryLeavesTheRecent == Spec => ExpiryLeavesTheRecent
<1>1. Spec => []IInv
  BY InitRight, NextRight, PTL DEF Spec
<1>2. IInv /\ [Next]_vars =>
        [\A at \in 0 .. TimeSize - 1 : Expire(at) =>
           \A n \in Nodes : members'[n] # None /\ members'[n].status # "dead" =>
             \E i \in 1 .. Len(told[n]) :
               /\ \A j \in i + 1 .. Len(told[n]) :
                    told[n][j].incarnation < told[n][i].incarnation
               /\ told[n][i].status \in Leaving \/ at <= told[n][i].heartbeat + Lease]_vars
  BY ExpireLeavesRecent
<1> QED
  BY <1>1, <1>2, PTL DEF Spec, ExpiryLeavesTheRecent
=============================================================================
