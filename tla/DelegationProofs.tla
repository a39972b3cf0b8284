-------------------------- MODULE DelegationProofs --------------------------
(***************************************************************************)
(* Proofs about the walk of etb_delegation_visit, for every set of links   *)
(* whose depth attributes are bounded: it grants exactly what a chain of   *)
(* usable links grants, and more links never withdraw a grant.             *)
(***************************************************************************)
EXTENDS Chains, WellFoundedInduction, TLAPS

-----------------------------------------------------------------------------
(* Least and greatest numbers                                              *)

LEMMA LeastNumber ==
  ASSUME NEW T \in SUBSET Nat, T # {}
  PROVE  \E m \in T : \A k \in T : m <= k
<1>1. PICK m \in T : \A k \in T : ~ (<<k, m>> \in OpToRel(<, Nat))
  BY NatLessThanWellFounded, WFMin
<1>2. \A k \in T : ~ (k < m)
  BY <1>1 DEF OpToRel
<1> QED
  BY <1>2

LEMMA GreatestNumber ==
  ASSUME NEW T \in SUBSET Nat, T # {}, NEW b \in Nat, \A k \in T : k <= b
  PROVE  \E m \in T : \A k \in T : k <= m
<1> DEFINE U == {u \in Nat : u <= b /\ b - u \in T}
<1>1. PICK k \in T : TRUE
  OBVIOUS
<1>2. b - k \in U
  BY <1>1
<1>3. PICK u \in U : \A v \in U : u <= v
  BY <1>2, LeastNumber
<1>4. b - u \in T
  BY <1>3
<1>5. ASSUME NEW j \in T PROVE j <= b - u
  <2>1. b - j \in U
    BY <1>5
  <2>2. u <= b - j
    BY <1>3, <2>1
  <2>3. u \in Nat /\ j \in Nat /\ j <= b
    BY <1>5
  <2> HIDE DEF U
  <2> QED
    BY <2>2, <2>3
<1> QED
  BY <1>4, <1>5

-----------------------------------------------------------------------------
(* The walk                                                                *)

(* links are between principals, and no depth attribute exceeds longest.   *)
Bounded(links, longest) ==
  \A link \in links : link.to \in Principals /\ link.depth \in Nat /\ link.depth <= longest

(* The calls that grant, given that those in S do.                         *)
Grant(links, target, pred, now, S) ==
  {at \in Visit : \/ at.who = target
                  \/ /\ WithinLimit(at.depth, at.limit)
                     /\ \E link \in Choices(links, at.who, pred, now) : NextVisit(at, link) \in S}

(* f is a solution of the recursive definition of Allows.                  *)
IsWalk(f, links, target, pred, now) ==
  f = [at \in Visit |->
         \/ at.who = target
         \/ /\ WithinLimit(at.depth, at.limit)
            /\ \E link \in Choices(links, at.who, pred, now) : f[NextVisit(at, link)]]

LEMMA NextVisitType ==
  ASSUME NEW links, NEW longest, Bounded(links, longest), NEW at \in Visit,
         NEW who, NEW pred, NEW now, NEW link \in Choices(links, who, pred, now)
  PROVE  /\ NextVisit(at, link) \in Visit
         /\ link \in links /\ link.who = who /\ Live(link, pred, now)
<1>1. link \in links /\ link.who = who /\ Live(link, pred, now)
  BY DEF Choices, UsableLinks
<1>2. link.to \in Principals /\ link.depth \in Nat
  BY <1>1 DEF Bounded
<1>3. at.depth + 1 \in Nat /\ LimitAfter(link, at.limit) \in Nat
  BY <1>2 DEF Visit, LimitAfter
<1> QED
  BY <1>1, <1>2, <1>3 DEF NextVisit, Visit

(* The recursive definition has a solution: the least set of calls closed  *)
(* under granting.                                                         *)
LEMMA WalkExists ==
  ASSUME NEW links, NEW longest, Bounded(links, longest), NEW target, NEW pred, NEW now
  PROVE  \E f : IsWalk(f, links, target, pred, now)
<1> DEFINE G(S) == Grant(links, target, pred, now, S)
           least == {at \in Visit : \A S \in SUBSET Visit : G(S) \subseteq S => at \in S}
<1>1. \A S, T : S \subseteq T => G(S) \subseteq G(T)
  BY DEF Grant
<1>2. \A S : G(S) \in SUBSET Visit
  BY DEF Grant
<1>3. G(least) \subseteq least
  <2> SUFFICES ASSUME NEW at \in G(least), NEW S \in SUBSET Visit, G(S) \subseteq S
               PROVE  at \in S
    BY <1>2
  <2>1. least \subseteq S
    OBVIOUS
  <2> HIDE DEF G, least
  <2> QED
    BY <2>1, <1>1
<1>4. least \subseteq G(least)
  <2>1. G(G(least)) \subseteq G(least)
    <3> HIDE DEF G, least
    <3> QED
      BY <1>1, <1>3
  <2> QED
    BY <1>2, <2>1
<1> DEFINE f == [at \in Visit |-> at \in least]
<1>5. ASSUME NEW at \in Visit
      PROVE  f[at] = (\/ at.who = target
                      \/ /\ WithinLimit(at.depth, at.limit)
                         /\ \E link \in Choices(links, at.who, pred, now) : f[NextVisit(at, link)])
  <2>1. \A link \in Choices(links, at.who, pred, now) :
          f[NextVisit(at, link)] = (NextVisit(at, link) \in least)
    <3> HIDE DEF least
    <3> QED
      BY NextVisitType
  <2>2. at \in least <=> at \in G(least)
    <3> HIDE DEF G, least
    <3> QED
      BY <1>3, <1>4
  <2> HIDE DEF least
  <2>3. f[at] = (at \in least)
    OBVIOUS
  <2>4. at \in G(least) <=> (\/ at.who = target
                             \/ /\ WithinLimit(at.depth, at.limit)
                                /\ \E link \in Choices(links, at.who, pred, now) :
                                     NextVisit(at, link) \in least)
    BY DEF Grant
  <2> HIDE DEF f, G
  <2>5. f[at] <=> (\/ at.who = target
                 \/ /\ WithinLimit(at.depth, at.limit)
                    /\ \E link \in Choices(links, at.who, pred, now) : f[NextVisit(at, link)])
    BY <2>1, <2>2, <2>3, <2>4, Zenon
  <2> DEFINE rhs == \/ at.who = target
                    \/ /\ WithinLimit(at.depth, at.limit)
                       /\ \E link \in Choices(links, at.who, pred, now) : f[NextVisit(at, link)]
  <2>6. rhs = TRUE \/ rhs = FALSE
    OBVIOUS
  <2>7. f[at] = TRUE \/ f[at] = FALSE
    BY <2>3
  <2>8. f[at] <=> rhs
    BY <2>5
  <2>9. f[at] = rhs
    <3> HIDE DEF rhs
    <3> QED
      BY <2>6, <2>7, <2>8
  <2> QED
    BY <2>9
<1>6. IsWalk(f, links, target, pred, now)
  <2> DEFINE rhs(at) == \/ at.who = target
                       \/ /\ WithinLimit(at.depth, at.limit)
                          /\ \E link \in Choices(links, at.who, pred, now) : f[NextVisit(at, link)]
  <2>1. \A at \in Visit : f[at] = rhs(at)
    BY <1>5
  <2>2. f = [at \in Visit |-> f[at]]
    OBVIOUS
  <2>3. f = [at \in Visit |-> rhs(at)]
    <3> HIDE DEF f, rhs
    <3> QED
      BY <2>1, <2>2
  <2> QED
    BY <2>3 DEF IsWalk
<1> QED
  BY <1>6

(* Allows is a solution of its recursive definition at the first call.     *)
LEMMA AllowsIsWalk ==
  ASSUME NEW links, NEW longest, Bounded(links, longest),
         NEW speaker, NEW target, NEW pred, NEW now
  PROVE  \E f : /\ IsWalk(f, links, target, pred, now)
               /\ Allows(links, speaker, target, pred, now) = f[FirstVisit(speaker)]
<1> DEFINE f == CHOOSE g : IsWalk(g, links, target, pred, now)
<1>1. IsWalk(f, links, target, pred, now)
  BY WalkExists
<1>2. Allows(links, speaker, target, pred, now) = f[FirstVisit(speaker)]
  BY DEF Allows, IsWalk
<1> QED
  BY <1>1, <1>2

-----------------------------------------------------------------------------
(* The limit in force                                                      *)

Setters(chain, i) == {j \in 1..(i - 1) : chain[j].depth # 0}
Last(T) == CHOOSE j \in T : \A k \in T : k <= j

LEMMA LimitAsSetters ==
  ASSUME NEW chain, NEW i
  PROVE  LimitAt(chain, i) = IF Setters(chain, i) = {} THEN DefaultDepth
                             ELSE chain[Last(Setters(chain, i))].depth
BY DEF LimitAt, Setters, Last

LEMMA LastSetter ==
  ASSUME NEW chain, NEW i \in Nat \ {0}, Setters(chain, i) # {}
  PROVE  /\ Last(Setters(chain, i)) \in Setters(chain, i)
         /\ \A k \in Setters(chain, i) : k <= Last(Setters(chain, i))
<1>1. /\ Setters(chain, i) \in SUBSET Nat
      /\ \A k \in Setters(chain, i) : k <= i - 1
      /\ i - 1 \in Nat
  BY DEF Setters
<1>2. \E j \in Setters(chain, i) : \A k \in Setters(chain, i) : k <= j
  BY <1>1, GreatestNumber
<1> QED
  BY <1>2 DEF Last

LEMMA FirstLimit ==
  ASSUME NEW chain
  PROVE  LimitAt(chain, 1) = DefaultDepth
<1>1. Setters(chain, 1) = {}
  BY DEF Setters
<1> QED
  BY <1>1, LimitAsSetters

(* The walk's bookkeeping of the limit is the one a chain defines.         *)
LEMMA LimitStep ==
  ASSUME NEW chain, NEW i \in Nat \ {0}
  PROVE  LimitAt(chain, i + 1) = LimitAfter(chain[i], LimitAt(chain, i))
<1>1. CASE chain[i].depth # 0
  <2>1. i \in Setters(chain, i + 1) /\ \A k \in Setters(chain, i + 1) : k <= i
    BY <1>1 DEF Setters
  <2>2. Setters(chain, i + 1) # {} /\ i + 1 \in Nat \ {0}
    BY <2>1
  <2>3. Last(Setters(chain, i + 1)) \in Setters(chain, i + 1)
    BY <2>2, LastSetter
  <2>4. Setters(chain, i + 1) \subseteq 1..i
    BY DEF Setters
  <2>5. Last(Setters(chain, i + 1)) \in 1..i
    BY <2>3, <2>4
  <2>6. Last(Setters(chain, i + 1)) = i
    BY <2>1, <2>2, <2>5, LastSetter
  <2> QED
    BY <1>1, <2>2, <2>6, LimitAsSetters DEF LimitAfter
<1>2. CASE chain[i].depth = 0
  <2>1. Setters(chain, i + 1) = Setters(chain, i)
    BY <1>2 DEF Setters
  <2> QED
    BY <1>2, <2>1, LimitAsSetters DEF LimitAfter
<1> QED
  BY <1>1, <1>2

(* It depends only on the links before it.                                 *)
LEMMA LimitPrefix ==
  ASSUME NEW chain, NEW other, NEW i \in Nat \ {0},
         \A j \in 1..(i - 1) : chain[j] = other[j]
  PROVE  LimitAt(chain, i) = LimitAt(other, i)
<1>1. Setters(chain, i) = Setters(other, i)
  BY DEF Setters
<1>2. CASE Setters(chain, i) = {}
  BY <1>1, <1>2, LimitAsSetters
<1>3. CASE Setters(chain, i) # {}
  <2>1. Last(Setters(chain, i)) \in 1..(i - 1)
    BY <1>3, LastSetter DEF Setters
  <2>2. chain[Last(Setters(chain, i))] = other[Last(Setters(chain, i))]
    BY <2>1
  <2> QED
    BY <1>1, <1>3, <2>2, LimitAsSetters
<1> QED
  BY <1>2, <1>3

LEMMA LimitBound ==
  ASSUME NEW links, NEW longest \in Nat, DefaultDepth <= longest, Bounded(links, longest),
         NEW n \in Nat, NEW chain \in [1..n -> links], NEW i \in 1..(n + 1)
  PROVE  LimitAt(chain, i) \in Nat /\ LimitAt(chain, i) <= longest
<1>1. CASE Setters(chain, i) = {}
  BY <1>1, DelegationAssumption, LimitAsSetters
<1>2. CASE Setters(chain, i) # {}
  <2> DEFINE c == Last(Setters(chain, i))
  <2>1. c \in Setters(chain, i)
    BY <1>2, LastSetter
  <2>2. LimitAt(chain, i) = chain[c].depth
    BY <1>2, LimitAsSetters
  <2> HIDE DEF c
  <2>3. c \in 1..n
    BY <2>1 DEF Setters
  <2>4. chain[c] \in links
    BY <2>3
  <2> QED
    BY <2>2, <2>4 DEF Bounded
<1> QED
  BY <1>1, <1>2

-----------------------------------------------------------------------------
(* A chain is a walk, and a walk is a chain                                *)

LEMMA UsableIsLive ==
  ASSUME NEW link, NEW pred, NEW now
  PROVE  Usable(link, pred, now) <=> Live(link, pred, now)
BY DEF Usable, Live, ScopeAllows

(* The call made after the first n links of chain.                         *)
Reached(chain, speaker, n) ==
  [who |-> IF n = 0 THEN speaker ELSE chain[n].to, depth |-> n,
   limit |-> LimitAt(chain, n + 1)]

(* chain is one the walk may follow from speaker to its n-th link.         *)
Followed(chain, speaker, pred, now, n) ==
  \A i \in 1..n : /\ chain[i].who = Reached(chain, speaker, i - 1).who
                  /\ Usable(chain[i], pred, now)
                  /\ i - 1 <= LimitAt(chain, i)

LEMMA ReachedFirst ==
  ASSUME NEW chain, NEW speaker
  PROVE  Reached(chain, speaker, 0) = FirstVisit(speaker)
BY FirstLimit DEF Reached, FirstVisit

LEMMA ReachedNext ==
  ASSUME NEW chain, NEW speaker, NEW i \in Nat \ {0}
  PROVE  Reached(chain, speaker, i) = NextVisit(Reached(chain, speaker, i - 1), chain[i])
<1>1. LimitAt(chain, i + 1) = LimitAfter(chain[i], LimitAt(chain, i))
  BY LimitStep
<1>2. (i - 1) + 1 = i /\ i # 0
  OBVIOUS
<1> QED
  BY <1>1, <1>2 DEF Reached, NextVisit

LEMMA ReachedType ==
  ASSUME NEW links, NEW longest \in Nat, DefaultDepth <= longest, Bounded(links, longest),
         NEW speaker \in Principals,
         NEW n \in Nat, NEW chain \in [1..n -> links], NEW i \in 0..n
  PROVE  /\ Reached(chain, speaker, i) \in Visit
         /\ Reached(chain, speaker, i).limit <= longest
         /\ Reached(chain, speaker, i).depth = i
<1>1. LimitAt(chain, i + 1) \in Nat /\ LimitAt(chain, i + 1) <= longest
  <2>1. i + 1 \in 1..(n + 1)
    OBVIOUS
  <2> QED
    BY <2>1, LimitBound
<1>2. i # 0 => chain[i].to \in Principals
  BY DEF Bounded
<1> QED
  BY <1>1, <1>2 DEF Reached, Visit

LEMMA ChainLen ==
  ASSUME NEW links, NEW n \in Nat, NEW chain \in [1..n -> links]
  PROVE  Len(chain) = n /\ chain \in Seq(links)
OBVIOUS

(* IsChain in terms of what the walk follows.                              *)
LEMMA ChainAsFollowed ==
  ASSUME NEW links, NEW n \in Nat, NEW chain \in [1..n -> links],
         NEW speaker, NEW target, NEW pred, NEW now
  PROVE  IsChain(chain, speaker, target, pred, now)
           <=> /\ Followed(chain, speaker, pred, now, n)
               /\ Reached(chain, speaker, n).who = target
<1>1. Len(chain) = n
  BY ChainLen
<1>2. ASSUME IsChain(chain, speaker, target, pred, now)
      PROVE  Followed(chain, speaker, pred, now, n) /\ Reached(chain, speaker, n).who = target
  <2>1. ASSUME NEW i \in 1..n PROVE chain[i].who = Reached(chain, speaker, i - 1).who
    <3>1. CASE i = 1
      BY <1>1, <1>2, <3>1 DEF IsChain, Reached
    <3>2. CASE i # 1
      <4>1. i - 1 \in 1..(n - 1) /\ (i - 1) + 1 = i /\ i - 1 # 0
        BY <3>2
      <4>2. chain[i - 1].to = chain[i].who
        BY <1>1, <1>2, <4>1 DEF IsChain
      <4> QED
        BY <4>1, <4>2 DEF Reached
    <3> QED
      BY <3>1, <3>2
  <2>2. \A i \in 1..n : Usable(chain[i], pred, now) /\ i - 1 <= LimitAt(chain, i)
    BY <1>1, <1>2 DEF IsChain
  <2>3. Reached(chain, speaker, n).who = target
    BY <1>1, <1>2 DEF IsChain, Reached
  <2> QED
    BY <2>1, <2>2, <2>3 DEF Followed
<1>3. ASSUME Followed(chain, speaker, pred, now, n), Reached(chain, speaker, n).who = target
      PROVE  IsChain(chain, speaker, target, pred, now)
  <2>1. n # 0 => chain[1].who = speaker
    BY <1>3 DEF Followed, Reached
  <2>2. IF n = 0 THEN speaker = target ELSE chain[n].to = target
    BY <1>3 DEF Reached
  <2>3. ASSUME NEW i \in 1..(n - 1) PROVE chain[i].to = chain[i + 1].who
    <3>1. i + 1 \in 1..n /\ (i + 1) - 1 = i /\ i # 0
      OBVIOUS
    <3>2. chain[i + 1].who = Reached(chain, speaker, i).who
      BY <1>3, <3>1 DEF Followed
    <3> QED
      BY <3>1, <3>2 DEF Reached
  <2>4. \A i \in 1..n : Usable(chain[i], pred, now) /\ i - 1 <= LimitAt(chain, i)
    BY <1>3 DEF Followed
  <2> QED
    BY <1>1, <2>1, <2>2, <2>3, <2>4 DEF IsChain
<1> QED
  BY <1>2, <1>3

(* What a walk that reaches the end of a followed chain grants, it grants  *)
(* at the start.                                                           *)
LEMMA FollowedGrants ==
  ASSUME NEW links, NEW longest \in Nat, DefaultDepth <= longest, Bounded(links, longest),
         NEW speaker \in Principals, NEW target, NEW pred, NEW now,
         NEW f, IsWalk(f, links, target, pred, now),
         NEW n \in Nat, NEW chain \in [1..n -> links],
         Followed(chain, speaker, pred, now, n), f[Reached(chain, speaker, n)]
  PROVE  f[FirstVisit(speaker)]
<1> DEFINE T == {i \in 0..n : f[Reached(chain, speaker, i)]}
<1>1. n \in T /\ T \in SUBSET Nat
  OBVIOUS
<1>2. PICK m \in T : \A k \in T : m <= k
  <2> HIDE DEF T
  <2> QED
    BY <1>1, LeastNumber
<1>3. m \in 0..n /\ f[Reached(chain, speaker, m)]
  OBVIOUS
<1>4. m - 1 \notin T
  <2> HIDE DEF T
  <2> QED
    BY <1>2, <1>3
<1>5. m = 0
  <2> SUFFICES ASSUME m # 0 PROVE FALSE
    OBVIOUS
  <2> DEFINE at == Reached(chain, speaker, m - 1)
             link == chain[m]
  <2>1. m \in 1..n /\ m - 1 \in 0..n /\ m \in Nat \ {0}
    BY <1>3
  <2>2. at \in Visit /\ at.depth = m - 1 /\ at.limit = LimitAt(chain, m)
    <3>1. (m - 1) + 1 = m
      BY <2>1
    <3> QED
      BY <2>1, <3>1, ReachedType DEF Reached
  <2>3. link \in links /\ link.who = at.who /\ Live(link, pred, now) /\ m - 1 <= LimitAt(chain, m)
    BY <2>1, UsableIsLive DEF Followed
  <2>4. f[NextVisit(at, link)]
    BY <1>3, <2>1, ReachedNext
  <2>5. ~ f[at]
    BY <1>4, <2>1
  <2> HIDE DEF at, link
  <2>6. link \in Choices(links, at.who, pred, now) /\ WithinLimit(at.depth, at.limit)
    BY <2>2, <2>3 DEF Choices, UsableLinks, WithinLimit
  <2> QED
    BY <2>2, <2>4, <2>5, <2>6 DEF IsWalk
<1> QED
  BY <1>3, <1>5, ReachedFirst

(* A chain that still grants can be followed further, or has arrived.      *)
LEMMA FollowedFurther ==
  ASSUME NEW links, NEW longest \in Nat, DefaultDepth <= longest, Bounded(links, longest),
         NEW speaker \in Principals, NEW target, NEW pred, NEW now,
         NEW f, IsWalk(f, links, target, pred, now),
         NEW n \in Nat, NEW chain \in [1..n -> links],
         Followed(chain, speaker, pred, now, n), f[Reached(chain, speaker, n)],
         Reached(chain, speaker, n).who # target
  PROVE  /\ n <= longest
         /\ \E longer \in [1..(n + 1) -> links] :
              Followed(longer, speaker, pred, now, n + 1) /\ f[Reached(longer, speaker, n + 1)]
<1> DEFINE at == Reached(chain, speaker, n)
<1>1. at \in Visit /\ at.limit <= longest /\ at.depth = n /\ at.limit = LimitAt(chain, n + 1)
  <2>1. n \in 0..n
    OBVIOUS
  <2> QED
    BY <2>1, ReachedType DEF Reached
<1>2. f[at] /\ at.who # target
  OBVIOUS
<1>3. PICK link \in Choices(links, at.who, pred, now) : f[NextVisit(at, link)]
  <2> HIDE DEF at
  <2> QED
    BY <1>1, <1>2 DEF IsWalk
<1>4. WithinLimit(at.depth, at.limit)
  <2> HIDE DEF at
  <2> QED
    BY <1>1, <1>2 DEF IsWalk
<1>5. n <= LimitAt(chain, n + 1) /\ n <= longest
  <2> HIDE DEF at
  <2> QED
    BY <1>1, <1>4 DEF WithinLimit, Visit
<1>6. link \in links /\ link.who = at.who /\ Usable(link, pred, now)
  BY <1>3, UsableIsLive DEF Choices, UsableLinks
<1> DEFINE longer == [i \in 1..(n + 1) |-> IF i = n + 1 THEN link ELSE chain[i]]
<1>7. longer \in [1..(n + 1) -> links]
  BY <1>6
<1>8. longer[n + 1] = link /\ \A i \in 1..n : longer[i] = chain[i]
  OBVIOUS
<1> HIDE DEF longer
<1>9. \A i \in 1..(n + 1) : LimitAt(longer, i) = LimitAt(chain, i)
  <2> TAKE i \in 1..(n + 1)
  <2>1. i \in Nat \ {0} /\ \A j \in 1..(i - 1) : longer[j] = chain[j]
    BY <1>8
  <2> QED
    BY <2>1, LimitPrefix
<1>10. \A i \in 0..n : Reached(longer, speaker, i) = Reached(chain, speaker, i)
  BY <1>8, <1>9 DEF Reached
<1>11. Followed(longer, speaker, pred, now, n + 1)
  <2> SUFFICES ASSUME NEW i \in 1..(n + 1)
               PROVE  /\ longer[i].who = Reached(longer, speaker, i - 1).who
                      /\ Usable(longer[i], pred, now)
                      /\ i - 1 <= LimitAt(longer, i)
    BY DEF Followed
  <2>1. Reached(longer, speaker, i - 1) = Reached(chain, speaker, i - 1)
    BY <1>10
  <2>2. CASE i = n + 1
    <3>1. i - 1 = n
      BY <2>2
    <3> QED
      BY <1>5, <1>6, <1>8, <1>9, <2>1, <2>2, <3>1
  <2>3. CASE i \in 1..n
    BY <1>8, <1>9, <2>1, <2>3 DEF Followed
  <2> QED
    BY <2>2, <2>3
<1>12. Reached(longer, speaker, n + 1) = NextVisit(at, link)
  <2>1. n + 1 \in Nat \ {0} /\ (n + 1) - 1 = n
    OBVIOUS
  <2>2. Reached(longer, speaker, n) = at
    BY <1>10
  <2> HIDE DEF at
  <2> QED
    BY <1>8, <2>1, <2>2, ReachedNext
<1>13. f[Reached(longer, speaker, n + 1)]
  BY <1>3, <1>12
<1> QED
  BY <1>5, <1>7, <1>11, <1>13

(* A granted question has a chain.                                         *)
LEMMA GrantFollowed ==
  ASSUME NEW links, NEW longest \in Nat, DefaultDepth <= longest, Bounded(links, longest),
         NEW speaker \in Principals, NEW target, NEW pred, NEW now,
         NEW f, IsWalk(f, links, target, pred, now), f[FirstVisit(speaker)]
  PROVE  \E n \in 0..(longest + 1) : \E chain \in [1..n -> links] :
           Followed(chain, speaker, pred, now, n) /\ Reached(chain, speaker, n).who = target
<1> DEFINE P(n) == \E chain \in [1..n -> links] :
                    Followed(chain, speaker, pred, now, n) /\ f[Reached(chain, speaker, n)]
           T == {n \in 0..(longest + 1) : P(n)}
<1>1. 0 \in T
  <2> DEFINE none == [i \in 1..0 |-> i]
  <2>1. none \in [1..0 -> links]
    OBVIOUS
  <2> HIDE DEF none
  <2>2. Followed(none, speaker, pred, now, 0)
    BY DEF Followed
  <2>3. f[Reached(none, speaker, 0)]
    BY ReachedFirst
  <2>4. P(0)
    BY <2>1, <2>2, <2>3
  <2>5. 0 \in 0..(longest + 1)
    OBVIOUS
  <2> HIDE DEF P
  <2> QED
    BY <2>4, <2>5
<1>2. T \in SUBSET Nat /\ longest + 1 \in Nat /\ \A n \in T : n <= longest + 1
  OBVIOUS
<1>3. PICK n \in T : \A k \in T : k <= n
  <2> HIDE DEF T
  <2> QED
    BY <1>1, <1>2, GreatestNumber
<1>4. PICK chain \in [1..n -> links] :
        Followed(chain, speaker, pred, now, n) /\ f[Reached(chain, speaker, n)]
  OBVIOUS
<1>5. n \in 0..(longest + 1) /\ n \in Nat
  <2> HIDE DEF P
  <2> QED
    OBVIOUS
<1>6. Reached(chain, speaker, n).who = target
  <2> SUFFICES ASSUME Reached(chain, speaker, n).who # target PROVE FALSE
    OBVIOUS
  <2>1. n <= longest /\ P(n + 1)
    BY <1>4, <1>5, FollowedFurther
  <2>2. n + 1 \in T
    <3> HIDE DEF P
    <3> QED
      BY <1>5, <2>1
  <2> HIDE DEF T
  <2> QED
    BY <1>3, <1>5, <2>2
<1> QED
  BY <1>4, <1>5, <1>6

LEMMA ChainsOfLength ==
  ASSUME NEW links, NEW longest, NEW chain
  PROVE  chain \in ChainsOver(links, longest)
           <=> \E n \in 0..(longest + 1) : chain \in [1..n -> links]
<1> DEFINE L == 0..(longest + 1)
<1>1. ChainsOver(links, longest) = UNION {[1..n -> links] : n \in L}
  BY DEF ChainsOver
<1> HIDE DEF L
<1>2. chain \in UNION {[1..n -> links] : n \in L} <=> \E n \in L : chain \in [1..n -> links]
  BY Zenon
<1> QED
  BY <1>1, <1>2 DEF L

-----------------------------------------------------------------------------
(* What etb_delegation_visit grants                                        *)

(* The walk of etb_delegation_visit, whatever links are stored and however *)
(* they cross: it grants a reading of speaker as target exactly when there *)
(* is a chain of usable links, each within the limit in force there.       *)
THEOREM WalkIffChain ==
  ASSUME NEW links, NEW longest \in Nat, DefaultDepth <= longest, Bounded(links, longest),
         NEW speaker \in Principals, NEW target, NEW pred, NEW now
  PROVE  Allows(links, speaker, target, pred, now)
           <=> \E chain \in ChainsOver(links, longest) : IsChain(chain, speaker, target, pred, now)
<1>1. PICK f : /\ IsWalk(f, links, target, pred, now)
               /\ Allows(links, speaker, target, pred, now) = f[FirstVisit(speaker)]
  BY AllowsIsWalk
<1>2. ASSUME f[FirstVisit(speaker)]
      PROVE  \E chain \in ChainsOver(links, longest) : IsChain(chain, speaker, target, pred, now)
  <2>1. PICK n \in 0..(longest + 1) : \E chain \in [1..n -> links] :
          Followed(chain, speaker, pred, now, n) /\ Reached(chain, speaker, n).who = target
    BY <1>1, <1>2, GrantFollowed
  <2>2. PICK chain \in [1..n -> links] :
          Followed(chain, speaker, pred, now, n) /\ Reached(chain, speaker, n).who = target
    BY <2>1
  <2>3. IsChain(chain, speaker, target, pred, now)
    <3>1. n \in Nat
      OBVIOUS
    <3> QED
      BY <2>2, <3>1, ChainAsFollowed
  <2>4. chain \in ChainsOver(links, longest)
    BY ChainsOfLength
  <2> QED
    BY <2>3, <2>4
<1>3. ASSUME NEW chain \in ChainsOver(links, longest), IsChain(chain, speaker, target, pred, now)
      PROVE  f[FirstVisit(speaker)]
  <2>1. PICK n \in 0..(longest + 1) : chain \in [1..n -> links]
    BY ChainsOfLength
  <2>2. Followed(chain, speaker, pred, now, n) /\ Reached(chain, speaker, n).who = target
    <3>1. n \in Nat
      OBVIOUS
    <3> QED
      BY <1>3, <2>1, <3>1, ChainAsFollowed
  <2>3. n \in 0..n
    OBVIOUS
  <2>4. Reached(chain, speaker, n) \in Visit
    BY <2>1, <2>3, ReachedType
  <2>5. f[Reached(chain, speaker, n)]
    BY <1>1, <2>2, <2>4 DEF IsWalk
  <2> QED
    BY <1>1, <2>1, <2>2, <2>5, FollowedGrants
<1> QED
  BY <1>1, <1>2, <1>3

(* Storing further speaks_for atoms withdraws no permission.               *)
THEOREM MoreLinksGrantMore ==
  ASSUME NEW links, NEW more, links \subseteq more,
         NEW longest \in Nat, DefaultDepth <= longest, Bounded(more, longest),
         NEW speaker \in Principals, NEW target, NEW pred, NEW now,
         Allows(links, speaker, target, pred, now)
  PROVE  Allows(more, speaker, target, pred, now)
<1>1. Bounded(links, longest)
  BY DEF Bounded
<1>2. PICK chain \in ChainsOver(links, longest) : IsChain(chain, speaker, target, pred, now)
  BY <1>1, WalkIffChain
<1>3. chain \in ChainsOver(more, longest)
  <2>1. PICK n \in 0..(longest + 1) : chain \in [1..n -> links]
    BY ChainsOfLength
  <2>2. chain \in [1..n -> more]
    BY <2>1
  <2> QED
    BY <2>2, ChainsOfLength
<1> QED
  BY <1>2, <1>3, WalkIffChain
=============================================================================
