----------------------------- MODULE LinksProofs -----------------------------
(***************************************************************************)
(* The delegations an engine holds as speaks_for atoms are stored: proofs  *)
(* for every number of principals, links, scopes and depth attributes.     *)
(***************************************************************************)
EXTENDS Links, DelegationProofs

LInv ==
  /\ universe \in Universes
  /\ links \subseteq universe.links
  /\ now \in Clocks

LEMMA LInvHolds == Spec => []LInv
<1>1. Init => LInv
  BY DEF Init, LInv
<1>2. LInv /\ [Next]_vars => LInv'
  BY DEF LInv, Next, AddLink, vars
<1> QED
  BY <1>1, <1>2, PTL DEF Spec

LEMMA UniverseBounded ==
  ASSUME NEW u \in Universes, NEW ls \in SUBSET u.links
  PROVE  Bounded(ls, LongestLimit)
<1>1. u.links \subseteq Link
  BY LinksAssumption DEF Universe
<1> QED
  BY <1>1, LinksAssumption DEF Bounded, Link

LEMMA AskedOfPrincipals ==
  ASSUME LInv, NEW q \in Asked
  PROVE  q[1] \in Principals /\ q[2] \in Principals /\ q[3] \in Predicates
<1>1. universe.links \subseteq Link
  BY LinksAssumption DEF LInv, Universe
<1>2. Ends \subseteq Principals
  BY <1>1 DEF Ends, Link
<1> QED
  BY <1>2 DEF Asked

(* In every state of a growing set of speaks_for atoms, what the walk of   *)
(* etb_delegation_visit grants is what a chain of usable links grants.     *)
THEOREM LinksAllowsIffChain == Spec => []AllowsIffChain
<1>1. LInv => AllowsIffChain
  <2> SUFFICES ASSUME LInv, NEW q \in Asked
               PROVE  Allows(links, q[1], q[2], q[3], now)
                        <=> \E chain \in ChainsOver(links, LongestLimit) :
                              IsChain(chain, q[1], q[2], q[3], now)
    BY DEF AllowsIffChain
  <2>1. Bounded(links, LongestLimit)
    BY UniverseBounded DEF LInv
  <2>2. q[1] \in Principals
    BY AskedOfPrincipals
  <2> QED
    BY <2>1, <2>2, WalkIffChain, LinksAssumption
<1> QED
  BY <1>1, LInvHolds, PTL

(* Storing a speaks_for atom withdraws no permission given before it.      *)
THEOREM LinksGrantsOnlyGrow == Spec => GrantsOnlyGrow
<1>1. LInv /\ LInv' /\ [Next]_vars => Granted(links) \subseteq Granted(links')
  <2> SUFFICES ASSUME LInv, LInv', [Next]_vars, NEW q \in Granted(links)
               PROVE  q \in Granted(links')
    OBVIOUS
  <2>1. links \subseteq links'
    BY DEF Next, AddLink, vars
  <2>2. q \in Asked /\ Allows(links, q[1], q[2], q[3], now)
    BY DEF Granted
  <2>3. Bounded(links', LongestLimit)
    <3>1. universe' \in Universes /\ links' \in SUBSET universe'.links
      BY DEF LInv
    <3> QED
      BY <3>1, UniverseBounded
  <2>4. q[1] \in Principals
    BY <2>2, AskedOfPrincipals
  <2>5. Allows(links', q[1], q[2], q[3], now)
    BY <2>1, <2>2, <2>3, <2>4, MoreLinksGrantMore, LinksAssumption
  <2> QED
    BY <2>2, <2>5 DEF Granted
<1>2. LInv /\ LInv' /\ [Next]_vars => [Granted(links) \subseteq Granted(links')]_vars
  BY <1>1
<1> QED
  BY <1>2, LInvHolds, PTL DEF Spec, GrantsOnlyGrow
=============================================================================
