------------------------------- MODULE Chains -------------------------------
(***************************************************************************)
(* What a delegation is, read without recursion: a chain of links from the *)
(* speaker to the target. The walk of etb_delegation_visit, Allows in      *)
(* Delegation, is held to this.                                            *)
(***************************************************************************)
EXTENDS Delegation, Sequences

(* The link in position i of a chain is followed at depth i - 1, which     *)
(* must be within the limit set by the nearest earlier link with a depth   *)
(* attribute, or within the default when there is none.                    *)
LimitAt(chain, i) ==
  LET setters == {j \in 1..(i - 1) : chain[j].depth # 0}
  IN  IF setters = {} THEN DefaultDepth
      ELSE chain[CHOOSE j \in setters : \A k \in setters : k <= j].depth

(* The attributes read afresh: when a link counts at all.                  *)
Usable(link, pred, now) ==
  /\ link.expires # 0 => now <= link.expires
  /\ link.scope # AnyScope => <<link.scope, pred>> \in Covers

IsChain(chain, speaker, target, pred, now) ==
  LET n == Len(chain) IN
  /\ IF n = 0 THEN speaker = target
              ELSE chain[1].who = speaker /\ chain[n].to = target
  /\ \A i \in 1..(n - 1) : chain[i].to = chain[i + 1].who
  /\ \A i \in 1..n : Usable(chain[i], pred, now) /\ i - 1 <= LimitAt(chain, i)

(* No limit exceeds longest, so a chain has at most one link more.         *)
ChainsOver(links, longest) == UNION {[1..n -> links] : n \in 0..(longest + 1)}
=============================================================================
