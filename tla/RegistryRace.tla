---------------------------- MODULE RegistryRace ----------------------------
(***************************************************************************)
(* Registry with a history variable that tells whether two processes of a  *)
(* node ever changed its file at the same time.                            *)
(***************************************************************************)
EXTENDS Registry

VARIABLE raced  \* processes of a node changed its file at the same time

(* Two processes of a node have both read its file and not written it.     *)
Racing == \E p, q \in Procs : /\ p # q /\ save[p].at = save[q].at
                              /\ save[p].phase \in {"truncate", "write"}
                              /\ save[q].phase \in {"truncate", "write"}

WatchedSpec == /\ Init /\ raced = FALSE
               /\ [][Next /\ raced' = (raced \/ Racing')]_<<vars, raced>>

(* It takes a race to lose one: without, everything announced arrived and  *)
(* stays, though other processes read, save and answer in between.         *)
ConvergesUnlessRaced == RegistryConverges \/ raced
=============================================================================
