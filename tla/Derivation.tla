----------------------------- MODULE Derivation -----------------------------
(***************************************************************************)
(* What an engine promises about the atoms it stores, with no clause order, *)
(* no passes and no trace: the known atoms only grow, and each atom that   *)
(* joins them is a consequence of the program and of atoms known before    *)
(* it, at the engine's clock, or the answer of an imported certificate.    *)
(***************************************************************************)
EXTENDS Datalog

CONSTANTS Programs, Clocks, Importable, AdapterTuples

VARIABLES program, now, known

Init == program \in Programs /\ now \in Clocks /\ known = {}

Derive ==
  /\ known \subseteq known'
  /\ known' \subseteq known \cup Consequences(program, known, AdapterTuples, now)
  /\ UNCHANGED <<program, now>>

Admit ==
  /\ \E atom \in Importable : known' = known \cup {atom}
  /\ UNCHANGED <<program, now>>

Next == Derive \/ Admit

Spec == Init /\ [][Next]_<<program, now, known>>
=============================================================================
