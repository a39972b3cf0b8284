------------------------------- MODULE Channel -------------------------------
(***************************************************************************)
(* What one call over a connection promises (etb_send_request and           *)
(* etb_handle_client, src/runtime/distributed.c): the other side gets the   *)
(* message that was sent, or, if the connection broke, the call fails; it   *)
(* never gets a part of it or another one, and one of the two happens.      *)
(* Query and Registry exchange messages in this way.                        *)
(***************************************************************************)
CONSTANTS
  Messages,
  Meaning(_),  \* what a message says to the one who gets it
  Idle, Pending, Lost

VARIABLES sent, outcome, broken

vars == <<sent, outcome, broken>>

Init == sent = Idle /\ outcome = Idle /\ broken = FALSE

Send ==
  /\ outcome = Idle
  /\ sent' \in Messages
  /\ outcome' = Pending
  /\ UNCHANGED broken

Break == outcome = Pending /\ broken' = TRUE /\ UNCHANGED <<sent, outcome>>

Deliver == outcome = Pending /\ outcome' = Meaning(sent) /\ UNCHANGED <<sent, broken>>
Lose == outcome = Pending /\ broken /\ outcome' = Lost /\ UNCHANGED <<sent, broken>>

Next == Send \/ Break \/ Deliver \/ Lose

Safety == Init /\ [][Next]_vars
Spec == Safety /\ WF_vars(Deliver \/ Lose)

=============================================================================
