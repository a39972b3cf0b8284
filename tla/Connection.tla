------------------------------ MODULE Connection ------------------------------
(***************************************************************************)
(* One message over a connection (src/runtime/distributed.c): its length    *)
(* in four bytes, then its bytes. write() and read() move as much as they   *)
(* like at a time, and the connection may break, or the writer die, between *)
(* any two of them.                                                         *)
(***************************************************************************)
EXTENDS Wire

CONSTANTS
  Messages,  \* requests and responses
  Chunks,    \* bound: how many bytes one write or one read may move
  Idle, Pending, Lost

VARIABLES
  sent,      \* the message of the call
  left,      \* the bytes of it still to write
  pipe,      \* the bytes written and not yet read
  have,      \* the bytes read
  cut,       \* whether the connection is broken
  outcome    \* what the reader makes of the call

vars == <<sent, left, pipe, have, cut, outcome>>

IsRequest(m) == "op" \in DOMAIN m

Payload(m) == IF IsRequest(m) THEN WriteRequest(m) ELSE WriteResponse(m)
ReadBack(m, bytes) == IF IsRequest(m) THEN ReadRequest(bytes) ELSE ReadResponse(bytes)

\* What a message says to the one who gets it: routes that are not publishable
\* are not written.
Meaning(m) == [m EXCEPT !.routes = SelectSeq(m.routes, Publishable)]

ASSUME ConnectionAssumption ==
  /\ Chunks \subseteq Nat \ {0}
  /\ Idle # Pending /\ Idle # Lost /\ Pending # Lost
  /\ \A m \in Messages : Meaning(m) \notin {Idle, Pending}

\* The length of the message, or what four bytes keep of it.
Framed(m) == DigitsOf(Len(Payload(m)), 4) \o Payload(m)

\* Slip: the length is taken to count the header.
NeedShort ==
  IF Len(have) < 4 THEN 4 - Len(have)
  ELSE NumberOf(SubSeq(have, 1, 4)) - Len(have)

\* How many bytes the reader still waits for.
Need ==
  IF Len(have) < 4 THEN 4 - Len(have)
  ELSE 4 + NumberOf(SubSeq(have, 1, 4)) - Len(have)

Decoded == ReadBack(sent, SubSeq(have, 5, Len(have)))

Init ==
  /\ sent = Idle /\ outcome = Idle
  /\ left = <<>> /\ pipe = <<>> /\ have = <<>> /\ cut = FALSE

Send(m) ==
  /\ outcome = Idle
  /\ sent' = m /\ left' = Framed(m) /\ outcome' = Pending
  /\ UNCHANGED <<pipe, have, cut>>

Write ==
  /\ outcome = Pending /\ ~cut /\ left # <<>>
  /\ \E c \in Chunks : LET n == Min2(c, Len(left)) IN
       /\ pipe' = pipe \o SubSeq(left, 1, n)
       /\ left' = SubSeq(left, n + 1, Len(left))
  /\ UNCHANGED <<sent, have, cut, outcome>>

Receive ==
  /\ outcome = Pending /\ pipe # <<>> /\ Need > 0
  /\ \E c \in Chunks : LET n == Min2(c, Min2(Need, Len(pipe))) IN
       /\ have' = have \o SubSeq(pipe, 1, n)
       /\ pipe' = SubSeq(pipe, n + 1, Len(pipe))
  /\ UNCHANGED <<sent, left, cut, outcome>>

\* The writer dies and what it wrote can still be read, or the connection is
\* reset and the bytes on their way are gone.
Break ==
  /\ outcome = Pending /\ ~cut
  /\ cut' = TRUE
  /\ pipe' \in {pipe, <<>>}
  /\ UNCHANGED <<sent, left, have, outcome>>

Accept ==
  /\ outcome = Pending /\ Need = 0
  /\ outcome' = IF Decoded.at = 0 THEN Lost ELSE Decoded.val
  /\ UNCHANGED <<sent, left, pipe, have, cut>>

\* read() returns 0 or an error before the message is complete.
GiveUp ==
  /\ outcome = Pending /\ cut /\ pipe = <<>> /\ Need > 0
  /\ outcome' = Lost
  /\ UNCHANGED <<sent, left, pipe, have, cut>>

Transfer == Write \/ Receive \/ Accept \/ GiveUp

Next == (\E m \in Messages : Send(m)) \/ Transfer \/ Break

\* Both sides read and write in loops: neither stops of itself.
Spec == Init /\ [][Next]_vars /\ WF_vars(Transfer)

-----------------------------------------------------------------------------
\* Types; what the reader makes of a call is a message or a failure.
TypeOK ==
  /\ sent \in Messages \cup {Idle} /\ cut \in BOOLEAN
  /\ outcome \in {Idle, Pending, Lost} \cup {Meaning(m) : m \in Messages}

Chan == INSTANCE Channel WITH broken <- cut

\* A call implements the abstract channel: whatever is moved by one write and
\* one read, the reader ends with the message, without the routes that are
\* not publishable, or, only if the connection broke, with a failure
\* (etb_send_message, etb_recv_message and the pairs of encoders and decoders,
\* distributed.c 500-532 and 809-1368).
ArrivesWholeOrFails == Chan!Spec
=============================================================================
