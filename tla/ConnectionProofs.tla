--------------------------- MODULE ConnectionProofs ---------------------------
(***************************************************************************)
(* Theorems about Connection: when every message is read back from its own *)
(* bytes, framing delivers it whole or fails, however writes and reads cut  *)
(* it up and wherever the connection breaks; and it does so in a bounded   *)
(* number of them, and until then is never stuck.                          *)
(***************************************************************************)
EXTENDS Connection, SequenceTheorems, TLAPS

Header(m) == DigitsOf(Len(Payload(m)), 4)

(* What the bytes of m are.                                                *)
BytesOf(m) == {Payload(m)[k] : k \in DOMAIN Payload(m)} \cup {Header(m)[k] : k \in 1..4}

(* The encoders and decoders of whole messages are inverse up to routes    *)
(* that are not published, and four bytes hold the length.                 *)
CodecRoundTrips ==
  \A m \in Messages :
    /\ Payload(m) \in Seq(BytesOf(m))
    /\ NumberOf(Header(m)) = Len(Payload(m))
    /\ ReadBack(m, Payload(m)).at # 0 /\ ReadBack(m, Payload(m)).val = Meaning(m)

(* A call under way: what was read, what is on its way and what is lost or *)
(* still to write are the framed message, in this order.                   *)
Carried ==
  /\ {have, pipe, left} \subseteq Seq(BytesOf(sent))
  /\ \E rest \in Seq(BytesOf(sent)) :
       /\ Framed(sent) = have \o (pipe \o rest)
       /\ ~cut => rest = left

IInv ==
  /\ TypeOK
  /\ outcome = Idle => have = <<>> /\ pipe = <<>> /\ cut = FALSE
  /\ outcome = Pending => sent \in Messages /\ Carried

-----------------------------------------------------------------------------
(* Two parts of a sequence, one after the other, are the sequence.         *)
LEMMA Split ==
  ASSUME NEW S, NEW s \in Seq(S), NEW n \in 0..Len(s)
  PROVE  /\ SubSeq(s, 1, n) \in Seq(S) /\ SubSeq(s, n + 1, Len(s)) \in Seq(S)
         /\ Len(SubSeq(s, 1, n)) = n
         /\ SubSeq(s, 1, n) \o SubSeq(s, n + 1, Len(s)) = s
<1>1. Len(s) \in Nat /\ n \in Int /\ \A i \in 1..Len(s) : s[i] \in S
  OBVIOUS
<1>2. SubSeq(s, 1, n) \in Seq(S) /\ Len(SubSeq(s, 1, n)) = n
  BY <1>1, SubSeqProperties
<1>3. SubSeq(s, n + 1, Len(s)) \in Seq(S)
  BY <1>1, SubSeqProperties
<1>4. SubSeq(s, 1, n) \o SubSeq(s, n + 1, Len(s)) = SubSeq(s, 1, Len(s))
  <2>1. 1 \in 1 .. Len(s) + 1 /\ n \in (1 - 1) .. Len(s) /\ Len(s) \in n .. Len(s)
    BY <1>1
  <2> QED BY <2>1, ConcatAdjacentSubSeq
<1> QED BY <1>2, <1>3, <1>4, SubSeqFull

(* A part behind one that is known.                                        *)
LEMMA Behind ==
  ASSUME NEW S, NEW a \in Seq(S), NEW b \in Seq(S)
  PROVE  /\ a # <<>> => SubSeq(a \o b, 1, Len(a)) = a
         /\ b # <<>> => SubSeq(a \o b, Len(a) + 1, Len(a \o b)) = b
<1>1. Len(a) \in Nat /\ Len(b) \in Nat /\ Len(a \o b) = Len(a) + Len(b)
  BY ConcatProperties
<1>2. ASSUME a # <<>> PROVE SubSeq(a \o b, 1, Len(a)) = a
  <2>1. Len(a) >= 1
    BY <1>1, <1>2, EmptySeq
  <2> QED BY <1>1, <2>1, SubSeqOfConcat1, SubSeqFull
<1>3. ASSUME b # <<>> PROVE SubSeq(a \o b, Len(a) + 1, Len(a \o b)) = b
  <2>1. Len(b) >= 1
    BY <1>1, <1>3, EmptySeq
  <2>2. SubSeq(a \o b, Len(a) + 1, Len(a) + Len(b)) = SubSeq(b, (Len(a) + 1) - Len(a), (Len(a) + Len(b)) - Len(a))
    BY <1>1, <2>1, SubSeqOfConcat2
  <2>3. (Len(a) + 1) - Len(a) = 1 /\ (Len(a) + Len(b)) - Len(a) = Len(b)
    BY <1>1
  <2> QED BY <1>1, <2>2, <2>3, SubSeqFull
<1> QED BY <1>2, <1>3

LEMMA FramedSeq ==
  ASSUME CodecRoundTrips, NEW m \in Messages
  PROVE  /\ Header(m) \in Seq(BytesOf(m)) /\ Len(Header(m)) = 4
         /\ Payload(m) \in Seq(BytesOf(m)) /\ Len(Payload(m)) \in Nat
         /\ Framed(m) = Header(m) \o Payload(m) /\ Framed(m) \in Seq(BytesOf(m))
         /\ Len(Framed(m)) = 4 + Len(Payload(m))
<1>1. Header(m) \in Seq(BytesOf(m)) /\ Len(Header(m)) = 4
  <2>1. Header(m) = [k \in 1..4 |-> Header(m)[k]]
    BY DEF Header, DigitsOf
  <2>2. \A k \in 1..4 : Header(m)[k] \in BytesOf(m)
    BY DEF BytesOf
  <2> DEFINE h == Header(m)
             S == BytesOf(m)
  <2>3. h = [k \in 1..4 |-> h[k]] /\ \A k \in 1..4 : h[k] \in S
    BY <2>1, <2>2
  <2> HIDE DEF h, S
  <2>5. h \in Seq(S) /\ Len(h) = 4
    BY <2>3
  <2> QED BY <2>5 DEF h, S
<1>2. Payload(m) \in Seq(BytesOf(m))
  BY DEF CodecRoundTrips
<1> DEFINE S == BytesOf(m)
           h == Header(m)
           p == Payload(m)
<1>3. h \in Seq(S) /\ Len(h) = 4 /\ p \in Seq(S)
  BY <1>1, <1>2
<1> HIDE DEF h, p, S
<1>4. h \o p \in Seq(S) /\ Len(h \o p) = Len(h) + Len(p) /\ Len(p) \in Nat
  BY <1>3, ConcatProperties, LenProperties
<1>5. Framed(m) = h \o p
  BY DEF Framed, Header, h, p
<1>6. Len(h \o p) = 4 + Len(p)
  BY <1>3, <1>4
<1> QED BY <1>3, <1>4, <1>5, <1>6 DEF h, p, S

(* What is read so far fits the message: the reader waits for what is      *)
(* missing of it and for no more.                                          *)
LEMMA Waiting ==
  ASSUME CodecRoundTrips, IInv, outcome = Pending
  PROVE  /\ Len(have) \in Nat /\ Need \in Int /\ Need >= 0
         /\ have = Framed(sent) => Need = 0
         /\ Need = 0 => SubSeq(have, 5, Len(have)) = Payload(sent)
<1> DEFINE S == BytesOf(sent)
<1>1. sent \in Messages /\ have \in Seq(S) /\ pipe \in Seq(S)
  BY DEF IInv, Carried
<1>2. PICK rest \in Seq(S) : Framed(sent) = have \o (pipe \o rest)
  BY DEF IInv, Carried
<1> DEFINE coming == pipe \o rest
<1>3. coming \in Seq(S) /\ Framed(sent) = have \o coming /\ Len(have) \in Nat /\ Len(coming) \in Nat
  BY <1>1, <1>2, ConcatProperties
<1>4. /\ Header(sent) \in Seq(S) /\ Len(Header(sent)) = 4 /\ Payload(sent) \in Seq(S)
      /\ Len(Payload(sent)) \in Nat /\ Framed(sent) = Header(sent) \o Payload(sent)
      /\ Framed(sent) \in Seq(S) /\ Len(Framed(sent)) = 4 + Len(Payload(sent))
  BY <1>1, FramedSeq
<1> HIDE DEF coming, S
<1>5. Len(have) + Len(coming) = 4 + Len(Payload(sent))
  <2>1. Len(have \o coming) = Len(have) + Len(coming)
    BY <1>1, <1>3, ConcatProperties
  <2> QED BY <1>3, <1>4, <2>1
<1>6. CASE Len(have) < 4
  <2>1. Need = 4 - Len(have)
    BY <1>6 DEF Need
  <2>2. Len(have) \in Nat /\ Need \in Int /\ Need > 0
    BY <1>3, <1>6, <2>1
  <2>3. Need >= 0 /\ Need # 0
    BY <2>2
  <2>4. have # Framed(sent)
    BY <1>4, <1>6
  <2> QED BY <2>2, <2>3, <2>4
<1>7. CASE Len(have) >= 4
  <2>1. SubSeq(have, 1, 4) = Header(sent)
    <3>1. SubSeq(Header(sent) \o Payload(sent), 1, 4) = Header(sent)
      BY <1>4, SubSeqOfConcat1, SubSeqFull
    <3>2. SubSeq(have \o coming, 1, 4) = SubSeq(have, 1, 4)
      BY <1>1, <1>3, <1>7, SubSeqOfConcat1
    <3> QED BY <1>3, <1>4, <3>1, <3>2
  <2>2. Need = (4 + Len(Payload(sent))) - Len(have)
    <3>1. NumberOf(SubSeq(have, 1, 4)) = Len(Payload(sent))
      BY <1>1, <2>1 DEF CodecRoundTrips
    <3>2. Need = 4 + NumberOf(SubSeq(have, 1, 4)) - Len(have)
      <4>1. ~(Len(have) < 4)
        BY <1>3, <1>7
      <4> QED BY Zenon, <4>1 DEF Need
    <3> QED BY <3>1, <3>2
  <2>3. ASSUME Need = 0 PROVE SubSeq(have, 5, Len(have)) = Payload(sent)
    <3>1. Len(coming) = 0 /\ Len(have) = 4 + Len(Payload(sent))
      BY <1>3, <1>4, <1>5, <2>2, <2>3
    <3>2. have = Header(sent) \o Payload(sent)
      BY <1>1, <1>3, <1>4, <3>1, EmptySeq, ConcatEmptySeq
    <3>3. CASE Payload(sent) # <<>>
      BY <1>4, <3>1, <3>2, <3>3, Behind
    <3>4. CASE Payload(sent) = <<>>
      <4>1. Len(have) = 4
        BY <3>1, <3>4, EmptySeq
      <4> QED BY <3>4, <4>1, SubSeqEmpty
    <3> QED BY <3>3, <3>4
  <2>4. have = Framed(sent) => Need = 0
    BY <1>3, <1>4, <2>2
  <2> QED BY <1>3, <1>4, <1>5, <2>2, <2>3, <2>4
<1> QED BY <1>3, <1>6, <1>7

(* A complete message is the one that was sent.                            *)
LEMMA AcceptDelivers ==
  ASSUME CodecRoundTrips, IInv, Accept
  PROVE  sent \in Messages /\ outcome' = Meaning(sent)
<1>1. outcome = Pending /\ Need = 0
  BY DEF Accept
<1>2. sent \in Messages /\ Decoded = ReadBack(sent, Payload(sent))
  BY <1>1, Waiting DEF Decoded, IInv
<1>3. Decoded.at # 0 /\ Decoded.val = Meaning(sent)
  BY <1>2 DEF CodecRoundTrips
<1> QED BY <1>2, <1>3 DEF Accept

-----------------------------------------------------------------------------
(* Each step keeps the invariant.                                          *)

LEMMA SendKeeps ==
  ASSUME CodecRoundTrips, IInv, NEW m \in Messages, Send(m)
  PROVE  IInv'
<1>1. /\ sent' = m /\ left' = Framed(m) /\ outcome' = Pending
      /\ have' = <<>> /\ pipe' = <<>> /\ cut' = FALSE
  BY DEF Send, IInv
<1> DEFINE S == BytesOf(m)
<1>2. Framed(m) \in Seq(S) /\ <<>> \in Seq(S)
  BY FramedSeq, EmptySeq
<1> HIDE DEF S
<1>3. Framed(m) = <<>> \o (<<>> \o Framed(m))
  BY <1>2, ConcatEmptySeq
<1>4. Carried'
  BY <1>1, <1>2, <1>3 DEF Carried, S
<1> QED BY <1>1, <1>4, ConnectionAssumption DEF IInv, TypeOK

LEMMA WriteKeeps ==
  ASSUME CodecRoundTrips, IInv, Write
  PROVE  IInv'
<1> DEFINE S == BytesOf(sent)
<1>1. outcome = Pending /\ sent \in Messages /\ ~cut
      /\ UNCHANGED <<sent, have, cut, outcome>>
  BY DEF Write, IInv
<1>2. /\ have \in Seq(S) /\ pipe \in Seq(S) /\ left \in Seq(S)
      /\ Framed(sent) = have \o (pipe \o left)
  BY <1>1 DEF IInv, Carried
<1>3. PICK c \in Chunks :
        /\ pipe' = pipe \o SubSeq(left, 1, Min2(c, Len(left)))
        /\ left' = SubSeq(left, Min2(c, Len(left)) + 1, Len(left))
  BY DEF Write
<1> HIDE DEF S
<1> DEFINE n == Min2(c, Len(left))
<1>4. n \in 0..Len(left)
  <2>1. c \in Nat /\ Len(left) \in Nat
    BY <1>2, ConnectionAssumption, LenProperties
  <2> QED BY <2>1 DEF Min2
<1>5. pipe' = pipe \o SubSeq(left, 1, n) /\ left' = SubSeq(left, n + 1, Len(left))
  BY <1>3
<1> HIDE DEF n
<1> DEFINE a == SubSeq(left, 1, n)
           b == SubSeq(left, n + 1, Len(left))
<1>6. a \in Seq(S) /\ b \in Seq(S) /\ a \o b = left
  BY <1>2, <1>4, Split
<1>7. pipe' = pipe \o a /\ left' = b
  BY <1>5
<1> HIDE DEF a, b
<1>8. /\ pipe \o a \in Seq(S) /\ pipe \o left = (pipe \o a) \o b
  <2>1. pipe \in Seq(S) /\ a \in Seq(S) /\ b \in Seq(S)
    BY <1>2, <1>6
  <2>2. pipe \o a \in Seq(S) /\ pipe \o (a \o b) = (pipe \o a) \o b
    BY <2>1, ConcatProperties, ConcatAssociative
  <2> QED BY <1>6, <2>2
<1>9. Framed(sent) = have \o ((pipe \o a) \o b)
  BY <1>2, <1>8
<1>10. Carried'
  BY <1>1, <1>2, <1>6, <1>7, <1>8, <1>9 DEF Carried, S
<1> QED BY <1>1, <1>10, ConnectionAssumption DEF IInv, TypeOK

LEMMA ReceiveKeeps ==
  ASSUME CodecRoundTrips, IInv, Receive
  PROVE  IInv'
<1> DEFINE S == BytesOf(sent)
<1>1. outcome = Pending /\ sent \in Messages /\ UNCHANGED <<sent, left, cut, outcome>>
  BY DEF Receive, IInv
<1>2. have \in Seq(S) /\ pipe \in Seq(S) /\ left \in Seq(S)
  BY <1>1 DEF IInv, Carried
<1>3. PICK rest \in Seq(S) : Framed(sent) = have \o (pipe \o rest) /\ (~cut => rest = left)
  BY <1>1 DEF IInv, Carried
<1>4. PICK c \in Chunks :
        /\ have' = have \o SubSeq(pipe, 1, Min2(c, Min2(Need, Len(pipe))))
        /\ pipe' = SubSeq(pipe, Min2(c, Min2(Need, Len(pipe))) + 1, Len(pipe))
  BY DEF Receive
<1>5. Need \in Int /\ Need >= 0
  BY <1>1, Waiting
<1> HIDE DEF S
<1> DEFINE n == Min2(c, Min2(Need, Len(pipe)))
<1>6. n \in 0..Len(pipe)
  <2>1. c \in Nat /\ Len(pipe) \in Nat
    BY <1>2, ConnectionAssumption, LenProperties
  <2> QED BY <1>5, <2>1 DEF Min2
<1>7. have' = have \o SubSeq(pipe, 1, n) /\ pipe' = SubSeq(pipe, n + 1, Len(pipe))
  BY <1>4
<1> HIDE DEF n
<1> DEFINE a == SubSeq(pipe, 1, n)
           b == SubSeq(pipe, n + 1, Len(pipe))
<1>8. a \in Seq(S) /\ b \in Seq(S) /\ a \o b = pipe
  BY <1>2, <1>6, Split
<1>9. have' = have \o a /\ pipe' = b
  BY <1>7
<1> HIDE DEF a, b
<1>10. have \o a \in Seq(S) /\ Framed(sent) = (have \o a) \o (b \o rest)
  <2>1. have \o a \in Seq(S)
    BY <1>2, <1>8, ConcatProperties
  <2>2. have \o ((a \o b) \o rest) = (have \o a) \o (b \o rest)
    <3>1. have \in Seq(S) /\ a \in Seq(S) /\ b \in Seq(S) /\ rest \in Seq(S)
      BY <1>2, <1>3, <1>8
    <3>2. (a \o b) \o rest = a \o (b \o rest)
      BY <3>1, ConcatAssociative
    <3> DEFINE d == b \o rest
    <3>3. d \in Seq(S)
      BY <3>1, ConcatProperties
    <3> HIDE DEF d
    <3>4. (have \o a) \o d = have \o (a \o d)
      <4>1. have \in Seq(S) /\ a \in Seq(S) /\ d \in Seq(S)
        BY <3>1, <3>3
      <4> QED BY <4>1, ConcatAssociative
    <3> QED BY <3>2, <3>4 DEF d
  <2> QED BY <1>3, <1>8, <2>1, <2>2
<1>11. Carried'
  BY <1>1, <1>2, <1>3, <1>8, <1>9, <1>10 DEF Carried, S
<1> QED BY <1>1, <1>11, ConnectionAssumption DEF IInv, TypeOK

(* When what is on its way is lost, it joins what is not written.          *)
LEMMA BreakKeeps ==
  ASSUME IInv, Break
  PROVE  IInv'
<1> DEFINE S == BytesOf(sent)
<1>1. /\ outcome = Pending /\ sent \in Messages /\ cut' = TRUE
      /\ UNCHANGED <<sent, left, have, outcome>> /\ (pipe' = pipe \/ pipe' = <<>>)
  BY DEF Break, IInv
<1>2. have \in Seq(S) /\ pipe \in Seq(S) /\ left \in Seq(S)
  BY <1>1 DEF IInv, Carried
<1>3. PICK rest \in Seq(S) : Framed(sent) = have \o (pipe \o rest)
  BY <1>1 DEF IInv, Carried
<1> HIDE DEF S
<1>4. CASE pipe' = pipe
  <2>1. Carried'
    BY <1>1, <1>2, <1>3, <1>4 DEF Carried, S
  <2> QED BY <1>1, <2>1, ConnectionAssumption DEF IInv, TypeOK
<1>5. CASE pipe' = <<>>
  <2>1. /\ pipe \o rest \in Seq(S) /\ <<>> \in Seq(S)
        /\ pipe \o rest = <<>> \o (pipe \o rest)
    BY <1>2, ConcatProperties, ConcatEmptySeq, EmptySeq
  <2>2. Framed(sent) = have \o (<<>> \o (pipe \o rest))
    BY <1>3, <2>1
  <2>3. Carried'
    BY <1>1, <1>2, <1>5, <2>1, <2>2 DEF Carried, S
  <2> QED BY <1>1, <2>3, ConnectionAssumption DEF IInv, TypeOK
<1> QED BY <1>1, <1>4, <1>5

LEMMA AcceptKeeps ==
  ASSUME CodecRoundTrips, IInv, Accept
  PROVE  IInv'
<1>1. sent \in Messages /\ outcome' = Meaning(sent)
  BY AcceptDelivers
<1>2. outcome = Pending /\ UNCHANGED <<sent, left, pipe, have, cut>>
  BY DEF Accept
<1>3. outcome' # Idle
  BY <1>1, ConnectionAssumption
<1>4. Carried'
  BY <1>2 DEF IInv, Carried
<1>5. TypeOK'
  BY <1>1, <1>2 DEF IInv, TypeOK
<1> QED BY <1>1, <1>2, <1>3, <1>4, <1>5 DEF IInv

LEMMA GiveUpKeeps ==
  ASSUME IInv, GiveUp
  PROVE  IInv'
<1>1. outcome = Pending /\ outcome' = Lost /\ UNCHANGED <<sent, left, pipe, have, cut>>
  BY DEF GiveUp
<1>2. Carried' /\ sent \in Messages
  BY <1>1 DEF IInv, Carried
<1>3. TypeOK'
  BY <1>1 DEF IInv, TypeOK
<1> QED BY <1>1, <1>2, <1>3, ConnectionAssumption DEF IInv

LEMMA StutterKeeps ==
  ASSUME IInv, UNCHANGED vars
  PROVE  IInv'
<1>1. TypeOK' /\ (Carried <=> Carried')
  BY DEF IInv, vars, TypeOK, Carried
<1> QED BY <1>1 DEF IInv, vars

LEMMA InvInductive == ASSUME CodecRoundTrips PROVE Spec => []IInv
<1>1. ASSUME Init PROVE IInv
  <2>1. outcome # Pending
    BY <1>1, ConnectionAssumption DEF Init
  <2> QED BY <1>1, <2>1 DEF Init, IInv, TypeOK
<1>2. ASSUME IInv, [Next]_vars PROVE IInv'
  BY <1>2, SendKeeps, WriteKeeps, ReceiveKeeps, BreakKeeps, AcceptKeeps, GiveUpKeeps,
     StutterKeeps DEF Next, Transfer
<1> QED BY <1>1, <1>2, PTL DEF Spec

-----------------------------------------------------------------------------
(* What the reader makes of a call is a message, a failure or nothing yet. *)
THEOREM ConnectionTypeOK == CodecRoundTrips => (Spec => []TypeOK)
<1> SUFFICES ASSUME CodecRoundTrips PROVE Spec => []TypeOK
  OBVIOUS
<1>1. IInv => TypeOK
  BY DEF IInv
<1>2. Spec => []IInv
  BY InvInductive
<1> QED BY <1>1, <1>2, PTL

(* A call is a step of the abstract channel each time it is taken, broken, *)
(* answered or given up, and nothing to it at every write and every read   *)
(* between: whatever one write or one read moves and wherever the          *)
(* connection breaks, the other side gets the message that was sent or the *)
(* call fails, and it fails only if the connection broke                   *)
(* (etb_send_message and etb_recv_message, distributed.c 500-532).         *)
THEOREM CallImplementsChannel == CodecRoundTrips => (Spec => Chan!Safety)
<1> SUFFICES ASSUME CodecRoundTrips PROVE Spec => Chan!Safety
  OBVIOUS
<1>1. Init => Chan!Init
  BY DEF Init, Chan!Init
<1>2. ASSUME IInv, [Next]_vars PROVE [Chan!Next]_(Chan!vars)
  <2>1. ASSUME NEW m \in Messages, Send(m) PROVE Chan!Next
    BY <2>1 DEF Send, Chan!Next, Chan!Send
  <2>2. ASSUME Write \/ Receive \/ UNCHANGED vars PROVE UNCHANGED Chan!vars
    BY <2>2 DEF Write, Receive, vars, Chan!vars
  <2>3. ASSUME Break PROVE Chan!Next
    BY <2>3 DEF Break, Chan!Next, Chan!Break
  <2>4. ASSUME Accept PROVE Chan!Next
    <3>1. outcome' = Meaning(sent)
      BY <1>2, <2>4, AcceptDelivers
    <3> QED BY <2>4, <3>1 DEF Accept, Chan!Next, Chan!Deliver
  <2>5. ASSUME GiveUp PROVE Chan!Next
    BY <2>5 DEF GiveUp, Chan!Next, Chan!Lose
  <2> QED BY <1>2, <2>1, <2>2, <2>3, <2>4, <2>5 DEF Next, Transfer
<1>3. Spec => []IInv
  BY InvInductive
<1> QED BY <1>1, <1>2, <1>3, PTL DEF Spec, Chan!Safety

-----------------------------------------------------------------------------
(* Why a call ends: every byte is written once and read once, the          *)
(* connection breaks once and the call is over once.                       *)

StepsLeft ==
  2 * Len(left) + Len(pipe) + (IF cut THEN 0 ELSE 1) + (IF outcome = Pending THEN 1 ELSE 0)

(* Some side can go on: the conditions of the steps of Transfer.           *)
GoesOn ==
  \/ ~cut /\ left # <<>>
  \/ pipe # <<>> /\ Need > 0
  \/ Need = 0
  \/ cut /\ pipe = <<>> /\ Need > 0

LEMMA PendingLengths ==
  ASSUME IInv, outcome = Pending
  PROVE  /\ \E S : left \in Seq(S) /\ pipe \in Seq(S)
         /\ Len(left) \in Nat /\ Len(pipe) \in Nat /\ cut \in BOOLEAN
<1> DEFINE S == BytesOf(sent)
<1>1. left \in Seq(S) /\ pipe \in Seq(S) /\ cut \in BOOLEAN
  BY DEF IInv, Carried, TypeOK
<1> HIDE DEF S
<1> QED BY <1>1, LenProperties

LEMMA WriteDescends ==
  ASSUME IInv, Write
  PROVE  StepsLeft' \in Nat /\ StepsLeft' < StepsLeft
<1>1. outcome = Pending /\ ~cut /\ left # <<>> /\ UNCHANGED <<cut, outcome>>
  BY DEF Write
<1>2. PICK S : left \in Seq(S) /\ pipe \in Seq(S)
  BY <1>1, PendingLengths
<1>3. PICK c \in Chunks :
        /\ pipe' = pipe \o SubSeq(left, 1, Min2(c, Len(left)))
        /\ left' = SubSeq(left, Min2(c, Len(left)) + 1, Len(left))
  BY DEF Write
<1> DEFINE n == Min2(c, Len(left))
<1>4. Len(left) \in Nat /\ Len(pipe) \in Nat /\ Len(left) > 0
  BY <1>1, <1>2, EmptySeq, LenProperties
<1>5. n \in 1..Len(left)
  BY <1>4, ConnectionAssumption DEF Min2
<1>6. pipe' = pipe \o SubSeq(left, 1, n) /\ left' = SubSeq(left, n + 1, Len(left))
  BY <1>3
<1> HIDE DEF n
<1> DEFINE a == SubSeq(left, 1, n)
           b == SubSeq(left, n + 1, Len(left))
<1>7. a \in Seq(S) /\ b \in Seq(S) /\ Len(a) = n /\ a \o b = left
  BY <1>2, <1>5, Split
<1>8. pipe' = pipe \o a /\ left' = b
  BY <1>6
<1> HIDE DEF a, b
<1>9. Len(a \o b) = Len(a) + Len(b) /\ Len(b) \in Nat
  BY <1>7, ConcatProperties, LenProperties
<1>10. Len(pipe \o a) = Len(pipe) + Len(a)
  BY <1>2, <1>7, ConcatProperties
<1>11. Len(pipe') = Len(pipe) + n /\ Len(left') = Len(left) - n
  BY <1>4, <1>5, <1>7, <1>8, <1>9, <1>10
<1>12. n \in Nat /\ n >= 1 /\ n <= Len(left)
  BY <1>4, <1>5
<1> DEFINE p == Len(pipe)
           l == Len(left)
           p1 == Len(pipe')
           l1 == Len(left')
<1>13. StepsLeft = 2 * l + p + 2 /\ StepsLeft' = 2 * l1 + p1 + 2
  BY <1>1, <1>4, <1>11, <1>12 DEF StepsLeft
<1>14. l \in Nat /\ p \in Nat /\ p1 = p + n /\ l1 = l - n /\ n <= l
  BY <1>4, <1>11, <1>12
<1> HIDE DEF p, l, p1, l1
<1> QED BY <1>12, <1>13, <1>14

LEMMA ReceiveDescends ==
  ASSUME CodecRoundTrips, IInv, Receive
  PROVE  StepsLeft' \in Nat /\ StepsLeft' < StepsLeft
<1>1. outcome = Pending /\ pipe # <<>> /\ Need > 0 /\ UNCHANGED <<left, cut, outcome>>
  BY DEF Receive
<1>2. PICK S : left \in Seq(S) /\ pipe \in Seq(S)
  BY <1>1, PendingLengths
<1>3. PICK c \in Chunks : pipe' = SubSeq(pipe, Min2(c, Min2(Need, Len(pipe))) + 1, Len(pipe))
  BY DEF Receive
<1>4. Need \in Int
  BY <1>1, Waiting
<1> DEFINE n == Min2(c, Min2(Need, Len(pipe)))
<1>5. Len(left) \in Nat /\ Len(pipe) \in Nat /\ Len(pipe) > 0 /\ cut \in BOOLEAN
  BY <1>1, <1>2, EmptySeq, LenProperties DEF IInv, TypeOK
<1>6. n \in 1..Len(pipe)
  BY <1>1, <1>4, <1>5, ConnectionAssumption DEF Min2
<1>7. pipe' = SubSeq(pipe, n + 1, Len(pipe))
  BY <1>3
<1> HIDE DEF n
<1> DEFINE a == SubSeq(pipe, 1, n)
           b == SubSeq(pipe, n + 1, Len(pipe))
<1>8. a \in Seq(S) /\ b \in Seq(S) /\ Len(a) = n /\ a \o b = pipe
  BY <1>2, <1>6, Split
<1>9. pipe' = b
  BY <1>7
<1> HIDE DEF a, b
<1>10. Len(a \o b) = Len(a) + Len(b) /\ Len(b) \in Nat
  BY <1>8, ConcatProperties, LenProperties
<1> DEFINE p == Len(pipe)
           l == Len(left)
           p1 == Len(pipe')
           k == IF cut THEN 0 ELSE 1
<1>11. p \in Nat /\ l \in Nat /\ p1 \in Nat /\ p1 < p /\ k \in Nat
  BY <1>5, <1>6, <1>8, <1>9, <1>10
<1>12. StepsLeft = 2 * l + p + k + 1 /\ StepsLeft' = 2 * l + p1 + k + 1
  BY <1>1 DEF StepsLeft
<1> HIDE DEF p, l, p1, k
<1> QED BY <1>11, <1>12

LEMMA BreakDescends ==
  ASSUME IInv, Break
  PROVE  StepsLeft' \in Nat /\ StepsLeft' < StepsLeft
<1>1. outcome = Pending /\ ~cut /\ cut' = TRUE /\ UNCHANGED <<left, outcome>>
      /\ (pipe' = pipe \/ pipe' = <<>>)
  BY DEF Break
<1>2. Len(left) \in Nat /\ Len(pipe) \in Nat
  BY <1>1, PendingLengths
<1>3. Len(pipe') \in Nat /\ Len(pipe') <= Len(pipe)
  <2>1. Len(<<>>) = 0
    OBVIOUS
  <2> QED BY <1>1, <1>2, <2>1
<1> DEFINE p == Len(pipe)
           l == Len(left)
           p1 == Len(pipe')
<1>4. StepsLeft = 2 * l + p + 2 /\ StepsLeft' = 2 * l + p1 + 1
  BY <1>1, <1>2, <1>3 DEF StepsLeft
<1>5. l \in Nat /\ p \in Nat /\ p1 \in Nat /\ p1 <= p
  BY <1>2, <1>3
<1> HIDE DEF p, l, p1
<1> QED BY <1>4, <1>5

LEMMA OverDescends ==
  ASSUME CodecRoundTrips, IInv, Accept \/ GiveUp
  PROVE  StepsLeft' \in Nat /\ StepsLeft' < StepsLeft
<1>1. outcome = Pending /\ UNCHANGED <<left, pipe, cut>>
  BY DEF Accept, GiveUp
<1>2. outcome' # Pending
  <2>1. CASE Accept
    BY <2>1, AcceptDelivers, ConnectionAssumption
  <2>2. CASE GiveUp
    BY <2>2, ConnectionAssumption DEF GiveUp
  <2> QED BY <2>1, <2>2
<1>3. Len(left) \in Nat /\ Len(pipe) \in Nat /\ cut \in BOOLEAN
  BY <1>1, PendingLengths
<1> DEFINE p == Len(pipe)
           l == Len(left)
           k == IF cut THEN 0 ELSE 1
<1>4. StepsLeft = 2 * l + p + k + 1 /\ StepsLeft' = 2 * l + p + k
  BY <1>1, <1>2, <1>3 DEF StepsLeft
<1>5. p \in Nat /\ l \in Nat /\ k \in Nat
  BY <1>3
<1> HIDE DEF p, l, k
<1> QED BY <1>4, <1>5

(* A message of n bytes is a call of at most 2n + 10 steps, broken or not, *)
(* whatever one write or one read moves: each step of a call leaves fewer, *)
(* and when it is over there are none (distributed.c 466-532).             *)
THEOREM CallDescends ==
  CodecRoundTrips =>
    /\ Spec => [][\A m \in Messages : Send(m) => StepsLeft' = 2 * Len(Payload(m)) + 10]_vars
    /\ Spec => [][outcome # Idle =>
                    outcome = Pending /\ StepsLeft' \in Nat /\ StepsLeft' < StepsLeft]_vars
<1> DEFINE Begins == \A m \in Messages : Send(m) => StepsLeft' = 2 * Len(Payload(m)) + 10
           Descends == outcome # Idle =>
                         outcome = Pending /\ StepsLeft' \in Nat /\ StepsLeft' < StepsLeft
<1> SUFFICES ASSUME CodecRoundTrips
             PROVE  (Spec => [][Begins]_vars) /\ (Spec => [][Descends]_vars)
  OBVIOUS
<1>1. ASSUME IInv, NEW m \in Messages, Send(m) PROVE StepsLeft' = 2 * Len(Payload(m)) + 10
  <2>1. left' = Framed(m) /\ outcome' = Pending /\ pipe' = <<>> /\ cut' = FALSE
    BY <1>1 DEF Send, IInv
  <2> DEFINE l1 == Len(left')
             p1 == Len(pipe')
             d == Len(Payload(m))
  <2>2. l1 = 4 + d /\ d \in Nat
    BY <2>1, FramedSeq
  <2>3. p1 = 0
    BY <2>1
  <2>4. StepsLeft' = 2 * l1 + p1 + 2
    BY <2>1, <2>2, <2>3 DEF StepsLeft
  <2> HIDE DEF l1, p1, d
  <2>5. StepsLeft' = 2 * d + 10
    BY <2>2, <2>3, <2>4
  <2> QED BY <2>5 DEF d
<1>2. ASSUME IInv, Next, outcome # Idle
      PROVE  outcome = Pending /\ StepsLeft' \in Nat /\ StepsLeft' < StepsLeft
  <2>1. outcome = Pending /\ (Write \/ Receive \/ Break \/ Accept \/ GiveUp)
    BY <1>2 DEF Next, Transfer, Send, Write, Receive, Break, Accept, GiveUp
  <2> QED BY <1>2, <2>1, WriteDescends, ReceiveDescends, BreakDescends, OverDescends
<1>3. IInv /\ [Next]_vars => [Begins]_vars
  BY <1>1
<1>4. IInv /\ [Next]_vars => [Descends]_vars
  BY <1>2
<1>5. Spec => []IInv
  BY InvInductive
<1> HIDE DEF Begins, Descends
<1>6. Spec => [][Begins]_vars
  BY <1>3, <1>5, PTL DEF Spec
<1>7. Spec => [][Descends]_vars
  BY <1>4, <1>5, PTL DEF Spec
<1> QED BY <1>6, <1>7

(* The two sides never wait for each other: while a call is under way a    *)
(* byte can be written or read, or the reader has all it waits for, or is  *)
(* told that no more will come (distributed.c 466-532).                    *)
THEOREM CallNeverStuck == CodecRoundTrips => (Spec => [](outcome = Pending => GoesOn))
<1> SUFFICES ASSUME CodecRoundTrips PROVE Spec => [](outcome = Pending => GoesOn)
  OBVIOUS
<1>1. ASSUME IInv, outcome = Pending PROVE GoesOn
  <2>1. Need \in Int /\ Need >= 0 /\ (have = Framed(sent) => Need = 0)
    BY <1>1, Waiting
  <2>2. CASE cut \/ pipe # <<>> \/ left # <<>>
    <3>1. cut \in BOOLEAN /\ (Need = 0 \/ Need > 0)
      BY <1>1, <2>1 DEF IInv, TypeOK
    <3> QED BY <2>2, <3>1 DEF GoesOn
  <2>3. CASE ~cut /\ pipe = <<>> /\ left = <<>>
    <3> DEFINE S == BytesOf(sent)
    <3>1. have \in Seq(S) /\ Framed(sent) = have \o (<<>> \o <<>>)
      BY <1>1, <2>3 DEF IInv, Carried
    <3> HIDE DEF S
    <3>2. <<>> \in Seq(S) /\ <<>> \o <<>> = <<>> /\ have \o <<>> = have
      BY <3>1, EmptySeq, ConcatEmptySeq
    <3>3. Need = 0
      BY <2>1, <3>1, <3>2
    <3> QED BY <3>3 DEF GoesOn
  <2>4. cut \in BOOLEAN
    BY <1>1 DEF IInv, TypeOK
  <2> QED BY <2>2, <2>3, <2>4
<1>2. Spec => []IInv
  BY InvInductive
<1> QED BY <1>1, <1>2, PTL
=============================================================================
