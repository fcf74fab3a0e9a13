--------------------------- MODULE UartDll_proofs ---------------------------
(***************************************************************************)
(* Proofs about the UART data link layer, for frames, messages and buffers *)
(* of every length.  Transmission: each frame taken is confirmed exactly   *)
(* once, and as received only if all of it was on the bus.  Reception: the *)
(* input buffer is a queue of the messages accepted, and a message is      *)
(* acknowledged only when all of it is stored.                             *)
(***************************************************************************)
EXTENDS UartDll, SequenceTheorems, TLAPS

Sending == {"TO_SEND", "SEND_ACK", "WAIT_FOR_ACK"}

\* The flag of a transmission is up in the states of a transmission only.
FlagOK ==
    /\ taskState \in TaskState /\ ack \in Ack
    /\ Transmitting => taskState \in Sending \cup {"OFFLINE"}
    /\ taskState = "TO_SEND" => Transmitting
    /\ taskState = "SEND_ACK" => (Transmitting <=> "BROADCAST" \in status)

\* Bytes still to be sent, bytes on the wire and bytes read back add up.
BytesOK ==
    /\ wire \in Nat
    /\ taskState = "TO_SEND" =>
        /\ counter \in Nat /\ toCheck \in Nat /\ sent \in Nat
        /\ IF txOn THEN sent + counter = TxChars ELSE sent = TxChars + 1
        /\ wire + TxChars <= sent + toCheck
    /\ Transmitting /\ taskState \in {"SEND_ACK", "WAIT_FOR_ACK"} => sent = TxChars + 1

LinkInv == FlagOK /\ BytesOK

\* What is shown of every step.
OkStep == outcome' = "OK" /\ outcome # "OK" => sent = TxChars + 1
UpperStep == [Upper!Next]_(Upper!linkVars)
Good == LinkInv' /\ UpperStep /\ OkStep

USE DEF FlagOK, BytesOK, LinkInv, Transmitting, TaskState, Sending, Ack

LEMMA InitInv == Init => LinkInv /\ Upper!Init
BY DEF Init, Upper!Init

LEMMA RxFirstByteGood == ASSUME LinkInv, NEW late \in BOOLEAN, RxFirstByte(late) PROVE Good
BY UartDllAssumption DEF RxFirstByte, FrameStart, ByteRead, Confirm, Good, UpperStep, OkStep,
   Upper!Next, Upper!Confirm, Upper!EndFrame, Upper!Results, Upper!linkVars

LEMMA RxOtherRecipientGood ==
    ASSUME LinkInv, NEW late \in BOOLEAN, RxOtherRecipient(late) PROVE Good
BY UartDllAssumption DEF RxOtherRecipient, ByteRead, Good, UpperStep, OkStep, Upper!linkVars, own

LEMMA RxRecipientGood ==
    ASSUME LinkInv, NEW late \in BOOLEAN, NEW b \in BOOLEAN, RxRecipient(late, b) PROVE Good
BY UartDllAssumption DEF RxRecipient, ByteRead, Good, UpperStep, OkStep, Upper!linkVars, own

LEMMA RxDataGood == ASSUME LinkInv, NEW late \in BOOLEAN, RxData(late) PROVE Good
BY UartDllAssumption DEF RxData, ByteRead, Good, UpperStep, OkStep, Upper!linkVars, own

LEMMA RxChecksumGood ==
    ASSUME LinkInv, NEW late \in BOOLEAN, NEW b \in BOOLEAN, RxChecksum(late, b) PROVE Good
BY UartDllAssumption DEF RxChecksum, AwaitAck, ByteRead, Good, UpperStep, OkStep, Upper!linkVars, own

LEMMA RxSkippedByteGood == ASSUME LinkInv, NEW late \in BOOLEAN, RxSkippedByte(late) PROVE Good
BY UartDllAssumption DEF RxSkippedByte, AwaitAck, ByteRead, Good, UpperStep, OkStep,
   Upper!linkVars, own

LEMMA RxEchoGood == ASSUME LinkInv, NEW late \in BOOLEAN, RxEcho(late) PROVE Good
BY UartDllAssumption DEF RxEcho, AwaitAck, Echoed, Good, UpperStep, OkStep, Upper!linkVars, own

LEMMA RxCollisionGood == ASSUME LinkInv, NEW late \in BOOLEAN, RxCollision(late) PROVE Good
BY UartDllAssumption DEF RxCollision, ByteRead, Confirm, EnterIdleState, Forget, Good, UpperStep, OkStep,
   Upper!Next, Upper!Confirm, Upper!EndFrame, Upper!Results, Upper!linkVars

LEMMA RxOwnAckGood ==
    ASSUME LinkInv, NEW late \in BOOLEAN, NEW b \in BOOLEAN, RxOwnAck(late, b) PROVE Good
BY UartDllAssumption DEF RxOwnAck, Echoed, ByteRead, Confirm, EnterIdleState, Forget, Good, UpperStep,
   OkStep, Upper!Next, Upper!Confirm, Upper!EndFrame, Upper!Results, Upper!linkVars

LEMMA RxAckGood ==
    ASSUME LinkInv, NEW late \in BOOLEAN, NEW a \in Ack, NEW n \in BOOLEAN, NEW f \in BOOLEAN,
           RxAck(late, a, n, f)
    PROVE Good
BY UartDllAssumption DEF RxAck, ByteRead, Confirm, EnterIdleState, Forget, Good, UpperStep, OkStep,
   Upper!Next, Upper!Confirm, Upper!EndFrame, Upper!Results, Upper!linkVars

LEMMA RxEventGood == ASSUME LinkInv, NEW late \in BOOLEAN, RxEvent(late) PROVE Good
BY RxFirstByteGood, RxOtherRecipientGood, RxRecipientGood, RxDataGood, RxChecksumGood,
   RxSkippedByteGood, RxEchoGood, RxCollisionGood, RxOwnAckGood, RxAckGood DEF RxEvent

LEMMA RxUnreadGood == ASSUME LinkInv, RxError \/ RxOffline PROVE Good
BY UartDllAssumption DEF RxError, RxOffline, Good, UpperStep, OkStep, Upper!linkVars, own

LEMMA TxEventGood == ASSUME LinkInv, TxEvent PROVE Good
<1>1. CASE TxByte
  <2>1. txOn /\ taskState = "TO_SEND" /\ txOn' = (counter > 0)
    BY <1>1 DEF TxByte
  <2>2. (txOn' <=> counter > 0) /\ sent + counter = TxChars
    BY <2>1
  <2>3. BytesOK'
    BY <1>1, <2>1, <2>2, UartDllAssumption DEF TxByte, Put
  <2> QED BY <1>1, <2>3 DEF TxByte, Put, Good, UpperStep, OkStep, Upper!linkVars
<1>2. CASE TxIdle
  BY <1>2, UartDllAssumption DEF TxIdle, Good, UpperStep, OkStep, Upper!linkVars, own
<1>3. ASSUME NEW late \in BOOLEAN, TxAck(late) PROVE Good
  BY <1>3, UartDllAssumption DEF TxAck, Good, UpperStep, OkStep, Upper!linkVars, own
<1> QED BY <1>1, <1>2, <1>3 DEF TxEvent

LEMMA TaskGood == ASSUME LinkInv, BusIdleSeen \/ Timeout PROVE Good
<1>1. CASE BusIdleSeen
  BY <1>1, UartDllAssumption DEF BusIdleSeen, Good, UpperStep, OkStep, Upper!linkVars, own
<1>2. CASE ReceiveTimeout
  BY <1>2, UartDllAssumption DEF ReceiveTimeout, EnterIdleState, Forget, Good, UpperStep, OkStep,
     Upper!linkVars
<1>3. CASE AnswerTimeout
  BY <1>3, UartDllAssumption DEF AnswerTimeout, Confirm, EnterIdleState, Forget, Good, UpperStep,
     OkStep, Upper!Next, Upper!Confirm, Upper!EndFrame, Upper!Results, Upper!linkVars
<1> QED BY <1>1, <1>2, <1>3 DEF Timeout

LEMMA CallGood == ASSUME LinkInv, Call PROVE Good
<1>1. ASSUME NEW b \in BOOLEAN, Transmit(b) PROVE Good
  BY <1>1, UartDllAssumption DEF Transmit, MayTransmit, Good, UpperStep, OkStep, Upper!Next,
     Upper!Start, Upper!linkVars
<1>2. CASE TransmitRefused
  BY <1>2, UartDllAssumption DEF TransmitRefused, MayTransmit, EnterIdleState, Forget, Good,
     UpperStep, OkStep, Upper!linkVars, own
<1>3. CASE ReceiveMessage \/ ReleaseMessage \/ SetSilentMode
  BY <1>3, UartDllAssumption DEF ReceiveMessage, ReleaseMessage, SetSilentMode, line, Good,
     UpperStep, OkStep, Upper!linkVars, own
<1>4. CASE GoOffline
  BY <1>4, UartDllAssumption DEF GoOffline, Forget, Good, UpperStep, OkStep, Upper!Next,
     Upper!Down, Upper!linkVars
<1>5. CASE GoOnline
  BY <1>5, UartDllAssumption DEF GoOnline, EnterIdleState, Forget, Good, UpperStep, OkStep,
     Upper!Next, Upper!Up, Upper!linkVars
<1> QED BY <1>1, <1>2, <1>3, <1>4, <1>5 DEF Call

LEMMA StepGood == LinkInv /\ [Next]_vars => Good
<1>1. ASSUME LinkInv, UNCHANGED vars PROVE Good
  BY <1>1 DEF vars, line, own, Good, UpperStep, OkStep, Upper!linkVars
<1> QED
  BY <1>1, RxEventGood, RxUnreadGood, TxEventGood, TaskGood, CallGood DEF Next

-----------------------------------------------------------------------------
(* Theorems about transmission.                                            *)

\* The inductive invariant.
THEOREM LinkInvariant == Spec => []LinkInv
<1>1. LinkInv /\ [Next]_vars => LinkInv'
  BY StepGood DEF Good
<1> QED BY InitInv, <1>1, PTL DEF Spec

\* dbusdll.c keeps the promise of a data link layer: between two frames taken by
\* DLL_bTransmitMessage there is exactly one call of DLL_vMessageTransmitted,
\* unless the layer goes offline.
THEOREM Refinement == Spec => ImplementsLinkLayer
<1>1. LinkInv /\ [Next]_vars => [Upper!Next]_(Upper!linkVars)
  BY StepGood DEF Good, UpperStep
<1> QED BY InitInv, <1>1, LinkInvariant, PTL DEF Spec, ImplementsLinkLayer, Upper!Spec

\* A frame is confirmed with OK only after all its bytes and its checksum were
\* given to the UART, however long it is and however many bytes are in flight.
THEOREM SentBeforeOk == Spec => OkMeansSent
<1>1. LinkInv /\ [Next]_vars => [OkStep]_vars
  BY StepGood DEF Good
<1> QED BY <1>1, LinkInvariant, PTL DEF Spec, OkMeansSent, OkStep
-----------------------------------------------------------------------------
(* The input buffer.  The bytes stored are numbered from the offset to be  *)
(* read on, without a break at the end of the buffer: number p is at the   *)
(* offset Fold(p), and the end is passed twice at most.  A set of points   *)
(* divides them into messages and skipped ends, and a second function says *)
(* how many messages precede a point, so that no recursion is needed.      *)

Fold(p) ==
    IF p < BufferLength THEN p
    ELSE IF p < 2 * BufferLength THEN p - BufferLength ELSE p - 2 * BufferLength

Size(n) == Even(n + 2)

\* What begins at p with length byte n: a message, or the end of the buffer that is skipped.
Message(n, p) == n \in Lengths /\ Fold(p) + Size(n) <= BufferLength
Skipped(n, p) == n = Dummy /\ Fold(p) > 0
After(n, p) == IF n = Dummy THEN p + BufferLength - Fold(p) ELSE p + Size(n)

\* The bytes from a to e are divided at the points of S, lens being the length bytes.
Chain(lens, S, a, e) ==
    /\ S \subseteq a .. e /\ a \in S /\ e \in S
    /\ BufferLength <= e => BufferLength \in S
    /\ 2 * BufferLength <= e => 2 * BufferLength \in S
    /\ \A p \in S : p < e =>
        /\ Message(lens[p], p) \/ Skipped(lens[p], p)
        /\ After(lens[p], p) \in S

\* The messages among them are those of acc; i counts the ones before a point.
Numbered(lens, S, a, e, i, acc) ==
    /\ i[a] = 0 /\ i[e] = Len(acc)
    /\ \A p, q \in S : p <= q => i[p] <= i[q]
    /\ \A p \in S : p < e =>
        IF lens[p] = Dummy THEN i[After(lens[p], p)] = i[p]
        ELSE i[After(lens[p], p)] = i[p] + 1 /\ acc[i[p] + 1] = lens[p]

\* The bytes from a to e hold the messages acc, or any messages if o.
Stored(lens, a, e, acc, o) ==
    /\ a \in Nat /\ e \in Nat /\ a <= e /\ a <= BufferLength /\ e < 3 * BufferLength
    /\ acc \in Seq(Lengths)
    /\ \E S \in SUBSET Nat, i \in [Nat -> Nat] :
        Chain(lens, S, a, e) /\ (o \/ Numbered(lens, S, a, e, i, acc))

LEMMA Constants ==
    /\ BufferLength \in Nat /\ BufferLength >= 4 /\ BufferLength % 2 = 0
    /\ ByteMod \in Nat /\ 2 * BufferLength <= ByteMod
    /\ Lengths \subseteq 2 .. (ByteMod - 2) /\ Lengths \subseteq Nat
    /\ Dummy = ByteMod - 1 /\ Dummy \in Nat /\ Dummy \notin Lengths /\ Dummy > BufferLength
    /\ Overhead = 2
BY RxRingAssumption, UartDllAssumption DEF Dummy, Overhead

LEMMA Sizes ==
    ASSUME NEW n \in Nat
    PROVE  /\ Even(n) \in Nat /\ n <= Even(n) /\ Even(n) <= n + 1
           /\ Size(n) \in Nat /\ n + 2 <= Size(n) /\ Size(n) <= n + 3
BY SMT DEF Even, Size

LEMMA Parity == ASSUME NEW n \in Nat PROVE Even(n) % 2 = 0 /\ Size(n) % 2 = 0
BY SMT DEF Even, Size

LEMMA EvenFits ==
    ASSUME NEW n \in Nat, NEW m \in Nat, m % 2 = 0, n <= m PROVE Even(n) <= m
BY SMT DEF Even

LEMMA Modulus ==
    /\ \A x \in Nat : x < ByteMod => x % ByteMod = x
    /\ \A x \in Nat : x < ByteMod => (x + ByteMod) % ByteMod = x
<1>1. ByteMod \in Nat /\ ByteMod > 0 BY Constants
<1>2. \A x \in Nat : x < ByteMod => x % ByteMod = x BY <1>1, SMT
<1>3. \A x \in Nat : x < ByteMod => (x + ByteMod) % ByteMod = x BY <1>1, SMT
<1> QED BY <1>2, <1>3

LEMMA Sums ==
    /\ \A a, b \in Nat : a + b < ByteMod => Plus(a, b) = a + b
    /\ \A a, b \in Nat : b <= a /\ a < ByteMod => Minus(a, b) = a - b
    /\ \A a, b \in Nat : a < b /\ b <= ByteMod => Minus(a, b) = a + ByteMod - b
<1>1. ASSUME NEW a \in Nat, NEW b \in Nat, a + b < ByteMod PROVE Plus(a, b) = a + b
  BY <1>1, Modulus DEF Plus
<1>2. ASSUME NEW a \in Nat, NEW b \in Nat, b <= a, a < ByteMod PROVE Minus(a, b) = a - b
  <2> DEFINE d == a - b
  <2>1. d \in Nat /\ d < ByteMod BY <1>2, Constants
  <2>2. a + ByteMod - b = d + ByteMod BY <1>2, Constants
  <2>3. (d + ByteMod) % ByteMod = d BY <2>1, Modulus
  <2> QED BY <2>2, <2>3 DEF Minus
<1>3. ASSUME NEW a \in Nat, NEW b \in Nat, a < b, b <= ByteMod PROVE Minus(a, b) = a + ByteMod - b
  <2>1. a + ByteMod - b \in Nat /\ a + ByteMod - b < ByteMod BY <1>3, Constants
  <2> QED BY <2>1, Modulus DEF Minus
<1> QED BY <1>1, <1>2, <1>3

LEMMA Folds ==
    ASSUME NEW p \in Nat, p < 3 * BufferLength
    PROVE  /\ Fold(p) \in 0 .. (BufferLength - 1)
           /\ p < 2 * BufferLength => Fold(p + BufferLength) = Fold(p)
BY Constants DEF Fold

\* What follows a block that fits is not beyond the end of the buffer.
LEMMA Follows ==
    ASSUME NEW n, NEW p \in Nat, p < 3 * BufferLength, Message(n, p) \/ Skipped(n, p)
    PROVE  /\ After(n, p) \in Nat /\ After(n, p) > p
           /\ p < BufferLength => After(n, p) <= BufferLength
           /\ p < 2 * BufferLength => After(n, p) <= 2 * BufferLength
           /\ After(n, p) <= 3 * BufferLength
           /\ Skipped(n, p) => Fold(After(n, p)) = 0 \/ After(n, p) = 3 * BufferLength
           /\ n \in Nat /\ (Message(n, p) <=> n # Dummy)
<1>1. n \in Nat BY Constants DEF Message, Skipped
<1>2. Size(n) \in Nat /\ Size(n) >= 2 BY <1>1, Sizes
<1> QED BY <1>1, <1>2, Constants DEF Message, Skipped, After, Fold

LEMMA StoredNothing ==
    ASSUME NEW lens, NEW a \in 0 .. BufferLength, a # BufferLength
    PROVE  Stored(lens, a, a, <<>>, FALSE)
<1> DEFINE S == {a}
           i == [x \in Nat |-> 0]
<1>1. S \in SUBSET Nat /\ i \in [Nat -> Nat]
  OBVIOUS
<1>2. Chain(lens, S, a, a)
  BY Constants DEF Chain
<1>3. Numbered(lens, S, a, a, i, <<>>)
  BY DEF Numbered
<1> QED BY <1>1, <1>2, <1>3, Constants DEF Stored

\* The points of a chain, and the block that begins at one.
LEMMA ChainPoints ==
    ASSUME NEW lens, NEW S, NEW a \in Nat, NEW e \in Nat, Chain(lens, S, a, e), e < 3 * BufferLength
    PROVE  /\ S \subseteq Nat /\ a \in S /\ e \in S
           /\ \A p \in S : p \in Nat /\ a <= p /\ p <= e /\ p < 3 * BufferLength
           /\ \A p \in S : p < e =>
                /\ Message(lens[p], p) \/ Skipped(lens[p], p)
                /\ After(lens[p], p) \in S /\ After(lens[p], p) \in Nat
                /\ p < After(lens[p], p) /\ After(lens[p], p) <= e
<1>1. a \in S /\ e \in S /\ \A p \in S : p \in Nat /\ a <= p /\ p <= e /\ p < 3 * BufferLength
  BY Constants DEF Chain
<1>2. ASSUME NEW p \in S, p < e
      PROVE  /\ Message(lens[p], p) \/ Skipped(lens[p], p)
             /\ After(lens[p], p) \in S
  BY <1>2 DEF Chain
<1>3. ASSUME NEW p \in S, p < e
      PROVE  /\ After(lens[p], p) \in Nat /\ p < After(lens[p], p)
             /\ After(lens[p], p) <= e
  <2>1. p \in Nat /\ p < 3 * BufferLength BY <1>1
  <2>2. Message(lens[p], p) \/ Skipped(lens[p], p) BY <1>2, <1>3
  <2>3. After(lens[p], p) > p /\ After(lens[p], p) \in Nat BY <2>1, <2>2, Follows
  <2>4. After(lens[p], p) \in S BY <1>2, <1>3
  <2> QED BY <2>1, <2>3, <2>4, <1>1
<1> QED BY <1>1, <1>2, <1>3

LEMMA Numbers ==
    ASSUME NEW lens, NEW S \in SUBSET Nat, NEW a \in S, NEW e \in S, NEW i \in [Nat -> Nat],
           NEW acc \in Seq(Lengths),
           Numbered(lens, S, a, e, i, acc), \A p \in S : a <= p /\ p <= e
    PROVE  /\ i[a] = 0 /\ i[e] = Len(acc) /\ Len(acc) \in Nat
           /\ \A p \in S : i[p] \in Nat /\ i[p] <= Len(acc)
           /\ \A p, q \in S : p <= q => i[p] <= i[q]
BY DEF Numbered

\* Only the length bytes between a and e matter.
LEMMA StoredSame ==
    ASSUME NEW lens, NEW other, NEW a, NEW e, NEW acc, NEW o, Stored(lens, a, e, acc, o),
           \A p \in a .. (e - 1) : other[p] = lens[p]
    PROVE  Stored(other, a, e, acc, o)
<1>1. PICK S \in SUBSET Nat, i \in [Nat -> Nat] :
        Chain(lens, S, a, e) /\ (o \/ Numbered(lens, S, a, e, i, acc))
  BY DEF Stored
<1>2. a \in Nat /\ e \in Nat
  BY DEF Stored
<1>3. ASSUME NEW p \in S, p < e PROVE other[p] = lens[p]
  BY <1>1, <1>2, <1>3 DEF Chain
<1>4. Chain(other, S, a, e)
  BY <1>1, <1>3 DEF Chain
<1>5. Numbered(lens, S, a, e, i, acc) => Numbered(other, S, a, e, i, acc)
  BY <1>3 DEF Numbered
<1> QED BY <1>1, <1>4, <1>5 DEF Stored

LEMMA RestOf ==
    ASSUME NEW acc \in Seq(Lengths), acc # <<>>
    PROVE  /\ SubSeq(acc, 2, Len(acc)) \in Seq(Lengths)
           /\ Len(acc) \in Nat /\ Len(acc) >= 1
           /\ Len(SubSeq(acc, 2, Len(acc))) = Len(acc) - 1
           /\ \A k \in 1 .. (Len(acc) - 1) : SubSeq(acc, 2, Len(acc))[k] = acc[k + 1]
<1>1. Len(acc) \in Nat \ {0} /\ SubSeq(acc, 2, Len(acc)) = Tail(acc)
  BY EmptySeq, TailIsSubSeq
<1>2. Tail(acc) \in Seq(Lengths) /\ Len(Tail(acc)) = Len(acc) - 1
  BY HeadTailProperties
<1>3. \A k \in 1 .. (Len(acc) - 1) : Tail(acc)[k] = acc[k + 1]
  BY <1>2, HeadTailProperties
<1> QED BY <1>1, <1>2, <1>3

\* The oldest block: a message is the first of acc.
LEMMA StoredFirst ==
    ASSUME NEW lens, NEW a, NEW e, NEW acc, NEW o, Stored(lens, a, e, acc, o)
    PROVE  /\ a < e => /\ Message(lens[a], a) \/ Skipped(lens[a], a)
                       /\ After(lens[a], a) \in Nat /\ After(lens[a], a) <= e
                       /\ a < After(lens[a], a)
           /\ a < e /\ ~o /\ lens[a] # Dummy => acc # <<>> /\ lens[a] = Head(acc)
           /\ a = e /\ ~o => acc = <<>>
<1>1. PICK S \in SUBSET Nat, i \in [Nat -> Nat] :
        Chain(lens, S, a, e) /\ (o \/ Numbered(lens, S, a, e, i, acc))
  BY DEF Stored
<1>2. a \in Nat /\ e \in Nat /\ e < 3 * BufferLength /\ acc \in Seq(Lengths)
  BY DEF Stored
<1>3. a \in S /\ e \in S /\ \A p \in S : a <= p /\ p <= e
  BY <1>1, <1>2, ChainPoints
<1>4. ASSUME a < e
      PROVE  /\ Message(lens[a], a) \/ Skipped(lens[a], a)
             /\ After(lens[a], a) \in S /\ After(lens[a], a) \in Nat
             /\ a < After(lens[a], a) /\ After(lens[a], a) <= e
  BY <1>1, <1>2, <1>3, <1>4, ChainPoints
<1>5. ASSUME a < e, ~o, lens[a] # Dummy PROVE acc # <<>> /\ lens[a] = Head(acc)
  <2> DEFINE b == After(lens[a], a)
  <2>1. i[a] = 0 /\ i[b] = i[a] + 1 /\ acc[i[a] + 1] = lens[a]
    BY <1>1, <1>3, <1>5 DEF Numbered
  <2>2. Numbered(lens, S, a, e, i, acc) /\ b \in S
    BY <1>1, <1>4, <1>5
  <2> HIDE DEF b
  <2>3. i[b] <= Len(acc) /\ Len(acc) \in Nat
    BY <1>2, <1>3, <2>2, Numbers
  <2>4. i[b] = 1 /\ acc[1] = lens[a]
    BY <2>1
  <2>5. Len(acc) >= 1
    BY <2>3, <2>4
  <2>6. acc # <<>>
    BY <2>5
  <2>7. Head(acc) = acc[1]
    OBVIOUS
  <2> QED BY <2>4, <2>6, <2>7
<1>6. a = e /\ ~o => acc = <<>>
  <2>1. a = e /\ ~o => Len(acc) = 0
    BY <1>1 DEF Numbered
  <2> QED BY <1>2, <2>1, EmptySeq
<1> QED BY <1>4, <1>5, <1>6

From(S, b) == {p \in S : b <= p}

LEMMA FromPoints == ASSUME NEW S, NEW b PROVE \A p : p \in From(S, b) <=> p \in S /\ b <= p
BY DEF From

\* The oldest block is read.
LEMMA ChainRest ==
    ASSUME NEW lens, NEW S \in SUBSET Nat, NEW a \in Nat, NEW e \in Nat, Chain(lens, S, a, e),
           a < e, a < BufferLength, e < 3 * BufferLength, NEW b, b = After(lens[a], a)
    PROVE  /\ b \in S /\ b \in Nat /\ b <= e /\ b <= BufferLength
           /\ Chain(lens, From(S, b), b, e)
<1> DEFINE T == From(S, b)
<1>1. a \in S /\ e \in S /\ \A p \in S : p \in Nat /\ a <= p /\ p <= e /\ p < 3 * BufferLength
  BY ChainPoints
<1>2. /\ Message(lens[a], a) \/ Skipped(lens[a], a)
      /\ b \in S /\ b \in Nat /\ a < b /\ b <= e
  BY <1>1, ChainPoints
<1>3. b <= BufferLength
  BY <1>1, <1>2, Follows
<1>4. ASSUME NEW p \in T, p < e
      PROVE  After(lens[p], p) \in T /\ (Message(lens[p], p) \/ Skipped(lens[p], p))
  <2>1. /\ Message(lens[p], p) \/ Skipped(lens[p], p)
        /\ After(lens[p], p) \in S /\ After(lens[p], p) \in Nat /\ p < After(lens[p], p)
    BY <1>4, ChainPoints, FromPoints
  <2>2. b <= p /\ p \in Nat
    BY <1>1, <1>4, FromPoints
  <2>3. b <= After(lens[p], p)
    BY <1>2, <2>1, <2>2
  <2> QED BY <2>1, <2>3, FromPoints
<1>5. T \subseteq b .. e /\ b \in T /\ e \in T
  <2>1. b \in T /\ e \in T
    BY <1>1, <1>2, FromPoints
  <2>2. ASSUME NEW p \in T PROVE p \in b .. e
    <3>1. p \in Nat /\ b <= p /\ p <= e BY <1>1, <2>2, FromPoints
    <3> QED BY <1>2, <3>1
  <2> QED BY <2>1, <2>2
<1>6. BufferLength <= e => BufferLength \in T
  BY <1>3, FromPoints DEF Chain
<1>7. 2 * BufferLength <= e => 2 * BufferLength \in T
  <2>1. b <= 2 * BufferLength BY <1>2, <1>3, Constants
  <2> QED BY <2>1, FromPoints DEF Chain
<1>8. Chain(lens, T, b, e)
  BY <1>4, <1>5, <1>6, <1>7 DEF Chain
<1> QED BY <1>2, <1>3, <1>8

LEMMA NumberedRest ==
    ASSUME NEW lens, NEW S \in SUBSET Nat, NEW a \in Nat, NEW e \in Nat, Chain(lens, S, a, e),
           a < e, a < BufferLength, e < 3 * BufferLength, NEW b, b = After(lens[a], a),
           NEW i \in [Nat -> Nat], NEW acc \in Seq(Lengths), Numbered(lens, S, a, e, i, acc)
    PROVE  \E j \in [Nat -> Nat] :
            Numbered(lens, From(S, b), b, e, j,
                     IF lens[a] = Dummy THEN acc ELSE SubSeq(acc, 2, Len(acc)))
<1> DEFINE T == From(S, b)
<1>1. a \in S /\ e \in S /\ \A p \in S : p \in Nat /\ a <= p /\ p <= e /\ p < 3 * BufferLength
  BY ChainPoints
<1>2. b \in S /\ b \in T /\ b \in Nat /\ b <= e /\ e \in T
  <2>1. b \in S /\ b \in Nat /\ b <= e BY ChainRest
  <2>2. e \in S /\ b <= b BY <1>1, <2>1
  <2> QED BY <2>1, <2>2, FromPoints
<1>3. /\ i[a] = 0 /\ i[e] = Len(acc) /\ Len(acc) \in Nat
      /\ \A p \in S : i[p] \in Nat /\ i[p] <= Len(acc)
      /\ \A p, q \in S : p <= q => i[p] <= i[q]
  BY <1>1, Numbers
<1>4. ASSUME NEW p \in T, p < e
      PROVE  /\ p \in S /\ After(lens[p], p) \in T /\ After(lens[p], p) \in S
             /\ IF lens[p] = Dummy THEN i[After(lens[p], p)] = i[p]
                ELSE i[After(lens[p], p)] = i[p] + 1 /\ acc[i[p] + 1] = lens[p]
  <2>1. Chain(lens, T, b, e)
    BY ChainRest
  <2>2. p \in S /\ After(lens[p], p) \in T BY <1>4, <2>1, FromPoints DEF Chain
  <2>3. After(lens[p], p) \in S BY <2>2, FromPoints
  <2> QED BY <1>4, <2>2, <2>3 DEF Numbered
<1>5. CASE lens[a] = Dummy
  <2>1. i[b] = 0
    BY <1>1, <1>3, <1>5 DEF Numbered
  <2>2. Numbered(lens, T, b, e, i, acc)
    <3>1. \A p \in T : p \in S BY FromPoints
    <3> QED BY <1>3, <1>4, <2>1, <3>1 DEF Numbered
  <2> QED BY <1>5, <2>2
<1>6. CASE lens[a] # Dummy
  <2> DEFINE j == [p \in Nat |-> IF 1 <= i[p] THEN i[p] - 1 ELSE 0]
             rest == SubSeq(acc, 2, Len(acc))
  <2>1. i[b] = 1
    <3>1. i[After(lens[a], a)] = i[a] + 1 BY <1>1, <1>6 DEF Numbered
    <3> QED BY <1>3, <3>1
  <2>2. ASSUME NEW p \in T
        PROVE  i[p] \in Nat /\ 1 <= i[p] /\ i[p] <= Len(acc) /\ j[p] = i[p] - 1
    <3>1. p \in S /\ b <= p /\ p \in Nat BY <1>1, FromPoints
    <3>2. i[b] <= i[p] /\ i[p] \in Nat /\ i[p] <= Len(acc) BY <1>2, <1>3, <3>1
    <3> QED BY <2>1, <3>1, <3>2
  <2>3. acc # <<>>
    <3>1. Len(acc) >= 1 BY <1>2, <1>3, <2>2
    <3> QED BY <3>1
  <2>4. Len(rest) = Len(acc) - 1 /\ \A k \in 1 .. (Len(acc) - 1) : rest[k] = acc[k + 1]
    BY <2>3, RestOf
  <2>5. j \in [Nat -> Nat]
    <3>1. \A p \in Nat : i[p] \in Nat OBVIOUS
    <3>2. \A n \in Nat : 1 <= n => n - 1 \in Nat OBVIOUS
    <3> QED BY <3>1, <3>2
  <2> HIDE DEF j, rest, T
  <2>6. j[b] = 0 /\ j[e] = Len(rest)
    <3>1. j[b] = i[b] - 1 /\ j[e] = i[e] - 1 BY <1>2, <2>2
    <3> QED BY <1>3, <2>1, <2>4, <3>1
  <2>7. \A p, q \in T : p <= q => j[p] <= j[q]
    <3>1. ASSUME NEW p \in T, NEW q \in T, p <= q PROVE j[p] <= j[q]
      <4>1. i[p] <= i[q] BY <1>3, <3>1, FromPoints DEF T
      <4> DEFINE x == i[p]
                 y == i[q]
      <4>2. x \in Nat /\ y \in Nat /\ x <= y /\ j[p] = x - 1 /\ j[q] = y - 1 BY <2>2, <3>1, <4>1
      <4> HIDE DEF x, y
      <4> QED BY <4>2
    <3> QED BY <3>1
  <2>8. ASSUME NEW p \in T, p < e
        PROVE  IF lens[p] = Dummy THEN j[After(lens[p], p)] = j[p]
               ELSE j[After(lens[p], p)] = j[p] + 1 /\ rest[j[p] + 1] = lens[p]
    <3> DEFINE q == After(lens[p], p)
    <3>1. q \in T /\ IF lens[p] = Dummy THEN i[q] = i[p]
                      ELSE i[q] = i[p] + 1 /\ acc[i[p] + 1] = lens[p]
      BY <1>4, <2>8
    <3> HIDE DEF q
    <3>2. /\ i[p] \in Nat /\ 1 <= i[p] /\ j[p] = i[p] - 1
          /\ i[q] \in Nat /\ i[q] <= Len(acc) /\ j[q] = i[q] - 1
      BY <2>2, <3>1
    <3>3. CASE lens[p] = Dummy
      BY <3>1, <3>2, <3>3 DEF q
    <3>4. CASE lens[p] # Dummy
      <4>1. i[p] \in 1 .. (Len(acc) - 1) /\ j[q] = j[p] + 1 /\ j[p] + 1 = i[p]
        <5>1. i[q] = i[p] + 1 BY <3>1, <3>4
        <5>2. Len(acc) \in Nat BY <1>3
        <5> DEFINE x == i[p]
                   y == i[q]
        <5>3. x \in Nat /\ 1 <= x /\ j[p] = x - 1 /\ y <= Len(acc) /\ j[q] = y - 1 /\ y = x + 1
          BY <3>2, <5>1
        <5> HIDE DEF x, y
        <5>4. x \in 1 .. (Len(acc) - 1) /\ j[q] = j[p] + 1 /\ j[p] + 1 = x BY <5>2, <5>3
        <5> QED BY <5>4 DEF x
      <4>2. rest[i[p]] = acc[i[p] + 1]
        BY <2>4, <4>1
      <4> QED BY <3>1, <3>4, <4>1, <4>2 DEF q
    <3> QED BY <3>3, <3>4
  <2>9. Numbered(lens, T, b, e, j, rest)
    BY <2>6, <2>7, <2>8 DEF Numbered
  <2> QED BY <1>6, <2>5, <2>9 DEF rest, T
<1> QED BY <1>5, <1>6

LEMMA StoredRest ==
    ASSUME NEW lens, NEW a, NEW e, NEW acc, NEW o, Stored(lens, a, e, acc, o), a < e,
           a < BufferLength, ~o /\ lens[a] # Dummy => acc # <<>>
    PROVE  Stored(lens, After(lens[a], a), e,
                  IF o \/ lens[a] = Dummy THEN acc ELSE SubSeq(acc, 2, Len(acc)), o)
<1> DEFINE b == After(lens[a], a)
           acc2 == IF o \/ lens[a] = Dummy THEN acc ELSE SubSeq(acc, 2, Len(acc))
<1>1. PICK S \in SUBSET Nat, i \in [Nat -> Nat] :
        Chain(lens, S, a, e) /\ (o \/ Numbered(lens, S, a, e, i, acc))
  BY DEF Stored
<1>2. a \in Nat /\ e \in Nat /\ acc \in Seq(Lengths) /\ e < 3 * BufferLength
  BY DEF Stored
<1> DEFINE T == From(S, b)
<1>3. b \in S /\ b \in Nat /\ b <= e /\ b <= BufferLength /\ Chain(lens, T, b, e)
  BY <1>1, <1>2, ChainRest
<1>4. acc2 \in Seq(Lengths)
  BY <1>2, RestOf
<1>5. \E j \in [Nat -> Nat] : o \/ Numbered(lens, T, b, e, j, acc2)
  <2>1. CASE o
    BY <2>1
  <2>2. CASE ~o
    <3>1. Numbered(lens, S, a, e, i, acc)
      BY <1>1, <2>2
    <3> QED BY <1>1, <1>2, <2>2, <3>1, NumberedRest
  <2> QED BY <2>1, <2>2
<1>6. T \in SUBSET Nat
  BY <1>1, FromPoints
<1> HIDE DEF b, acc2, T
<1>7. Stored(lens, b, e, acc2, o)
  BY <1>2, <1>3, <1>4, <1>5, <1>6 DEF Stored
<1> QED BY <1>7 DEF b, acc2

\* A block is added.
LEMMA ChainNew ==
    ASSUME NEW lens, NEW S \in SUBSET Nat, NEW a \in Nat, NEW e \in Nat, Chain(lens, S, a, e),
           a <= e, e < 3 * BufferLength, Message(lens[e], e) \/ Skipped(lens[e], e),
           NEW b, b = After(lens[e], e)
    PROVE  b \in Nat /\ e < b /\ Chain(lens, S \cup {b}, a, b)
<1> DEFINE T == S \cup {b}
<1>1. /\ b \in Nat /\ e < b
      /\ e < BufferLength => b <= BufferLength
      /\ e < 2 * BufferLength => b <= 2 * BufferLength
  BY Follows
<1>2. a \in S /\ e \in S /\ \A p \in S : p \in Nat /\ a <= p /\ p <= e /\ p < 3 * BufferLength
  BY ChainPoints
<1>3. T \subseteq a .. b /\ a \in T /\ b \in T
  <2>1. ASSUME NEW p \in S PROVE p \in a .. b
    <3>1. p \in Nat /\ a <= p /\ p <= e BY <1>2, <2>1
    <3> QED BY <1>1, <3>1
  <2>2. b \in a .. b BY <1>1
  <2> QED BY <1>2, <2>1, <2>2
<1>4. BufferLength <= b => BufferLength \in T
  <2>1. e < BufferLength \/ BufferLength <= e BY Constants
  <2>2. e < BufferLength /\ BufferLength <= b => b = BufferLength BY <1>1, Constants
  <2> QED BY <2>1, <2>2 DEF Chain
<1>5. 2 * BufferLength <= b => 2 * BufferLength \in T
  <2> DEFINE l == 2 * BufferLength
  <2>1. l \in Nat /\ (e < l => b <= l) BY <1>1, Constants
  <2>2. l <= e => l \in S BY DEF Chain
  <2> HIDE DEF l
  <2>3. e < l /\ l <= b => b = l BY <1>1, <2>1
  <2>4. l <= b => l \in T BY <2>1, <2>2, <2>3
  <2> QED BY <2>4 DEF l
<1>6. ASSUME NEW p \in T, p < b
      PROVE  After(lens[p], p) \in T /\ (Message(lens[p], p) \/ Skipped(lens[p], p))
  <2>1. p \in S BY <1>1, <1>6
  <2>2. CASE p = e BY <2>2
  <2>3. CASE p # e
    <3>1. p < e BY <1>2, <2>1, <2>3
    <3> QED BY <2>1, <3>1 DEF Chain
  <2> QED BY <2>2, <2>3
<1> QED BY <1>1, <1>3, <1>4, <1>5, <1>6 DEF Chain

LEMMA AppendMore ==
    ASSUME NEW acc \in Seq(Lengths), NEW n \in Lengths
    PROVE  /\ Append(acc, n) \in Seq(Lengths) /\ Len(acc) \in Nat
           /\ Len(Append(acc, n)) = Len(acc) + 1
           /\ \A k \in 1 .. Len(acc) : Append(acc, n)[k] = acc[k]
           /\ Append(acc, n)[Len(acc) + 1] = n
BY AppendProperties

LEMMA NumberedNew ==
    ASSUME NEW lens, NEW S \in SUBSET Nat, NEW a \in Nat, NEW e \in Nat, Chain(lens, S, a, e),
           a <= e, e < 3 * BufferLength, Message(lens[e], e) \/ Skipped(lens[e], e),
           NEW b, b = After(lens[e], e),
           NEW i \in [Nat -> Nat], NEW acc \in Seq(Lengths), Numbered(lens, S, a, e, i, acc)
    PROVE  \E j \in [Nat -> Nat] :
            Numbered(lens, S \cup {b}, a, b, j,
                     IF lens[e] = Dummy THEN acc ELSE Append(acc, lens[e]))
<1> DEFINE T == S \cup {b}
           n == lens[e]
           more == IF n = Dummy THEN acc ELSE Append(acc, n)
           j == [i EXCEPT ![b] = Len(more)]
<1>1. a \in S /\ e \in S /\ \A p \in S : p \in Nat /\ a <= p /\ p <= e /\ p < 3 * BufferLength
  BY ChainPoints
<1>2. b \in Nat /\ e < b
  BY ChainNew
<1>3. /\ i[a] = 0 /\ i[e] = Len(acc) /\ Len(acc) \in Nat
      /\ \A p \in S : i[p] \in Nat /\ i[p] <= Len(acc)
      /\ \A p, q \in S : p <= q => i[p] <= i[q]
  BY <1>1, Numbers
<1>4. n # Dummy => n \in Lengths
  BY Follows DEF Message, Skipped
<1>5. /\ Len(more) \in Nat /\ Len(acc) <= Len(more)
      /\ \A k \in 1 .. Len(acc) : more[k] = acc[k]
      /\ n = Dummy => Len(more) = Len(acc)
      /\ n # Dummy => Len(more) = Len(acc) + 1 /\ more[Len(acc) + 1] = n
  <2>1. CASE n = Dummy BY <1>3, <2>1
  <2>2. CASE n # Dummy
    <3>1. n \in Lengths /\ more = Append(acc, n) BY <1>4, <2>2
    <3>2. /\ Len(more) = Len(acc) + 1 /\ more[Len(acc) + 1] = n
          /\ \A k \in 1 .. Len(acc) : more[k] = acc[k]
      BY <3>1, AppendMore
    <3> HIDE DEF more
    <3>3. Len(acc) \in Nat BY <1>3
    <3>4. Len(more) \in Nat /\ Len(acc) <= Len(more) BY <3>2, <3>3
    <3> QED BY <2>2, <3>2, <3>4
  <2> QED BY <2>1, <2>2
<1> HIDE DEF more
<1>6. j \in [Nat -> Nat]
  BY <1>5
<1>7. j[b] = Len(more) /\ \A p \in S : j[p] = i[p]
  <2>1. ASSUME NEW p \in S PROVE p # b
    BY <1>1, <1>2, <2>1
  <2> QED BY <1>1, <1>2, <2>1
<1> HIDE DEF j
<1>8. ASSUME NEW p \in T, NEW q \in T, p <= q PROVE j[p] <= j[q]
  <2>1. CASE p \in S /\ q \in S
    BY <1>3, <1>7, <1>8, <2>1
  <2>2. CASE p \in S /\ q = b
    <3>1. i[p] <= Len(acc) /\ i[p] \in Nat BY <1>3, <2>2
    <3>2. j[p] = i[p] /\ j[q] = Len(more) BY <1>7, <2>2
    <3> DEFINE x == i[p]
    <3>3. x \in Nat /\ x <= Len(acc) /\ j[p] = x /\ Len(acc) \in Nat BY <1>3, <3>1, <3>2
    <3> HIDE DEF x
    <3>4. Len(more) \in Nat /\ Len(acc) <= Len(more) BY <1>5
    <3>5. x <= Len(more) BY <3>3, <3>4
    <3> QED BY <3>2, <3>3, <3>5
  <2>3. CASE p = b
    <3>1. q = b
      <4>1. q \in S => q <= e /\ q \in Nat BY <1>1
      <4> QED BY <1>2, <1>8, <2>3, <4>1
    <3>2. j[p] = Len(more) /\ j[q] = Len(more) BY <1>7, <2>3, <3>1
    <3> QED BY <1>5, <3>2
  <2> QED BY <2>1, <2>2, <2>3
<1>9. ASSUME NEW p \in T, p < b
      PROVE  IF lens[p] = Dummy THEN j[After(lens[p], p)] = j[p]
             ELSE j[After(lens[p], p)] = j[p] + 1 /\ more[j[p] + 1] = lens[p]
  <2>1. p \in S BY <1>2, <1>9
  <2>2. CASE p = e
    BY <1>3, <1>5, <1>7, <2>1, <2>2
  <2>3. CASE p # e
    <3>1. p < e BY <1>1, <2>1, <2>3
    <3> DEFINE q == After(lens[p], p)
               x == i[p]
    <3>2. q \in S BY <2>1, <3>1 DEF Chain
    <3>3. IF lens[p] = Dummy THEN i[q] = x
          ELSE i[q] = x + 1 /\ acc[x + 1] = lens[p]
      BY <2>1, <3>1 DEF Numbered
    <3>4. j[q] = i[q] /\ j[p] = x /\ i[q] <= Len(acc) /\ x \in Nat BY <1>3, <1>7, <2>1, <3>2
    <3> HIDE DEF q, x
    <3>5. CASE lens[p] = Dummy BY <3>3, <3>4, <3>5 DEF q
    <3>6. CASE lens[p] # Dummy
      <4>1. x + 1 \in 1 .. Len(acc)
        <5>1. x + 1 <= Len(acc) /\ x \in Nat BY <3>3, <3>4, <3>6
        <5>2. Len(acc) \in Nat BY <1>3
        <5> QED BY <5>1, <5>2
      <4>2. more[x + 1] = acc[x + 1] BY <1>5, <4>1
      <4> QED BY <3>3, <3>4, <3>6, <4>2 DEF q
    <3> QED BY <3>5, <3>6
  <2> QED BY <2>2, <2>3
<1>10. j[a] = 0
  BY <1>1, <1>3, <1>7
<1>11. Numbered(lens, T, a, b, j, more)
  BY <1>7, <1>8, <1>9, <1>10 DEF Numbered
<1> QED BY <1>6, <1>11 DEF more

LEMMA StoredNew ==
    ASSUME NEW lens, NEW a, NEW e, NEW acc, NEW o, Stored(lens, a, e, acc, o),
           Message(lens[e], e) \/ Skipped(lens[e], e), After(lens[e], e) < 3 * BufferLength
    PROVE  Stored(lens, a, After(lens[e], e),
                  IF o \/ lens[e] = Dummy THEN acc ELSE Append(acc, lens[e]), o)
<1> DEFINE b == After(lens[e], e)
           more == IF o \/ lens[e] = Dummy THEN acc ELSE Append(acc, lens[e])
<1>1. PICK S \in SUBSET Nat, i \in [Nat -> Nat] :
        Chain(lens, S, a, e) /\ (o \/ Numbered(lens, S, a, e, i, acc))
  BY DEF Stored
<1>2. /\ a \in Nat /\ e \in Nat /\ acc \in Seq(Lengths) /\ e < 3 * BufferLength
      /\ a <= e /\ a <= BufferLength
  BY DEF Stored
<1>3. b \in Nat /\ e < b /\ Chain(lens, S \cup {b}, a, b)
  BY <1>1, <1>2, ChainNew
<1>4. more \in Seq(Lengths)
  <2>1. lens[e] # Dummy => lens[e] \in Lengths BY <1>2, Follows DEF Message, Skipped
  <2> QED BY <1>2, <2>1, AppendMore
<1>5. \E j \in [Nat -> Nat] : o \/ Numbered(lens, S \cup {b}, a, b, j, more)
  <2>1. CASE o BY <2>1
  <2>2. CASE ~o
    <3>1. Numbered(lens, S, a, e, i, acc) BY <1>1, <2>2
    <3> QED BY <1>1, <1>2, <2>2, <3>1, NumberedNew
  <2> QED BY <2>1, <2>2
<1>6. S \cup {b} \in SUBSET Nat /\ a <= b /\ b < 3 * BufferLength
  <2>1. a <= b BY <1>2, <1>3
  <2> QED BY <1>1, <1>3, <2>1
<1> HIDE DEF b, more
<1>7. Stored(lens, a, b, more, o)
  BY <1>2, <1>3, <1>4, <1>5, <1>6 DEF Stored
<1> QED BY <1>7 DEF b, more

\* The reader passes the end of the buffer.
LEMMA Laps ==
    ASSUME NEW n, NEW p \in Nat, p < 2 * BufferLength
    PROVE  /\ Message(n, p + BufferLength) <=> Message(n, p)
           /\ Skipped(n, p + BufferLength) <=> Skipped(n, p)
           /\ Message(n, p) \/ Skipped(n, p) =>
                After(n, p + BufferLength) = After(n, p) + BufferLength
<1>1. Fold(p + BufferLength) = Fold(p) /\ Fold(p) \in Nat
  BY Folds, Constants
<1>2. Message(n, p) \/ Skipped(n, p) => n \in Nat
  BY Constants DEF Message, Skipped
<1>3. n \in Nat => Size(n) \in Nat
  BY Sizes
<1>4. Message(n, p) \/ Skipped(n, p) => After(n, p + BufferLength) = After(n, p) + BufferLength
  BY <1>1, <1>2, <1>3, Constants DEF After
<1> QED BY <1>1, <1>4 DEF Message, Skipped

LEMMA StoredLap ==
    ASSUME NEW lens, NEW other, NEW e, NEW acc, NEW o, Stored(lens, BufferLength, e, acc, o),
           \A p \in 0 .. (e - BufferLength - 1) : other[p] = lens[p + BufferLength]
    PROVE  Stored(other, 0, e - BufferLength, acc, o)
<1> DEFINE L == BufferLength
           f == e - L
<1>1. PICK S \in SUBSET Nat, i \in [Nat -> Nat] :
        Chain(lens, S, L, e) /\ (o \/ Numbered(lens, S, L, e, i, acc))
  BY DEF Stored
<1>2. L \in Nat /\ L >= 4 /\ e \in Nat /\ acc \in Seq(Lengths) /\ e < 3 * L /\ L <= e
  BY Constants DEF Stored
<1>3. f \in Nat /\ f < 2 * L /\ e = f + L /\ f < 3 * L
  BY <1>2
<1> DEFINE T == {p \in Nat : p + L \in S}
           j == [p \in Nat |-> i[p + L]]
<1>4. T \in SUBSET Nat /\ j \in [Nat -> Nat]
  <2>1. \A p \in Nat : p + L \in Nat BY <1>2
  <2> QED BY <2>1
<1>5. L \in S /\ e \in S /\ \A p \in S : p \in Nat /\ L <= p /\ p <= e /\ p < 3 * L
  BY <1>1, <1>2, ChainPoints
<1>6. ASSUME NEW p \in T PROVE p \in Nat /\ p + L \in S /\ p <= f /\ j[p] = i[p + L] /\ p < 2 * L
  <2>1. p \in Nat /\ p + L \in S /\ j[p] = i[p + L] OBVIOUS
  <2>2. p + L <= e BY <1>5, <2>1
  <2>3. p <= f /\ p < 2 * L
    <3> HIDE DEF T, j
    <3>1. p \in Nat /\ p + L <= f + L /\ f \in Nat /\ f < 2 * L /\ L \in Nat
      BY <1>2, <1>3, <2>1, <2>2
    <3> HIDE DEF f, L
    <3>2. p <= f BY <3>1
    <3> QED BY <3>1, <3>2
  <2> QED BY <2>1, <2>3
<1>7. \A p \in Nat : p + L \in S => p \in T
  OBVIOUS
<1>8. 0 \in T /\ f \in T
  <2>1. 0 + L = L /\ f + L = e BY <1>2, <1>3
  <2> QED BY <1>3, <1>5, <1>7, <2>1
<1>9. j[0] = i[L] /\ j[f] = i[e]
  BY <1>3, <1>2
<1> HIDE DEF T, j
<1>10. ASSUME NEW p \in T, p < f
       PROVE  /\ Message(other[p], p) \/ Skipped(other[p], p)
              /\ other[p] = lens[p + L]
              /\ After(other[p], p) + L = After(lens[p + L], p + L)
              /\ After(other[p], p) \in T
  <2>1. p \in Nat /\ p + L \in S /\ p < 2 * L BY <1>6
  <2>2. p \in 0 .. (e - L - 1) BY <1>2, <1>3, <1>10, <2>1
  <2>3. other[p] = lens[p + L] BY <2>2
  <2> DEFINE n == lens[p + L]
             q == p + L
  <2>4. q \in S /\ q < e BY <1>2, <1>3, <1>10, <2>1
  <2>5. (Message(n, q) \/ Skipped(n, q)) /\ After(n, q) \in S
    BY <1>1, <1>2, <2>4, ChainPoints
  <2> HIDE DEF n
  <2>6. Message(n, p) \/ Skipped(n, p)
    BY <2>1, <2>5, Laps
  <2>7. After(n, q) = After(n, p) + L
    BY <2>1, <2>6, Laps
  <2>8. p < 3 * L BY <1>2, <2>1
  <2>9. After(n, p) \in Nat
    BY <2>1, <2>6, <2>8, Follows
  <2>10. After(n, p) \in T
    BY <1>7, <2>5, <2>7, <2>9
  <2> QED BY <2>3, <2>6, <2>7, <2>10 DEF n
<1>11. T \subseteq 0 .. f
  BY <1>3, <1>6
<1>12. L <= f => L \in T
  <2>1. L <= f => L + L \in S
    <3>1. L <= f => 2 * L <= e BY <1>2, <1>3
    <3>2. 2 * L = L + L BY <1>2
    <3> QED BY <1>1, <3>1, <3>2 DEF Chain
  <2> QED BY <1>2, <1>7, <2>1
<1>13. ~(2 * L <= f)
  BY <1>2, <1>3
<1>14. Chain(other, T, 0, f)
  BY <1>8, <1>10, <1>11, <1>12, <1>13 DEF Chain
<1>15. Numbered(lens, S, L, e, i, acc) => Numbered(other, T, 0, f, j, acc)
  <2> SUFFICES ASSUME Numbered(lens, S, L, e, i, acc) PROVE Numbered(other, T, 0, f, j, acc)
    OBVIOUS
  <2>1. j[0] = 0 /\ j[f] = Len(acc)
    BY <1>9 DEF Numbered
  <2>2. ASSUME NEW p \in T, NEW q \in T, p <= q PROVE j[p] <= j[q]
    <3>1. p + L \in S /\ q + L \in S /\ p + L <= q + L BY <1>2, <1>6, <2>2
    <3>2. i[p + L] <= i[q + L] BY <3>1 DEF Numbered
    <3> QED BY <1>6, <3>2
  <2>3. ASSUME NEW p \in T, p < f
        PROVE  IF other[p] = Dummy THEN j[After(other[p], p)] = j[p]
               ELSE j[After(other[p], p)] = j[p] + 1 /\ acc[j[p] + 1] = other[p]
    <3> DEFINE q == p + L
               b == After(other[p], p)
    <3>1. q \in S /\ q < e /\ j[p] = i[q] BY <1>2, <1>3, <1>6, <2>3
    <3>2. other[p] = lens[q] /\ b + L = After(lens[q], q) /\ b \in T BY <1>10, <2>3
    <3>3. j[b] = i[After(lens[q], q)]
      <4>1. j[b] = i[b + L] BY <1>6, <3>2
      <4> QED BY <3>2, <4>1
    <3>4. IF lens[q] = Dummy THEN i[After(lens[q], q)] = i[q]
          ELSE i[After(lens[q], q)] = i[q] + 1 /\ acc[i[q] + 1] = lens[q]
      BY <3>1 DEF Numbered
    <3> QED BY <3>1, <3>2, <3>3, <3>4
  <2> QED BY <2>1, <2>2, <2>3 DEF Numbered
<1>16. o \/ Numbered(other, T, 0, f, j, acc)
  BY <1>1, <1>15
<1>17. 0 <= f /\ 0 <= L /\ f < 3 * L /\ f \in Nat
  BY <1>2, <1>3
<1> HIDE DEF f
<1>18. Stored(other, 0, f, acc, o)
  BY <1>2, <1>4, <1>14, <1>16, <1>17, Constants DEF Stored
<1> QED BY <1>18 DEF f

\* The buffer is full, and the oldest block becomes a part of its end to be skipped.
LEMMA StoredOverrun ==
    ASSUME NEW lens, NEW other, NEW a \in 1 .. (BufferLength - 1), NEW acc, NEW o,
           Stored(lens, a, a + BufferLength, acc, o), other[a] = Dummy,
           \A p \in (a + 1) .. (a + BufferLength - 1) : other[p] = lens[p]
    PROVE  Stored(other, a, a + BufferLength, acc, TRUE)
<1> DEFINE L == BufferLength
           e == a + L
<1>1. PICK S \in SUBSET Nat, i \in [Nat -> Nat] : Chain(lens, S, a, e)
  BY DEF Stored
<1>2. L \in Nat /\ L >= 4 /\ e \in Nat /\ e < 3 * L /\ e < 2 * L /\ a \in Nat /\ a < L /\ L < e
  BY Constants
<1> DEFINE T == {a} \cup From(S, L)
<1>3. a \in S /\ e \in S /\ \A p \in S : p \in Nat /\ a <= p /\ p <= e /\ p < 3 * L
  BY <1>1, <1>2, ChainPoints
<1>4. L \in S
  BY <1>1, <1>2 DEF Chain
<1>5. ASSUME NEW p \in T PROVE p \in Nat /\ p \in S /\ a <= p /\ p <= e /\ (p = a \/ L <= p)
  BY <1>2, <1>3, <1>5, FromPoints
<1>6. L \in T /\ e \in T /\ a \in T
  <2>1. L <= L /\ L <= e BY <1>2
  <2> QED BY <1>3, <1>4, <2>1, FromPoints
<1>7. \A p \in S : L <= p => p \in T
  BY FromPoints
<1> HIDE DEF T
<1>8. T \subseteq a .. e
  <2>1. ASSUME NEW p \in T PROVE p \in a .. e
    <3>1. p \in Nat /\ a <= p /\ p <= e BY <1>5, <2>1
    <3> QED BY <1>2, <3>1
  <2> QED BY <2>1
<1>9. ASSUME NEW p \in T, p < e
      PROVE  (Message(other[p], p) \/ Skipped(other[p], p)) /\ After(other[p], p) \in T
  <2>1. CASE p = a
    <3>1. Fold(a) = a BY <1>2 DEF Fold
    <3>2. Skipped(other[a], a) /\ After(other[a], a) = L
      BY <1>2, <3>1 DEF Skipped, After
    <3> QED BY <1>6, <2>1, <3>2
  <2>2. CASE p # a
    <3>1. p \in Nat /\ p \in S /\ a < p /\ L <= p
      <4>1. p \in Nat /\ p \in S /\ a <= p /\ L <= p BY <1>5, <2>2
      <4> QED BY <1>2, <2>2, <4>1
    <3>2. other[p] = lens[p]
      <4>1. p \in (a + 1) .. (a + BufferLength - 1) BY <1>2, <1>9, <3>1
      <4> QED BY <4>1
    <3>3. /\ Message(lens[p], p) \/ Skipped(lens[p], p)
          /\ After(lens[p], p) \in S /\ After(lens[p], p) \in Nat /\ p < After(lens[p], p)
      BY <1>1, <1>2, <1>9, <3>1, ChainPoints
    <3>4. L <= After(lens[p], p)
      BY <1>2, <3>1, <3>3
    <3> QED BY <1>7, <3>2, <3>3, <3>4
  <2> QED BY <2>1, <2>2
<1>10. ~(2 * L <= e)
  BY <1>2
<1>11. Chain(other, T, a, e)
  BY <1>6, <1>8, <1>9, <1>10 DEF Chain
<1>12. acc \in Seq(Lengths) /\ T \in SUBSET Nat /\ i \in [Nat -> Nat]
  BY <1>5 DEF Stored
<1>13. a <= e /\ a <= L
  BY <1>2
<1> HIDE DEF e
<1>14. Stored(other, a, e, acc, TRUE)
  BY <1>2, <1>11, <1>12, <1>13 DEF Stored
<1> QED BY <1>14 DEF e

-----------------------------------------------------------------------------
(* The operators of the buffer.                                            *)

IsEven(n) == n % 2 = 0

End(r) == r.read + r.count

\* The length bytes; that of a message that is held was read before.
Lens(r, h) ==
    [p \in 0 .. (3 * BufferLength) |->
        IF h /\ p = r.read THEN r.len ELSE r.cell[Fold(p)]]

Position(r) ==
    /\ r.read < BufferLength /\ r.count < 2 * BufferLength
    /\ IsEven(r.read) /\ IsEven(r.write) /\ IsEven(r.count)
    /\ r.count > BufferLength => r.write = 0
    /\ \/ r.write = Fold(End(r))
       \/ r.write = BufferLength /\ Fold(End(r)) = 0

\* The buffer holds the messages acc, or any messages if o.
Queue(r, h, acc, o) ==
    /\ r \in Ring /\ Position(r)
    /\ Stored(Lens(r, h), r.read, End(r), acc, o)
    /\ h => r.count > 0 /\ r.len # Dummy

Of(c, n, w, k, p, l) ==
    [cell |-> c, count |-> n, write |-> w, chars |-> k, read |-> p, len |-> l]

LEMMA EvenSums ==
    /\ IsEven(0) /\ IsEven(BufferLength)
    /\ \A a, b \in Nat : IsEven(a) /\ IsEven(b) => IsEven(a + b)
    /\ \A a, b \in Nat : IsEven(a) /\ IsEven(b) /\ b <= a => IsEven(a - b)
    /\ \A n \in Nat : IsEven(Even(n)) /\ IsEven(Size(n))
    /\ \A n, m \in Nat : IsEven(m) /\ n <= m => Even(n) <= m
<1>1. IsEven(BufferLength) BY Constants DEF IsEven
<1>2. \A n \in Nat : IsEven(Even(n)) /\ IsEven(Size(n)) BY Parity DEF IsEven
<1>3. \A n, m \in Nat : IsEven(m) /\ n <= m => Even(n) <= m BY EvenFits DEF IsEven
<1>4. IsEven(0) BY DEF IsEven
<1>5. \A a, b \in Nat : IsEven(a) /\ IsEven(b) => IsEven(a + b) BY SMT DEF IsEven
<1>6. \A a, b \in Nat : IsEven(a) /\ IsEven(b) /\ b <= a => IsEven(a - b) BY SMT DEF IsEven
<1> QED BY <1>1, <1>2, <1>3, <1>4, <1>5, <1>6

LEMMA Fields ==
    ASSUME NEW r \in Ring
    PROVE  /\ r.cell \in [0 .. (BufferLength - 1) -> Byte]
           /\ r.count \in Nat /\ r.count < ByteMod /\ r.count \in Byte
           /\ r.write \in Nat /\ r.write <= BufferLength
           /\ r.chars \in Nat /\ r.chars <= BufferLength
           /\ r.read \in Nat /\ r.read <= BufferLength
           /\ r.len \in Nat /\ r.len < ByteMod /\ r.len \in Byte
           /\ r = Of(r.cell, r.count, r.write, r.chars, r.read, r.len)
<1>1. /\ r.cell \in [0 .. (BufferLength - 1) -> Byte] /\ r.count \in Byte
      /\ r.write \in 0 .. BufferLength /\ r.chars \in 0 .. BufferLength
      /\ r.read \in 0 .. BufferLength /\ r.len \in Byte
  BY DEF Ring
<1>2. r = Of(r.cell, r.count, r.write, r.chars, r.read, r.len)
  BY DEF Ring, Of
<1> QED BY <1>1, <1>2, Constants DEF Byte

LEMMA MadeFields ==
    ASSUME NEW c, NEW n, NEW w, NEW k, NEW p, NEW l
    PROVE  LET m == Of(c, n, w, k, p, l) IN
           /\ m.cell = c /\ m.count = n /\ m.write = w /\ m.chars = k /\ m.read = p /\ m.len = l
BY DEF Of

LEMMA MadeRing ==
    ASSUME NEW c \in [0 .. (BufferLength - 1) -> Byte], NEW n \in Nat, n < ByteMod,
           NEW w \in 0 .. BufferLength, NEW k \in 0 .. BufferLength, NEW p \in 0 .. BufferLength,
           NEW l \in Byte
    PROVE  Of(c, n, w, k, p, l) \in Ring
<1>1. n \in Byte BY Constants DEF Byte
<1> QED BY <1>1 DEF Of, Ring

LEMMA LensAt ==
    ASSUME NEW r, NEW h, NEW p \in Nat, p < 3 * BufferLength
    PROVE  Lens(r, h)[p] = IF h /\ p = r.read THEN r.len ELSE r.cell[Fold(p)]
<1>1. p \in 0 .. (3 * BufferLength) BY Constants
<1> QED BY <1>1 DEF Lens

LEMMA LensFree ==
    ASSUME NEW r, NEW p \in Nat, p < 3 * BufferLength
    PROVE  Lens(r, FALSE)[p] = r.cell[Fold(p)]
BY Constants DEF Lens

LEMMA LensHeld ==
    ASSUME NEW r, NEW p \in Nat, p < 3 * BufferLength
    PROVE  Lens(r, TRUE)[p] = IF p = r.read THEN r.len ELSE r.cell[Fold(p)]
BY Constants DEF Lens

\* Where the ends of the bytes stored are.
LEMMA Places ==
    ASSUME NEW r, NEW h, NEW acc, NEW o, Queue(r, h, acc, o)
    PROVE  /\ r \in Ring /\ r.read \in Nat /\ r.count \in Nat /\ r.write \in Nat /\ r.chars \in Nat
           /\ r.read < BufferLength /\ r.count < 2 * BufferLength /\ r.write <= BufferLength
           /\ End(r) \in Nat /\ End(r) = r.read + r.count /\ End(r) < 3 * BufferLength
           /\ r.read = End(r) <=> r.count = 0
           /\ r.read < End(r) <=> r.count > 0
           /\ r.write < BufferLength => r.write = Fold(End(r))
           /\ r.write > 0 => r.count <= BufferLength
           /\ acc \in Seq(Lengths)
<1>1. r \in Ring /\ r.read < BufferLength /\ r.count < 2 * BufferLength
      /\ acc \in Seq(Lengths)
  BY DEF Queue, Position, Stored
<1>2. /\ r.read \in Nat /\ r.count \in Nat /\ r.write \in Nat /\ r.chars \in Nat
      /\ r.write <= BufferLength
  BY <1>1, Fields
<1>3. End(r) = r.read + r.count
  BY DEF End
<1>4. /\ End(r) \in Nat /\ End(r) < 3 * BufferLength
      /\ r.read = End(r) <=> r.count = 0
      /\ r.read < End(r) <=> r.count > 0
  BY <1>1, <1>2, <1>3, Constants
<1>5. r.write < BufferLength => r.write = Fold(End(r))
  BY <1>2, Constants DEF Queue, Position
<1>6. r.write > 0 => r.count <= BufferLength
  BY <1>2, Constants DEF Queue, Position
<1> QED BY <1>1, <1>2, <1>3, <1>4, <1>5, <1>6

LEMMA MadeCell ==
    ASSUME NEW c, NEW n, NEW w, NEW k, NEW p, NEW l, NEW x
    PROVE  [Of(c, n, w, k, p, l) EXCEPT !.cell = x] = Of(x, n, w, k, p, l)
BY DEF Of

LEMMA MadeCount ==
    ASSUME NEW c, NEW n, NEW w, NEW k, NEW p, NEW l, NEW x
    PROVE  [Of(c, n, w, k, p, l) EXCEPT !.count = x] = Of(c, x, w, k, p, l)
BY DEF Of

LEMMA MadeWrite ==
    ASSUME NEW c, NEW n, NEW w, NEW k, NEW p, NEW l, NEW x
    PROVE  [Of(c, n, w, k, p, l) EXCEPT !.write = x] = Of(c, n, x, k, p, l)
BY DEF Of

LEMMA MadeChars ==
    ASSUME NEW c, NEW n, NEW w, NEW k, NEW p, NEW l, NEW x
    PROVE  [Of(c, n, w, k, p, l) EXCEPT !.chars = x] = Of(c, n, w, x, p, l)
BY DEF Of

LEMMA MadeRead ==
    ASSUME NEW c, NEW n, NEW w, NEW k, NEW p, NEW l, NEW x
    PROVE  [Of(c, n, w, k, p, l) EXCEPT !.read = x] = Of(c, n, w, k, x, l)
BY DEF Of

LEMMA MadeLen ==
    ASSUME NEW c, NEW n, NEW w, NEW k, NEW p, NEW l, NEW x
    PROVE  [Of(c, n, w, k, p, l) EXCEPT !.len = x] = Of(c, n, w, k, p, x)
BY DEF Of

LEMMA ReaderMakes ==
    ASSUME NEW r \in Ring, NEW c, NEW p, NEW l
    PROVE  /\ [r EXCEPT !.count = c, !.read = p] = Of(r.cell, c, r.write, r.chars, p, r.len)
           /\ [r EXCEPT !.len = l] = Of(r.cell, r.count, r.write, r.chars, r.read, l)
<1>1. r = Of(r.cell, r.count, r.write, r.chars, r.read, r.len)
  BY Fields
<1>2. [r EXCEPT !.count = c] = Of(r.cell, c, r.write, r.chars, r.read, r.len)
  BY <1>1, MadeCount
<1>3. [r EXCEPT !.count = c, !.read = p] = [[r EXCEPT !.count = c] EXCEPT !.read = p]
  OBVIOUS
<1>4. [r EXCEPT !.len = l] = Of(r.cell, r.count, r.write, r.chars, r.read, l)
  BY <1>1, MadeLen
<1>5. [Of(r.cell, c, r.write, r.chars, r.read, r.len) EXCEPT !.read = p]
        = Of(r.cell, c, r.write, r.chars, p, r.len)
  BY MadeRead
<1> QED BY <1>2, <1>3, <1>4, <1>5

LEMMA ReceiveSkips ==
    ASSUME NEW r, r.count # 0, r.cell[r.read] = Dummy
    PROVE  LET s == [r EXCEPT !.count = Minus(@, BufferLength - r.read), !.read = 0]
           IN  Receive(r) = IF s.count # 0 THEN [s EXCEPT !.len = s.cell[s.read]] ELSE s
BY SMT DEF Receive

LEMMA ReceiveMakes ==
    ASSUME NEW r \in Ring, r.count # 0
    PROVE  /\ r.cell[r.read] # Dummy =>
                Receive(r) = Of(r.cell, r.count, r.write, r.chars, r.read, r.cell[r.read])
           /\ r.cell[r.read] = Dummy =>
                LET c == Minus(r.count, BufferLength - r.read) IN
                Receive(r) = Of(r.cell, c, r.write, r.chars, 0,
                                IF c = 0 THEN r.len ELSE r.cell[0])
<1> DEFINE c == Minus(r.count, BufferLength - r.read)
           s == [r EXCEPT !.count = c, !.read = 0]
           t == Of(r.cell, c, r.write, r.chars, 0, r.len)
<1>1. s = t
  <2> HIDE DEF c
  <2> QED BY ReaderMakes
<1>2. CASE r.cell[r.read] # Dummy
  <2>1. Receive(r) = [r EXCEPT !.len = r.cell[r.read]]
    BY <1>2 DEF Receive
  <2> QED BY <1>2, <2>1, ReaderMakes
<1>3. CASE r.cell[r.read] = Dummy
  <2>1. Receive(r) = IF s.count # 0 THEN [s EXCEPT !.len = s.cell[s.read]] ELSE s
    BY <1>3, ReceiveSkips
  <2> HIDE DEF s
  <2>2. Receive(r) = IF t.count # 0 THEN [t EXCEPT !.len = t.cell[t.read]] ELSE t
    BY <1>1, <2>1
  <2> HIDE DEF c
  <2>3. t.count = c /\ t.cell = r.cell /\ t.read = 0
    BY MadeFields
  <2>4. [t EXCEPT !.len = r.cell[0]] = Of(r.cell, c, r.write, r.chars, 0, r.cell[0])
    BY MadeLen
  <2> HIDE DEF t
  <2>5. Receive(r) = IF c # 0 THEN [t EXCEPT !.len = r.cell[0]] ELSE t
    BY <2>2, <2>3
  <2>6. Receive(r) = Of(r.cell, c, r.write, r.chars, 0, IF c = 0 THEN r.len ELSE r.cell[0])
    BY <2>4, <2>5 DEF t
  <2> QED BY <1>3, <2>6 DEF c
<1> QED BY <1>2, <1>3

\* The presentation layer gets the oldest message.
LEMMA ReceiveQueue ==
    ASSUME NEW r, NEW acc, NEW o, Queue(r, FALSE, acc, o), r.count # 0
    PROVE  LET m == Receive(r) IN
           /\ Queue(m, m.count # 0, acc, o)
           /\ m.cell = r.cell /\ m.write = r.write /\ m.chars = r.chars /\ m.count <= r.count
<1> DEFINE m == Receive(r)
           e == End(r)
           n == r.cell[r.read]
           lens == Lens(r, FALSE)
<1>1. /\ r \in Ring /\ r.read \in Nat /\ r.count \in Nat /\ r.write \in Nat /\ r.chars \in Nat
      /\ r.read < BufferLength /\ r.count < 2 * BufferLength /\ r.write <= BufferLength
      /\ e \in Nat /\ e = r.read + r.count /\ e < 3 * BufferLength
      /\ r.read < e
  <2>1. e = End(r) OBVIOUS
  <2> HIDE DEF e
  <2>2. /\ r \in Ring /\ r.read \in Nat /\ r.count \in Nat /\ r.write \in Nat /\ r.chars \in Nat
        /\ r.read < BufferLength /\ r.count < 2 * BufferLength /\ r.write <= BufferLength
    BY Places
  <2>3. e \in Nat /\ e = r.read + r.count /\ e < 3 * BufferLength
    BY <2>1, Places
  <2>4. r.count > 0 BY <2>2
  <2> QED BY <2>2, <2>3, <2>4
<1>2. /\ r.cell \in [0 .. (BufferLength - 1) -> Byte] /\ r.len \in Byte
      /\ r.chars \in 0 .. BufferLength /\ r.write \in 0 .. BufferLength
      /\ r.count < ByteMod /\ r.read \in 0 .. BufferLength
  BY <1>1, Fields, Constants
<1>3. lens[r.read] = n
  <2>1. Fold(r.read) = r.read BY <1>1 DEF Fold
  <2>2. r.read < 3 * BufferLength BY <1>1, Constants
  <2> QED BY <1>1, <2>1, <2>2, LensFree
<1>4. Stored(lens, r.read, e, acc, o) /\ Position(r)
  BY DEF Queue
<1>5. /\ Message(n, r.read) \/ Skipped(n, r.read)
      /\ After(n, r.read) \in Nat /\ After(n, r.read) <= e
  BY <1>1, <1>3, <1>4, StoredFirst
<1>6. CASE n # Dummy
  <2>1. m = Of(r.cell, r.count, r.write, r.chars, r.read, n)
    BY <1>1, <1>6, ReceiveMakes
  <2> HIDE DEF m, n
  <2>2. /\ m.cell = r.cell /\ m.count = r.count /\ m.write = r.write /\ m.chars = r.chars
        /\ m.read = r.read /\ m.len = n
    BY <2>1, MadeFields
  <2>3. m \in Ring
    <3>1. n \in Byte
      <4>1. r.read \in 0 .. (BufferLength - 1) BY <1>1, Constants
      <4> QED BY <1>2, <4>1 DEF n
    <3> QED BY <1>2, <2>1, <1>1, <3>1, MadeRing
  <2>4. Position(m) /\ End(m) = e
    BY <1>4, <2>2 DEF Position, End
  <2>5. Stored(Lens(m, TRUE), m.read, End(m), acc, o)
    <3>1. ASSUME NEW p \in r.read .. (e - 1) PROVE Lens(m, TRUE)[p] = lens[p]
      <4>1. p \in Nat /\ p < 3 * BufferLength BY <1>1, <3>1, Constants
      <4>2. Lens(m, TRUE)[p] = IF p = r.read THEN n ELSE r.cell[Fold(p)]
        BY <2>2, <4>1, LensHeld
      <4>3. lens[p] = r.cell[Fold(p)]
        BY <4>1, LensFree
      <4> QED BY <1>3, <4>2, <4>3
    <3> HIDE DEF e, lens
    <3>2. Stored(Lens(m, TRUE), r.read, e, acc, o)
      BY <1>4, <3>1, StoredSame
    <3> QED BY <2>2, <2>4, <3>2
  <2>6. m.count # 0 /\ m.count > 0
    BY <1>1, <2>2
  <2>7. Queue(m, TRUE, acc, o)
    BY <1>6, <2>2, <2>3, <2>4, <2>5, <2>6 DEF Queue
  <2>8. Queue(m, m.count # 0, acc, o)
    BY <2>6, <2>7
  <2> QED BY <1>1, <2>2, <2>8 DEF m
<1>7. CASE n = Dummy
  <2> DEFINE c == e - BufferLength
             l == IF c = 0 THEN r.len ELSE r.cell[0]
  <2>1. After(n, r.read) = BufferLength /\ BufferLength <= e
    <3>1. Fold(r.read) = r.read BY <1>1 DEF Fold
    <3>2. After(n, r.read) = BufferLength BY <1>1, <1>7, <3>1, Constants DEF After
    <3> QED BY <1>5, <3>2
  <2>2. c \in Nat /\ c <= r.count /\ c < 2 * BufferLength
        /\ Minus(r.count, BufferLength - r.read) = c
    <3>1. c \in Nat /\ c <= r.count /\ c < 2 * BufferLength
      BY <1>1, <2>1, Constants
    <3> DEFINE d == BufferLength - r.read
    <3>2. d \in Nat /\ d <= r.count /\ r.count - d = c
      BY <1>1, <2>1, Constants
    <3> HIDE DEF d, c
    <3>3. Minus(r.count, d) = r.count - d
      BY <1>1, <1>2, <3>2, Sums
    <3> QED BY <3>1, <3>2, <3>3 DEF d
  <2>3. m = Of(r.cell, c, r.write, r.chars, 0, l)
    <3> HIDE DEF c
    <3> QED BY <1>1, <1>7, <2>2, ReceiveMakes
  <2> HIDE DEF m, n
  <2>4. /\ m.cell = r.cell /\ m.count = c /\ m.write = r.write /\ m.chars = r.chars
        /\ m.read = 0 /\ m.len = l
    <3> HIDE DEF c, l
    <3> QED BY <2>3, MadeFields
  <2>5. m \in Ring
    <3>1. l \in Byte BY <1>2, Constants
    <3>2. c < ByteMod BY <1>1, <1>2, <2>2, Constants
    <3>3. 0 \in 0 .. BufferLength BY Constants
    <3> HIDE DEF c, l
    <3> QED BY <1>2, <2>2, <2>3, <3>1, <3>2, <3>3, MadeRing
  <2>6. Position(m) /\ End(m) = c
    <3>1. End(m) = c BY <2>2, <2>4 DEF End
    <3>2. Fold(c) = Fold(e)
      <4>1. e = c + BufferLength BY <1>1, <2>1, Constants
      <4>2. c < 3 * BufferLength BY <2>2, Constants
      <4> HIDE DEF c, e
      <4> QED BY <2>2, <4>1, <4>2, Folds
    <3>3. IsEven(c)
      <4> DEFINE d == BufferLength - r.read
      <4>1. d \in Nat /\ d <= r.count /\ c = r.count - d BY <1>1, <2>1, Constants
      <4>2. IsEven(r.count) /\ IsEven(r.read) BY <1>4 DEF Position
      <4>3. IsEven(d) BY <1>1, <4>2, EvenSums, Constants
      <4> HIDE DEF c, d
      <4> QED BY <1>1, <4>1, <4>2, <4>3, EvenSums
    <3>4. c > BufferLength => r.write = 0
      BY <1>1, <1>4, <2>2, Constants DEF Position
    <3>5. IsEven(0) /\ IsEven(r.write) BY <1>4, EvenSums DEF Position
    <3>6. 0 < BufferLength BY Constants
    <3>7. r.write = Fold(c) \/ (r.write = BufferLength /\ Fold(c) = 0)
      <4>1. r.write = Fold(e) \/ (r.write = BufferLength /\ Fold(e) = 0)
        <5>1. r.write = Fold(End(r)) \/ (r.write = BufferLength /\ Fold(End(r)) = 0)
          BY <1>4 DEF Position
        <5> QED BY <5>1
      <4> HIDE DEF c, e
      <4> QED BY <3>2, <4>1
    <3> HIDE DEF c
    <3> QED BY <2>2, <2>4, <3>1, <3>3, <3>4, <3>5, <3>6, <3>7 DEF Position
  <2>7. Stored(Lens(m, c # 0), 0, c, acc, o)
    <3>1. Stored(lens, BufferLength, e, acc, o)
      <4> HIDE DEF lens, e
      <4> QED BY <1>1, <1>3, <1>4, <1>7, <2>1, StoredRest
    <3>2. ASSUME NEW p \in 0 .. (e - BufferLength - 1)
          PROVE  Lens(m, c # 0)[p] = lens[p + BufferLength]
      <4>1. p \in Nat /\ p < 2 * BufferLength /\ p < 3 * BufferLength /\ p + BufferLength \in Nat
            /\ p + BufferLength < 3 * BufferLength
        BY <1>1, <3>2, Constants
      <4>2. Fold(p + BufferLength) = Fold(p) /\ Fold(0) = 0
        <5>1. Fold(0) = 0 BY Constants DEF Fold
        <5> QED BY <4>1, <5>1, Folds
      <4>3. lens[p + BufferLength] = r.cell[Fold(p)]
        BY <4>1, <4>2, LensFree
      <4>4. Lens(m, c # 0)[p] = IF c # 0 /\ p = 0 THEN l ELSE r.cell[Fold(p)]
        <5> HIDE DEF c, l
        <5>1. p \in 0 .. (3 * BufferLength) BY <4>1, Constants
        <5> QED BY <2>4, <5>1 DEF Lens
      <4> QED BY <4>2, <4>3, <4>4
    <3> HIDE DEF lens
    <3> QED BY <3>1, <3>2, StoredLap
  <2>8. c # 0 => m.len # Dummy /\ c > 0
    <3> SUFFICES ASSUME c # 0 PROVE m.len # Dummy /\ c > 0
      OBVIOUS
    <3>1. c > 0 BY <2>2
    <3>2. Lens(m, TRUE)[0] = m.len
      <4>1. Lens(m, TRUE)[0] = IF 0 = m.read THEN m.len ELSE m.cell[Fold(0)]
        <5>1. 0 \in Nat /\ 0 < 3 * BufferLength BY Constants
        <5> QED BY <5>1, LensHeld
      <4> QED BY <2>4, <4>1
    <3>3. Message(m.len, 0) \/ Skipped(m.len, 0)
      BY <2>7, <3>1, <3>2, StoredFirst
    <3>4. Fold(0) = 0 BY Constants DEF Fold
    <3>5. m.len \in Lengths BY <3>3, <3>4 DEF Message, Skipped
    <3> QED BY <3>1, <3>5, Constants
  <2>9. Queue(m, m.count # 0, acc, o)
    <3> HIDE DEF c, l
    <3> QED BY <2>4, <2>5, <2>6, <2>7, <2>8 DEF Queue
  <2> QED BY <2>2, <2>4, <2>9 DEF m
<1> QED BY <1>6, <1>7

LEMMA ReleaseMakes ==
    ASSUME NEW r \in Ring, ~Flushes(r), NEW d, d = MessageSize(r.len)
    PROVE  Release(r) = Of(r.cell, r.count - d, r.write, r.chars,
                           IF r.read + d >= BufferLength THEN 0 ELSE r.read + d, r.len)
<1> DEFINE n == r.count - d
           q == IF r.read + d >= BufferLength THEN 0 ELSE r.read + d
<1>1. Release(r) = [r EXCEPT !.count = n, !.read = q]
  BY DEF Release
<1> HIDE DEF n, q
<1>2. Release(r) = Of(r.cell, n, r.write, r.chars, q, r.len)
  BY <1>1, ReaderMakes
<1> QED BY <1>2 DEF n, q

\* A message fits in the buffer.
LEMMA Fits ==
    ASSUME NEW n, NEW p \in Nat, p < 3 * BufferLength, Message(n, p)
    PROVE  /\ n \in Nat /\ n >= 2 /\ n + 2 <= BufferLength /\ n # Dummy
           /\ Size(n) \in Nat /\ Size(n) >= 4 /\ Size(n) <= BufferLength
           /\ n + 2 <= Size(n) /\ Size(n) = Even(n + 2) /\ MessageSize(n) = Size(n)
           /\ After(n, p) = p + Size(n) /\ Fold(p) \in Nat /\ Fold(p) + Size(n) <= BufferLength
<1>1. n \in Nat /\ n >= 2 /\ n # Dummy
  BY Constants DEF Message
<1>2. Size(n) \in Nat /\ n + 2 <= Size(n) /\ Size(n) = Even(n + 2)
  BY <1>1, Sizes DEF Size
<1>3. Fold(p) \in Nat
  BY Folds, Constants
<1>4. Fold(p) + Size(n) <= BufferLength
  BY DEF Message
<1>5. Size(n) <= BufferLength /\ n + 2 <= BufferLength /\ Size(n) >= 4
  BY <1>1, <1>2, <1>3, <1>4, Constants
<1>6. Plus(n, Overhead) = n + 2
  <2>1. n + 2 < ByteMod /\ Overhead = 2 BY <1>1, <1>5, Constants
  <2> QED BY <1>1, <2>1, Sums
<1>7. MessageSize(n) = Size(n)
  BY <1>2, <1>6 DEF MessageSize
<1>8. After(n, p) = p + Size(n)
  BY <1>1 DEF After
<1> QED BY <1>1, <1>2, <1>3, <1>4, <1>5, <1>7, <1>8

\* The message that is held is the oldest one, and all of it is in the buffer.
LEMMA HeldMessage ==
    ASSUME NEW r, NEW acc, NEW o, Queue(r, TRUE, acc, o)
    PROVE  /\ Lens(r, TRUE)[r.read] = r.len /\ Message(r.len, r.read) /\ r.len # Dummy
           /\ r.read + Size(r.len) <= End(r)
           /\ ~Flushes(r)
<1> DEFINE e == End(r)
           n == r.len
<1>1. r \in Ring /\ r.read \in Nat /\ r.read < BufferLength /\ r.count \in Nat
  BY Places
<1>2. e \in Nat /\ r.read < e /\ e = r.read + r.count
  <2>1. r.count > 0 BY DEF Queue
  <2> QED BY <2>1, Places
<1>3. Stored(Lens(r, TRUE), r.read, e, acc, o) /\ n # Dummy
  BY DEF Queue
<1>4. r.read < 3 * BufferLength
  BY <1>1, Constants
<1>5. Lens(r, TRUE)[r.read] = n
  BY <1>1, <1>4, LensHeld
<1> HIDE DEF e, n
<1>6. /\ Message(n, r.read) \/ Skipped(n, r.read)
      /\ After(n, r.read) <= e
  BY <1>2, <1>3, <1>5, StoredFirst
<1>8. Message(n, r.read)
  BY <1>3, <1>6 DEF Skipped
<1>9. After(n, r.read) = r.read + Size(n) /\ MessageSize(n) = Size(n) /\ Size(n) \in Nat
  BY <1>1, <1>4, <1>8, Fits
<1>10. ~Flushes(r)
  <2>1. ~(r.count < Size(n)) BY <1>1, <1>2, <1>6, <1>9
  <2> QED BY <1>9, <2>1 DEF Flushes, n
<1> QED BY <1>3, <1>5, <1>6, <1>8, <1>9, <1>10 DEF n, e

LEMMA HeldFirst ==
    ASSUME NEW r, NEW acc, NEW o \in BOOLEAN, Queue(r, TRUE, acc, o), ~o
    PROVE  acc # <<>> /\ r.len = Head(acc)
<1> DEFINE lens == Lens(r, TRUE)
           a == r.read
           e == End(r)
           n == r.len
<1>1. a < e
  <2>1. r.count > 0 BY DEF Queue
  <2> QED BY <2>1, Places
<1>2. lens[a] = n /\ n # Dummy
  BY HeldMessage
<1>3. Stored(lens, a, e, acc, o)
  BY DEF Queue
<1> HIDE DEF lens, a, e, n
<1>4. ~o => acc # <<>> /\ lens[a] = Head(acc)
  BY <1>1, <1>2, <1>3, StoredFirst
<1> QED BY <1>2, <1>4 DEF n

\* It is released.
LEMMA ReleaseQueue ==
    ASSUME NEW r, NEW acc, NEW o \in BOOLEAN, Queue(r, TRUE, acc, o)
    PROVE  LET m == Release(r) IN
           /\ Queue(m, FALSE, IF o THEN acc ELSE SubSeq(acc, 2, Len(acc)), o)
           /\ m.cell = r.cell /\ m.write = r.write /\ m.chars = r.chars /\ m.count <= r.count
<1> DEFINE m == Release(r)
           e == End(r)
           d == Size(r.len)
           b == r.read + d
           lens == Lens(r, TRUE)
           rest == IF o THEN acc ELSE SubSeq(acc, 2, Len(acc))
<1>1. /\ r \in Ring /\ r.read \in Nat /\ r.count \in Nat /\ r.write \in Nat /\ r.chars \in Nat
      /\ r.read < BufferLength /\ r.count < 2 * BufferLength /\ r.write <= BufferLength
  BY Places
<1>2. e \in Nat /\ e = r.read + r.count /\ e < 3 * BufferLength
  BY Places
<1>3. /\ r.cell \in [0 .. (BufferLength - 1) -> Byte] /\ r.len \in Byte
      /\ r.chars \in 0 .. BufferLength /\ r.write \in 0 .. BufferLength /\ r.count < ByteMod
  BY <1>1, Fields, Constants
<1>4. /\ lens[r.read] = r.len /\ Message(r.len, r.read) /\ r.len # Dummy /\ b <= e
      /\ ~Flushes(r) /\ (~o => acc # <<>>)
  <2>1. /\ Lens(r, TRUE)[r.read] = r.len /\ Message(r.len, r.read) /\ r.len # Dummy
        /\ r.read + Size(r.len) <= End(r) /\ ~Flushes(r)
    BY HeldMessage
  <2>2. ~o => acc # <<>>
    <3>1. ASSUME ~o PROVE acc # <<>>
      BY <3>1, HeldFirst
    <3> QED BY <3>1
  <2> QED BY <2>1, <2>2
<1>5. Stored(lens, r.read, e, acc, o) /\ Position(r)
  BY DEF Queue
<1>6. /\ d \in Nat /\ d >= 4 /\ MessageSize(r.len) = d /\ After(r.len, r.read) = b
      /\ b <= BufferLength /\ b \in Nat /\ r.read < e /\ d <= r.count /\ r.read < b
  <2>1. r.read < 3 * BufferLength BY <1>1, Constants
  <2>2. Fold(r.read) = r.read BY <1>1 DEF Fold
  <2>3. /\ d \in Nat /\ d >= 4 /\ MessageSize(r.len) = d /\ After(r.len, r.read) = b
        /\ r.read + d <= BufferLength
    BY <1>1, <1>4, <2>1, <2>2, Fits
  <2> HIDE DEF d
  <2> QED BY <1>1, <1>2, <1>4, <2>3
<1>7. Stored(lens, b, e, rest, o)
  <2> HIDE DEF lens, e, b
  <2> QED BY <1>1, <1>4, <1>5, <1>6, StoredRest
<1> DEFINE q == IF b >= BufferLength THEN 0 ELSE b
           c == r.count - d
<1>8. m = Of(r.cell, c, r.write, r.chars, q, r.len)
  <2> HIDE DEF d
  <2> QED BY <1>1, <1>4, <1>6, ReleaseMakes
<1> HIDE DEF m
<1>9. /\ m.cell = r.cell /\ m.count = c /\ m.write = r.write /\ m.chars = r.chars
      /\ m.read = q /\ m.len = r.len
  <2> HIDE DEF c, q
  <2> QED BY <1>8, MadeFields
<1>10. /\ c \in Nat /\ c < 2 * BufferLength /\ c <= r.count /\ c < ByteMod
       /\ q \in Nat /\ q < BufferLength /\ q \in 0 .. BufferLength
       /\ e = b + c
  <2>1. c \in Nat /\ c <= r.count
    <3> HIDE DEF d
    <3> QED BY <1>1, <1>6
  <2>2. e = b + c
    <3> HIDE DEF d
    <3> QED BY <1>1, <1>2, <1>6
  <2>3. q \in Nat /\ q < BufferLength /\ q \in 0 .. BufferLength
    <3> HIDE DEF b
    <3> QED BY <1>6, Constants
  <2>4. BufferLength \in Nat /\ ByteMod \in Nat BY Constants
  <2> HIDE DEF c, q, e, b
  <2>5. c < 2 * BufferLength /\ c < ByteMod BY <1>1, <1>3, <2>1, <2>4
  <2> QED BY <2>1, <2>2, <2>3, <2>5
<1>11. m \in Ring
  <2> HIDE DEF c, q
  <2> QED BY <1>3, <1>8, <1>10, MadeRing
<1>12. IsEven(q) /\ IsEven(c)
  <2>1. IsEven(r.read) /\ IsEven(r.count) BY <1>5 DEF Position
  <2>2. IsEven(d) BY <1>1, Fields, EvenSums
  <2>3. r.read + d \in Nat /\ IsEven(r.read + d) BY <1>1, <1>6, <2>1, <2>2, EvenSums
  <2>4. IsEven(r.count - d) BY <1>1, <1>6, <2>1, <2>2, EvenSums
  <2> QED BY <2>3, <2>4, EvenSums
<1>13. Fold(q + c) = Fold(e)
  <2>1. CASE b < BufferLength
    <3>1. q = b BY <1>6, <2>1, Constants
    <3> QED BY <1>10, <3>1
  <2>2. CASE ~(b < BufferLength)
    <3>1. b = BufferLength /\ q = 0 BY <1>6, <2>2, Constants
    <3>2. q + c = c /\ e = c + BufferLength BY <1>10, <3>1, Constants
    <3>3. c < 3 * BufferLength BY <1>10, Constants
    <3> HIDE DEF c, q, e
    <3> QED BY <1>10, <3>2, <3>3, Folds
  <2> QED BY <2>1, <2>2
<1>14. Position(m) /\ End(m) = q + c
  <2>1. End(m) = q + c BY <1>9 DEF End
  <2>2. r.write = Fold(q + c) \/ (r.write = BufferLength /\ Fold(q + c) = 0)
    <3>1. r.write = Fold(End(r)) \/ (r.write = BufferLength /\ Fold(End(r)) = 0)
      BY <1>5 DEF Position
    <3> QED BY <1>13, <3>1
  <2>3. c > BufferLength => r.write = 0 BY <1>1, <1>5, <1>10, Constants DEF Position
  <2>4. IsEven(r.write) BY <1>5 DEF Position
  <2> HIDE DEF c, q
  <2> QED BY <1>9, <1>10, <1>12, <2>1, <2>2, <2>3, <2>4 DEF Position
<1>15. Stored(Lens(m, FALSE), q, q + c, rest, o)
  <2>1. CASE b < BufferLength
    <3>1. q = b /\ q + c = e BY <1>6, <1>10, <2>1, Constants
    <3>2. ASSUME NEW p \in b .. (e - 1) PROVE Lens(m, FALSE)[p] = lens[p]
      <4>1. p \in Nat /\ p < 3 * BufferLength /\ p # r.read BY <1>1, <1>2, <1>6, <3>2, Constants
      <4>2. Lens(m, FALSE)[p] = r.cell[Fold(p)] BY <1>9, <4>1, LensFree
      <4>3. lens[p] = r.cell[Fold(p)] BY <4>1, LensHeld
      <4> QED BY <4>2, <4>3
    <3> HIDE DEF lens, rest, b, e, c, q
    <3>3. Stored(Lens(m, FALSE), b, e, rest, o) BY <1>7, <3>2, StoredSame
    <3> QED BY <3>1, <3>3
  <2>2. CASE ~(b < BufferLength)
    <3>1. b = BufferLength /\ q = 0 BY <1>6, <2>2, Constants
    <3>2. q + c = e - BufferLength BY <1>2, <1>10, <3>1, Constants
    <3>3. ASSUME NEW p \in 0 .. (e - BufferLength - 1)
          PROVE  Lens(m, FALSE)[p] = lens[p + BufferLength]
      <4>1. p \in Nat /\ p < 2 * BufferLength /\ p < 3 * BufferLength /\ p + BufferLength \in Nat
            /\ p + BufferLength < 3 * BufferLength /\ p + BufferLength # r.read
        BY <1>1, <1>2, <3>3, Constants
      <4>2. Fold(p + BufferLength) = Fold(p) BY <4>1, Folds
      <4>3. Lens(m, FALSE)[p] = r.cell[Fold(p)] BY <1>9, <4>1, LensFree
      <4>4. lens[p + BufferLength] = r.cell[Fold(p)] BY <4>1, <4>2, LensHeld
      <4> QED BY <4>3, <4>4
    <3> HIDE DEF lens, rest, b, e, c, q
    <3>4. Stored(Lens(m, FALSE), 0, e - BufferLength, rest, o)
      BY <1>7, <3>1, <3>3, StoredLap
    <3> QED BY <3>1, <3>2, <3>4
  <2> QED BY <2>1, <2>2
<1>16. Queue(m, FALSE, rest, o)
  <2> HIDE DEF rest, c, q
  <2> QED BY <1>9, <1>11, <1>14, <1>15 DEF Queue
<1>17. m.count <= r.count
  BY <1>9, <1>10
<1> QED BY <1>9, <1>16, <1>17 DEF m

\* Bytes of the buffer that are not occupied are others than those that are.
LEMMA FoldDistinct ==
    ASSUME NEW a \in Nat, a < BufferLength, NEW p \in Nat, NEW e \in Nat,
           a <= p, p < e, e < a + BufferLength
    PROVE  Fold(p) # Fold(e)
BY Constants DEF Fold

LEMMA FoldOn ==
    ASSUME NEW e \in Nat, e < 3 * BufferLength, NEW k \in Nat, Fold(e) + k < BufferLength
    PROVE  Fold(e + k) = Fold(e) + k /\ e + k < 3 * BufferLength
BY Constants DEF Fold

\* A byte is written behind those stored.
LEMMA WriteFree ==
    ASSUME NEW r, NEW h \in BOOLEAN, NEW acc, NEW o, Queue(r, h, acc, o),
           NEW k \in Nat, r.count + k < BufferLength, r.write + k < BufferLength,
           NEW v \in Byte, NEW c \in 0 .. BufferLength
    PROVE  Queue(Of([r.cell EXCEPT ![r.write + k] = v], r.count, r.write, c, r.read, r.len),
                 h, acc, o)
<1> DEFINE i == r.write + k
           cells == [r.cell EXCEPT ![i] = v]
           m == Of(cells, r.count, r.write, c, r.read, r.len)
           e == End(r)
<1>1. /\ r \in Ring /\ r.read \in Nat /\ r.count \in Nat /\ r.write \in Nat
      /\ r.read < BufferLength /\ r.count < 2 * BufferLength /\ r.write <= BufferLength
  BY Places
<1>2. e \in Nat /\ e = r.read + r.count /\ e < 3 * BufferLength
  BY Places
<1>3. r.write = Fold(e)
  <2>1. r.write < BufferLength BY <1>1, Constants
  <2> QED BY <2>1, Places
<1>4. /\ r.cell \in [0 .. (BufferLength - 1) -> Byte] /\ r.len \in Byte
      /\ r.write \in 0 .. BufferLength /\ r.count < ByteMod /\ r.read \in 0 .. BufferLength
  BY <1>1, Fields, Constants
<1>5. i \in 0 .. (BufferLength - 1)
  BY <1>1, Constants
<1>6. Fold(e + k) = i /\ e + k \in Nat
  <2>1. Fold(e) + k < BufferLength BY <1>3
  <2> HIDE DEF e
  <2> QED BY <1>2, <1>3, <2>1, FoldOn
<1>7. cells \in [0 .. (BufferLength - 1) -> Byte]
  BY <1>4, <1>5
<1>8. \A x \in 0 .. (BufferLength - 1) : x # i => cells[x] = r.cell[x]
  BY <1>4
<1> HIDE DEF cells, i
<1>9. m \in Ring
  BY <1>1, <1>4, <1>7, MadeRing
<1>10. /\ m.cell = cells /\ m.count = r.count /\ m.write = r.write /\ m.read = r.read
       /\ m.len = r.len
  BY MadeFields
<1> HIDE DEF m
<1>11. Position(m) /\ End(m) = e
  <2>1. Position(r) BY DEF Queue
  <2> QED BY <1>10, <2>1 DEF Position, End
<1>12. Stored(Lens(m, h), r.read, e, acc, o)
  <2>1. Stored(Lens(r, h), r.read, e, acc, o) BY DEF Queue
  <2>2. ASSUME NEW p \in r.read .. (e - 1) PROVE Lens(m, h)[p] = Lens(r, h)[p]
    <3>1. p \in Nat /\ p < 3 * BufferLength /\ r.read <= p /\ p < e + k
          /\ e + k < r.read + BufferLength
      BY <1>1, <1>2, <2>2, Constants
    <3>2. Fold(p) # i
      BY <1>1, <1>6, <3>1, FoldDistinct
    <3>3. Fold(p) \in 0 .. (BufferLength - 1)
      BY <3>1, Folds
    <3>4. cells[Fold(p)] = r.cell[Fold(p)]
      BY <1>8, <3>2, <3>3
    <3> QED BY <1>10, <3>1, <3>4, LensAt
  <2> HIDE DEF e
  <2> QED BY <2>1, <2>2, StoredSame
<1>13. h => m.count > 0 /\ m.len # Dummy
  BY <1>10 DEF Queue
<1>14. Queue(m, h, acc, o)
  BY <1>9, <1>10, <1>11, <1>12, <1>13 DEF Queue
<1> QED BY <1>14 DEF m, cells, i

LEMMA WrapMakes ==
    ASSUME NEW r \in Ring, NEW n, ~(n <= Gap(r))
    PROVE  Wrap(r, n) = Of(IF Gap(r) > 0 THEN [r.cell EXCEPT ![r.write] = Dummy] ELSE r.cell,
                           Plus(r.count, Gap(r)), 0, r.chars, r.read, r.len)
<1> DEFINE x == IF Gap(r) > 0 THEN [r.cell EXCEPT ![r.write] = Dummy] ELSE r.cell
           y == Plus(r.count, Gap(r))
           m == Of(r.cell, r.count, r.write, r.chars, r.read, r.len)
<1>1. Wrap(r, n) = [r EXCEPT !.cell = x, !.count = y, !.write = 0]
  BY DEF Wrap
<1>2. r = m
  BY Fields
<1> HIDE DEF x, y
<1>3. [m EXCEPT !.cell = x] = Of(x, r.count, r.write, r.chars, r.read, r.len)
  BY MadeCell
<1>4. [Of(x, r.count, r.write, r.chars, r.read, r.len) EXCEPT !.count = y]
        = Of(x, y, r.write, r.chars, r.read, r.len)
  BY MadeCount
<1>5. [Of(x, y, r.write, r.chars, r.read, r.len) EXCEPT !.write = 0]
        = Of(x, y, 0, r.chars, r.read, r.len)
  BY MadeWrite
<1>6. [r EXCEPT !.cell = x, !.count = y, !.write = 0]
        = [[[r EXCEPT !.cell = x] EXCEPT !.count = y] EXCEPT !.write = 0]
  OBVIOUS
<1>7. [r EXCEPT !.cell = x] = Of(x, r.count, r.write, r.chars, r.read, r.len)
  <2> HIDE DEF m
  <2> QED BY <1>2, <1>3
<1>8. [[r EXCEPT !.cell = x] EXCEPT !.count = y] = Of(x, y, r.write, r.chars, r.read, r.len)
  BY <1>4, <1>7
<1>9. Wrap(r, n) = Of(x, y, 0, r.chars, r.read, r.len)
  BY <1>1, <1>5, <1>6, <1>8
<1> QED BY <1>9 DEF x, y

LEMMA ByteMakes ==
    ASSUME NEW r \in Ring
    PROVE  StoreByte(r) = Of([r.cell EXCEPT ![r.write + r.chars] = Data], r.count, r.write,
                             r.chars + 1, r.read, r.len)
<1> DEFINE x == [r.cell EXCEPT ![r.write + r.chars] = Data]
           y == r.chars + 1
           m == Of(r.cell, r.count, r.write, r.chars, r.read, r.len)
<1>1. StoreByte(r) = [[r EXCEPT !.cell = x] EXCEPT !.chars = y]
  BY DEF StoreByte
<1>2. r = m
  BY Fields
<1> HIDE DEF x, y
<1>3. [m EXCEPT !.cell = x] = Of(x, r.count, r.write, r.chars, r.read, r.len)
  BY MadeCell
<1>4. [Of(x, r.count, r.write, r.chars, r.read, r.len) EXCEPT !.chars = y]
        = Of(x, r.count, r.write, y, r.read, r.len)
  BY MadeChars
<1> HIDE DEF m
<1>5. StoreByte(r) = Of(x, r.count, r.write, y, r.read, r.len)
  BY <1>1, <1>2, <1>3, <1>4
<1> QED BY <1>5 DEF x, y

LEMMA HeaderMakes ==
    ASSUME NEW w \in Ring, NEW n
    PROVE  [w EXCEPT !.cell[w.write] = n, !.cell[w.write + 1] = Data, !.chars = 2]
            = Of([[w.cell EXCEPT ![w.write] = n] EXCEPT ![w.write + 1] = Data],
                 w.count, w.write, 2, w.read, w.len)
<1> DEFINE a == [w.cell EXCEPT ![w.write] = n]
           x == [a EXCEPT ![w.write + 1] = Data]
           m == Of(w.cell, w.count, w.write, w.chars, w.read, w.len)
           s == [w EXCEPT !.cell[w.write] = n, !.cell[w.write + 1] = Data, !.chars = 2]
<1>1. s = [[w EXCEPT !.cell = x] EXCEPT !.chars = 2]
  OBVIOUS
<1>2. w = m
  BY Fields
<1> HIDE DEF x, s
<1>3. [m EXCEPT !.cell = x] = Of(x, w.count, w.write, w.chars, w.read, w.len)
  BY MadeCell
<1>4. [Of(x, w.count, w.write, w.chars, w.read, w.len) EXCEPT !.chars = 2]
        = Of(x, w.count, w.write, 2, w.read, w.len)
  BY MadeChars
<1> HIDE DEF m
<1>5. s = Of(x, w.count, w.write, 2, w.read, w.len)
  BY <1>1, <1>2, <1>3, <1>4
<1> QED BY <1>5 DEF x, s

LEMMA CommitMakes ==
    ASSUME NEW r \in Ring
    PROVE  Commit(r) = Of(r.cell, Plus(r.count, Even(r.chars)), r.write + Even(r.chars), 0,
                          r.read, r.len)
<1> DEFINE x == Plus(r.count, Even(r.chars))
           y == r.write + Even(r.chars)
           m == Of(r.cell, r.count, r.write, r.chars, r.read, r.len)
<1>1. Commit(r) = [r EXCEPT !.chars = 0, !.count = x, !.write = y]
  BY DEF Commit
<1>2. r = m
  BY Fields
<1> HIDE DEF x, y
<1>3. [m EXCEPT !.chars = 0] = Of(r.cell, r.count, r.write, 0, r.read, r.len)
  BY MadeChars
<1>4. [Of(r.cell, r.count, r.write, 0, r.read, r.len) EXCEPT !.count = x]
        = Of(r.cell, x, r.write, 0, r.read, r.len)
  BY MadeCount
<1>5. [Of(r.cell, x, r.write, 0, r.read, r.len) EXCEPT !.write = y]
        = Of(r.cell, x, y, 0, r.read, r.len)
  BY MadeWrite
<1>6. [r EXCEPT !.chars = 0, !.count = x, !.write = y]
        = [[[r EXCEPT !.chars = 0] EXCEPT !.count = x] EXCEPT !.write = y]
  OBVIOUS
<1>7. [r EXCEPT !.chars = 0] = Of(r.cell, r.count, r.write, 0, r.read, r.len)
  <2> HIDE DEF m
  <2> QED BY <1>2, <1>3
<1>8. [[r EXCEPT !.chars = 0] EXCEPT !.count = x] = Of(r.cell, x, r.write, 0, r.read, r.len)
  BY <1>4, <1>7
<1>9. Commit(r) = Of(r.cell, x, y, 0, r.read, r.len)
  BY <1>1, <1>5, <1>6, <1>8
<1> QED BY <1>9 DEF x, y

LEMMA StoredAny ==
    ASSUME NEW lens, NEW a, NEW e, NEW acc, NEW o, Stored(lens, a, e, acc, o)
    PROVE  Stored(lens, a, e, acc, TRUE)
<1>1. PICK S \in SUBSET Nat, i \in [Nat -> Nat] : Chain(lens, S, a, e)
  BY DEF Stored
<1>2. \E T \in SUBSET Nat, j \in [Nat -> Nat] :
        Chain(lens, T, a, e) /\ (TRUE \/ Numbered(lens, T, a, e, j, acc))
  BY <1>1
<1> QED BY <1>2 DEF Stored

\* The end of the buffer is skipped: the dummy length marks a free byte, or it takes
\* the place of the length of the oldest message.
LEMMA SkipQueue ==
    ASSUME NEW r, NEW h \in BOOLEAN, NEW acc, NEW o \in BOOLEAN, Queue(r, h, acc, o),
           0 < r.write, r.write < BufferLength
    PROVE  LET g == BufferLength - r.write
               m == Of([r.cell EXCEPT ![r.write] = Dummy], r.count + g, 0, r.chars, r.read, r.len)
           IN  Queue(m, h, acc, o \/ (r.write = r.read /\ r.count = BufferLength))
<1> DEFINE L == BufferLength
           g == L - r.write
           cells == [r.cell EXCEPT ![r.write] = Dummy]
           c == r.count + g
           m == Of(cells, c, 0, r.chars, r.read, r.len)
           e == End(r)
           lens == Lens(m, h)
<1>1. /\ r \in Ring /\ r.read \in Nat /\ r.count \in Nat /\ r.write \in Nat
      /\ r.read < L /\ r.write < L /\ r.write > 0 /\ r.count <= L /\ L \in Nat
  BY Places, Constants
<1>2. e \in Nat /\ e = r.read + r.count /\ e < 2 * L /\ e < 3 * L
  <2>1. e = r.read + r.count BY Places
  <2> QED BY <1>1, <2>1
<1>3. r.write = Fold(e)
  BY <1>1, Places
<1>4. /\ r.cell \in [0 .. (L - 1) -> Byte] /\ r.len \in Byte
      /\ r.chars \in 0 .. L /\ r.read \in 0 .. L
  BY <1>1, Fields, Constants
<1>5. g \in Nat /\ g > 0 /\ g < L /\ c \in Nat /\ c < 2 * L /\ c < ByteMod /\ r.read + c = e + g
  BY <1>1, <1>2, Constants
<1>6. cells \in [0 .. (L - 1) -> Byte]
  <2>1. Dummy \in Byte BY Constants DEF Byte
  <2> QED BY <1>4, <2>1
<1>7. /\ \A x \in 0 .. (L - 1) : x # r.write => cells[x] = r.cell[x]
      /\ cells[r.write] = Dummy
  <2>1. r.write \in 0 .. (L - 1) BY <1>1
  <2> QED BY <1>4, <2>1
<1> HIDE DEF cells, m
<1>8. /\ m.cell = cells /\ m.count = c /\ m.write = 0 /\ m.read = r.read /\ m.len = r.len
      /\ m.chars = r.chars
  <2> HIDE DEF c
  <2> QED BY MadeFields DEF m
<1>9. m \in Ring
  <2>1. 0 \in 0 .. L BY Constants
  <2> HIDE DEF c
  <2> QED BY <1>4, <1>5, <1>6, <2>1, MadeRing DEF m
<1>10. After(Dummy, e) = e + g /\ Skipped(Dummy, e) /\ Fold(e + g) = 0 /\ e + g < 3 * L
  <2>1. After(Dummy, e) = e + g BY <1>1, <1>2, <1>3 DEF After
  <2>2. Skipped(Dummy, e) BY <1>1, <1>3 DEF Skipped
  <2>3. Fold(e + g) = 0 /\ e + g < 3 * L
    <3>1. Fold(e) = IF e < L THEN e ELSE e - L BY <1>2 DEF Fold
    <3>2. e + g = L \/ e + g = 2 * L BY <1>1, <1>2, <1>3, <3>1
    <3> QED BY <1>1, <3>2, Constants DEF Fold
  <2> QED BY <2>1, <2>2, <2>3
<1>11. Position(m) /\ End(m) = e + g
  <2>1. End(m) = e + g BY <1>5, <1>8 DEF End
  <2>2. Position(r) BY DEF Queue
  <2>3. IsEven(c)
    <3>1. IsEven(r.count) /\ IsEven(r.write) /\ IsEven(L) BY <2>2, EvenSums DEF Position
    <3>2. IsEven(g) BY <1>1, <3>1, EvenSums
    <3> HIDE DEF g
    <3> QED BY <1>1, <1>5, <3>1, <3>2, EvenSums
  <2>4. IsEven(0) /\ IsEven(r.read) BY <2>2, EvenSums DEF Position
  <2> HIDE DEF c
  <2> QED BY <1>1, <1>5, <1>8, <1>10, <2>1, <2>3, <2>4 DEF Position
<1>12. Stored(Lens(r, h), r.read, e, acc, o) /\ (h => r.count > 0 /\ r.len # Dummy)
  BY DEF Queue
<1>13. ASSUME NEW p \in r.read .. (e - 1), Fold(p) # Fold(e)
       PROVE  lens[p] = Lens(r, h)[p]
  <2>1. p \in Nat /\ p < 3 * L BY <1>1, <1>2, <1>13
  <2>2. Fold(p) \in 0 .. (L - 1) BY <2>1, Folds
  <2>3. cells[Fold(p)] = r.cell[Fold(p)] BY <1>3, <1>7, <1>13, <2>2
  <2> QED BY <1>8, <2>1, <2>3, LensAt
<1>14. lens[e] = Dummy
  <2>1. h => e # r.read BY <1>1, <1>2, <1>12
  <2>2. cells[Fold(e)] = Dummy BY <1>3, <1>7
  <2> HIDE DEF e
  <2> QED BY <1>2, <1>8, <2>1, <2>2, LensAt
<1> DEFINE full == r.write = r.read /\ r.count = L
<1>15. Stored(lens, r.read, e, acc, o \/ full)
  <2>1. CASE r.count < L
    <3>1. ASSUME NEW p \in r.read .. (e - 1) PROVE lens[p] = Lens(r, h)[p]
      <4>1. p \in Nat /\ r.read <= p /\ p < e /\ e < r.read + L BY <1>1, <1>2, <2>1, <3>1
      <4>2. Fold(p) # Fold(e) BY <1>1, <1>2, <4>1, FoldDistinct
      <4> QED BY <1>13, <4>2
    <3>2. ~full BY <1>1, <2>1
    <3> HIDE DEF lens, e, full
    <3>3. Stored(lens, r.read, e, acc, o) BY <1>12, <3>1, StoredSame
    <3>4. CASE o BY <3>3, <3>4, StoredAny
    <3>5. CASE ~o
      <4>1. o = FALSE /\ (o \/ full) = FALSE BY <3>2, <3>5
      <4> QED BY <3>3, <4>1
    <3> QED BY <3>4, <3>5
  <2>2. CASE r.count = L
    <3>1. e = r.read + L /\ Fold(e) = r.read /\ r.read = r.write /\ r.read \in 1 .. (L - 1)
      <4>1. e = r.read + L BY <1>2, <2>2
      <4>2. Fold(e) = r.read BY <1>1, <1>2, <4>1 DEF Fold
      <4> QED BY <1>1, <1>3, <4>1, <4>2
    <3>2. ASSUME NEW p \in (r.read + 1) .. (e - 1) PROVE lens[p] = Lens(r, h)[p]
      <4>1. p \in Nat /\ r.read <= p /\ p \in r.read .. (e - 1) BY <1>1, <1>2, <3>2
      <4>2. Fold(p) # r.read BY <1>1, <1>2, <2>2, <3>2 DEF Fold
      <4> QED BY <1>13, <3>1, <4>1, <4>2
    <3>3. full BY <2>2, <3>1
    <3>4. Stored(lens, r.read, e, acc, TRUE)
      <4>1. CASE h
        <5>1. lens[r.read] = Lens(r, h)[r.read]
          <6>1. r.read \in Nat /\ r.read < 3 * L BY <1>1
          <6> QED BY <1>8, <4>1, <6>1, LensAt
        <5>2. ASSUME NEW p \in r.read .. (e - 1) PROVE lens[p] = Lens(r, h)[p]
          <6>1. p = r.read \/ p \in (r.read + 1) .. (e - 1) BY <1>1, <1>2, <5>2
          <6> QED BY <3>2, <5>1, <6>1
        <5> HIDE DEF lens, e
        <5>3. Stored(lens, r.read, e, acc, o) BY <1>12, <5>2, StoredSame
        <5> QED BY <5>3, StoredAny
      <4>2. CASE ~h
        <5>1. lens[r.read] = Dummy
          <6>1. r.read \in Nat /\ r.read < 3 * L BY <1>1
          <6>2. Fold(r.read) = r.read BY <1>1 DEF Fold
          <6> QED BY <1>7, <1>8, <3>1, <4>2, <6>1, <6>2, LensAt
        <5>2. Stored(Lens(r, h), r.read, r.read + L, acc, o) BY <1>12, <3>1
        <5>3. \A p \in (r.read + 1) .. (r.read + L - 1) : lens[p] = Lens(r, h)[p]
          <6>1. e - 1 = r.read + L - 1 BY <1>1, <3>1
          <6> HIDE DEF lens, e
          <6> QED BY <3>2, <6>1
        <5>4. Stored(lens, r.read, r.read + L, acc, TRUE)
          <6> HIDE DEF lens, L
          <6> QED BY <3>1, <5>1, <5>2, <5>3, StoredOverrun DEF L
        <5> QED BY <3>1, <5>4
      <4> QED BY <4>1, <4>2
    <3>5. (o \/ full) = TRUE BY <3>3
    <3> QED BY <3>4, <3>5
  <2> QED BY <1>1, <2>1, <2>2
<1>16. Stored(lens, r.read, e + g, acc, o \/ full)
  <2>1. After(lens[e], e) = e + g /\ e + g < 3 * L /\ Skipped(lens[e], e) BY <1>10, <1>14
  <2> DEFINE s == o \/ full
  <2> HIDE DEF lens, e, g, s
  <2> QED BY <1>14, <1>15, <2>1, StoredNew DEF s
<1>17. h => m.count > 0 /\ m.len # Dummy
  BY <1>1, <1>5, <1>8, <1>12
<1>18. Queue(m, h, acc, o \/ full)
  <2> HIDE DEF full, e, g, c
  <2> QED BY <1>8, <1>9, <1>11, <1>16, <1>17 DEF Queue, lens
<1> QED BY <1>18 DEF m, cells

\* A frame of n bytes begins: the end of the buffer is skipped if it is too short.
LEMMA WrapQueue ==
    ASSUME NEW r, NEW h \in BOOLEAN, NEW acc, NEW o \in BOOLEAN, Queue(r, h, acc, o),
           NEW n \in 0 .. BufferLength
    PROVE  LET w == Wrap(r, n) IN
           /\ Queue(w, h, acc, o \/ WrapOverwrites(r, n))
           /\ n <= BufferLength - w.write /\ w.chars = r.chars
<1> DEFINE L == BufferLength
           g == Gap(r)
           w == Wrap(r, n)
<1>1. /\ r \in Ring /\ r.read \in Nat /\ r.count \in Nat /\ r.write \in Nat
      /\ r.read < L /\ r.write <= L /\ L \in Nat /\ g = L - r.write /\ g \in Nat
      /\ r.count < 2 * L /\ r.count < ByteMod
  BY Places, Constants DEF Gap
<1>2. CASE n <= g
  <2>1. w = r BY <1>2 DEF Wrap
  <2>2. ~WrapOverwrites(r, n) BY <1>1, <1>2 DEF WrapOverwrites
  <2>3. Queue(w, h, acc, o \/ WrapOverwrites(r, n))
    <3>1. (o \/ WrapOverwrites(r, n)) = o
      <4> DEFINE b == WrapOverwrites(r, n)
      <4>1. ~b BY <2>2
      <4> HIDE DEF b
      <4>2. (o \/ b) = o BY <4>1
      <4> QED BY <4>2 DEF b
    <3> QED BY <2>1, <3>1
  <2> QED BY <1>1, <1>2, <2>1, <2>3
<1>3. CASE ~(n <= g) /\ g = 0
  <2>1. Plus(r.count, g) = r.count
    <3>1. r.count + 0 < ByteMod BY <1>1
    <3>2. Plus(r.count, 0) = r.count + 0 BY <1>1, <3>1, Sums
    <3> QED BY <1>1, <1>3, <3>2
  <2>2. w = Of(r.cell, r.count, 0, r.chars, r.read, r.len)
    <3>1. ~(0 > 0) OBVIOUS
    <3> QED BY <1>1, <1>3, <2>1, <3>1, WrapMakes
  <2> HIDE DEF w
  <2>3. /\ w.cell = r.cell /\ w.count = r.count /\ w.write = 0 /\ w.read = r.read
        /\ w.len = r.len /\ w.chars = r.chars
    BY <2>2, MadeFields
  <2>4. w \in Ring
    <3>1. 0 \in 0 .. L BY <1>1
    <3>2. /\ r.cell \in [0 .. (L - 1) -> Byte] /\ r.len \in Byte
          /\ r.chars \in 0 .. L /\ r.read \in 0 .. L
      BY <1>1, Fields
    <3> QED BY <1>1, <2>2, <3>1, <3>2, MadeRing
  <2>5. Position(w) /\ End(w) = End(r)
    <3>1. Position(r) BY DEF Queue
    <3>2. r.write = L BY <1>1, <1>3
    <3>3. Fold(End(r)) \in 0 .. (L - 1) BY Places, Folds
    <3>4. Fold(End(r)) = 0 BY <1>1, <3>1, <3>2, <3>3 DEF Position
    <3>5. End(w) = End(r) BY <2>3 DEF End
    <3>6. IsEven(0) BY EvenSums
    <3> QED BY <2>3, <3>1, <3>4, <3>5, <3>6 DEF Position
  <2>6. Lens(w, h) = Lens(r, h) BY <2>3 DEF Lens
  <2>7. Queue(w, h, acc, o) BY <2>3, <2>4, <2>5, <2>6 DEF Queue
  <2>8. ~WrapOverwrites(r, n) BY <1>1, <1>3 DEF WrapOverwrites
  <2>9. Queue(w, h, acc, o \/ WrapOverwrites(r, n))
    <3>1. (o \/ WrapOverwrites(r, n)) = o
      <4> DEFINE b == WrapOverwrites(r, n)
      <4>1. ~b BY <2>8
      <4> HIDE DEF b
      <4>2. (o \/ b) = o BY <4>1
      <4> QED BY <4>2 DEF b
    <3> QED BY <2>7, <3>1
  <2>10. n <= L - w.write BY <1>1, <2>3
  <2> QED BY <2>3, <2>9, <2>10 DEF w
<1>4. CASE ~(n <= g) /\ g # 0
  <2>1. 0 < r.write /\ r.write < L /\ g > 0 /\ r.count <= L
    <3>1. 0 < r.write /\ r.write < L /\ g > 0 BY <1>1, <1>4
    <3> QED BY <3>1, Places
  <2>2. Plus(r.count, g) = r.count + (L - r.write)
    <3>1. r.count + g < ByteMod BY <1>1, <2>1, Constants
    <3>2. Plus(r.count, g) = r.count + g BY <1>1, <3>1, Sums
    <3> QED BY <1>1, <3>2
  <2> DEFINE m == Of([r.cell EXCEPT ![r.write] = Dummy], r.count + (L - r.write), 0, r.chars,
                     r.read, r.len)
  <2>3. w = m
    <3> HIDE DEF L
    <3> QED BY <1>1, <1>4, <2>1, <2>2, WrapMakes
  <2>4. Queue(m, h, acc, o \/ (r.write = r.read /\ r.count = L))
    BY <2>1, SkipQueue
  <2>5. m.write = 0 /\ m.chars = r.chars
    BY MadeFields
  <2>6. WrapOverwrites(r, n) <=> (r.write = r.read /\ r.count = L)
    BY <1>1, <1>4, <2>1 DEF WrapOverwrites
  <2> HIDE DEF m, w
  <2>7. Queue(w, h, acc, o \/ WrapOverwrites(r, n))
    <3> DEFINE b == WrapOverwrites(r, n)
               f == r.write = r.read /\ r.count = L
    <3>1. b <=> f BY <2>6
    <3>2. Queue(w, h, acc, o \/ f) BY <2>3, <2>4
    <3> HIDE DEF b, f
    <3>3. (o \/ b) = (o \/ f) BY <3>1
    <3>4. Queue(w, h, acc, o \/ b) BY <3>2, <3>3
    <3> QED BY <3>4 DEF b
  <2> QED BY <1>1, <2>3, <2>5, <2>7 DEF w
<1> QED BY <1>2, <1>3, <1>4

\* A frame of which the length, the address and some data are written.
Partial(r) ==
    /\ r.cell[r.write] \in Lengths
    /\ r.write + r.cell[r.write] + 2 <= BufferLength
    /\ r.chars >= 2 /\ r.chars <= r.cell[r.write] + 2
    /\ r.count + r.chars <= BufferLength

LEMMA HeaderQueue ==
    ASSUME NEW r, NEW h \in BOOLEAN, NEW acc, NEW o \in BOOLEAN, Queue(r, h, acc, o),
           NEW n \in 0 .. BufferLength, n = 0 \/ (n >= 4 /\ n - 2 \in Lengths),
           NEW s, s = StoreHeader(r, n)
    PROVE  /\ Queue(s[1], h, acc, o \/ WrapOverwrites(r, n))
           /\ s[2] \in BOOLEAN
           /\ s[2] => /\ n >= 4 /\ Partial(s[1]) /\ s[1].chars = 2
                      /\ s[1].cell[s[1].write] = n - 2
<1> DEFINE L == BufferLength
           w == Wrap(r, n)
           p == o \/ WrapOverwrites(r, n)
<1>1. Queue(w, h, acc, p) /\ n <= L - w.write
  BY WrapQueue
<1>2. p \in BOOLEAN
  OBVIOUS
<1>3. s = IF HasRoom(w, n)
          THEN <<[w EXCEPT !.cell[w.write] = Minus(n, Overhead),
                           !.cell[w.write + 1] = Data, !.chars = 2], TRUE>>
          ELSE <<[w EXCEPT !.chars = 0], FALSE>>
  BY DEF StoreHeader
<1> HIDE DEF w, p
<1>4. /\ w \in Ring /\ w.read \in Nat /\ w.count \in Nat /\ w.write \in Nat
      /\ w.read < L /\ w.write <= L /\ L \in Nat
      /\ w.count < 2 * L
  BY <1>1, Places, Constants
<1>5. /\ w.cell \in [0 .. (L - 1) -> Byte] /\ w.len \in Byte /\ w.count < ByteMod
      /\ w.read \in 0 .. L /\ w.write \in 0 .. L
  BY <1>4, Fields
<1>6. CASE ~HasRoom(w, n)
  <2> DEFINE m == Of(w.cell, w.count, w.write, 0, w.read, w.len)
             u == Of(w.cell, w.count, w.write, w.chars, w.read, w.len)
  <2>1. [w EXCEPT !.chars = 0] = m
    <3>1. w = u BY <1>4, Fields
    <3>2. [u EXCEPT !.chars = 0] = m BY MadeChars
    <3> HIDE DEF u
    <3> QED BY <3>1, <3>2
  <2>2. s[1] = m /\ s[2] = FALSE
    <3>1. s = <<[w EXCEPT !.chars = 0], FALSE>> BY <1>3, <1>6
    <3> QED BY <2>1, <3>1
  <2> HIDE DEF m
  <2>3. m.cell = w.cell /\ m.count = w.count /\ m.write = w.write /\ m.read = w.read
        /\ m.len = w.len
    BY MadeFields DEF m
  <2>4. m \in Ring
    <3>1. 0 \in 0 .. L BY <1>4
    <3> QED BY <1>4, <1>5, <3>1, MadeRing DEF m
  <2>5. Lens(m, h) = Lens(w, h) /\ End(m) = End(w) BY <2>3 DEF Lens, End
  <2>6. Queue(m, h, acc, p) BY <1>1, <2>3, <2>4, <2>5 DEF Queue, Position
  <2> QED BY <2>2, <2>6 DEF p
<1>7. CASE HasRoom(w, n)
  <2>1. w.count <= L - 2 /\ Minus(n, 2) <= L - w.write
    BY <1>7, Constants DEF HasRoom, Gap
  <2>2. n >= 4 /\ n - 2 \in Lengths /\ Minus(n, 2) = n - 2
    <3>1. CASE n = 0
      <4>1. Minus(0, 2) = 0 + ByteMod - 2
        <5>1. 0 \in Nat /\ 2 \in Nat /\ 0 < 2 /\ 2 <= ByteMod BY Constants
        <5> QED BY <5>1, Sums
      <4> QED BY <1>4, <2>1, <3>1, <4>1, Constants
    <3>2. CASE n # 0
      <4>1. n \in Nat /\ 2 \in Nat /\ 2 <= n /\ n < ByteMod BY <3>2, Constants
      <4>2. Minus(n, 2) = n - 2 BY <4>1, Sums
      <4> QED BY <3>2, <4>2
    <3> QED BY <3>1, <3>2
  <2> DEFINE a == [w.cell EXCEPT ![w.write] = n - 2]
             x == [a EXCEPT ![w.write + 1] = Data]
             m == Of(x, w.count, w.write, 2, w.read, w.len)
             k == Of(a, w.count, w.write, 2, w.read, w.len)
  <2>3. s[1] = m /\ s[2] = TRUE
    <3>1. s = <<[w EXCEPT !.cell[w.write] = n - 2, !.cell[w.write + 1] = Data, !.chars = 2], TRUE>>
      BY <1>3, <1>7, <2>2, Constants
    <3>2. [w EXCEPT !.cell[w.write] = n - 2, !.cell[w.write + 1] = Data, !.chars = 2] = m
      BY <1>4, HeaderMakes
    <3> QED BY <3>1, <3>2
  <2>4. /\ w.write + n <= L /\ w.write + 1 < L /\ w.write < L /\ w.count + 1 < L
        /\ 2 \in 0 .. L /\ 0 \in Nat /\ 1 \in Nat
    BY <1>1, <1>4, <2>1, <2>2, Constants
  <2>5. n - 2 \in Byte /\ Data \in Byte
    BY <2>2, Constants DEF Byte, Data
  <2>6. w.write + 0 = w.write /\ w.count + 0 < L /\ w.write + 0 < L
    BY <1>4, <2>4
  <2>7. Queue(Of([w.cell EXCEPT ![w.write + 0] = n - 2], w.count, w.write, 2, w.read, w.len),
               h, acc, p)
    BY <1>1, <2>4, <2>5, <2>6, WriteFree
  <2>8. Queue(k, h, acc, p)
    BY <2>6, <2>7
  <2> HIDE DEF k
  <2>9. k.cell = a /\ k.count = w.count /\ k.write = w.write /\ k.read = w.read /\ k.len = w.len
    BY MadeFields DEF k
  <2> HIDE DEF a
  <2>10. Queue(Of([k.cell EXCEPT ![k.write + 1] = Data], k.count, k.write, 2, k.read, k.len),
               h, acc, p)
    BY <2>4, <2>5, <2>8, <2>9, WriteFree
  <2>11. Queue(m, h, acc, p)
    BY <2>9, <2>10
  <2>12. x[w.write] = n - 2
    <3>1. w.write \in 0 .. (L - 1) /\ w.write # w.write + 1 BY <1>4, <2>4
    <3>2. a[w.write] = n - 2 /\ a \in [0 .. (L - 1) -> Byte] BY <1>5, <2>5, <3>1 DEF a
    <3> QED BY <3>1, <3>2
  <2> HIDE DEF x
  <2>13. m.cell = x /\ m.count = w.count /\ m.write = w.write /\ m.chars = 2
    BY MadeFields
  <2> HIDE DEF m
  <2>14. Partial(m)
    BY <1>4, <2>1, <2>2, <2>4, <2>12, <2>13 DEF Partial
  <2> QED BY <2>2, <2>3, <2>11, <2>12, <2>13, <2>14 DEF p
<1> QED BY <1>6, <1>7

LEMMA RoomLeft ==
    ASSUME NEW w \in Nat, NEW n \in Nat, NEW k \in Nat, NEW l \in Nat, NEW c \in Nat,
           w + n + 2 <= l, k < n + 2, c + k < l
    PROVE  /\ k + 1 \in 0 .. l /\ k + 1 <= n + 2 /\ w + k < l /\ w \in 0 .. (l - 1)
           /\ c + (k + 1) <= l
OBVIOUS

\* A byte of data.
LEMMA ByteQueue ==
    ASSUME NEW r, NEW h \in BOOLEAN, NEW acc, NEW o \in BOOLEAN, Queue(r, h, acc, o),
           Partial(r), r.chars < r.cell[r.write] + 2, ~IsFull(r)
    PROVE  LET m == StoreByte(r) IN
           /\ Queue(m, h, acc, o) /\ Partial(m) /\ m.chars = r.chars + 1
           /\ m.cell[m.write] = r.cell[r.write]
<1> DEFINE L == BufferLength
           n == r.cell[r.write]
           x == [r.cell EXCEPT ![r.write + r.chars] = Data]
           m == StoreByte(r)
<1>1. /\ r \in Ring /\ r.read \in Nat /\ r.count \in Nat /\ r.write \in Nat /\ r.chars \in Nat
      /\ r.read < L /\ r.write <= L /\ L \in Nat /\ r.count < 2 * L
      /\ r.cell \in [0 .. (L - 1) -> Byte] /\ n \in Nat
  BY Places, Fields, Constants DEF Partial
<1>2. /\ r.write + n + 2 <= L /\ r.chars >= 2 /\ r.chars < n + 2 /\ r.count + r.chars < L
      /\ n \in Lengths
  BY <1>1 DEF Partial, IsFull
<1>3. m = Of(x, r.count, r.write, r.chars + 1, r.read, r.len)
  BY <1>1, ByteMakes
<1>9. r.chars + 1 \in 0 .. L /\ r.chars + 1 <= n + 2 /\ r.write + r.chars < L
      /\ r.write \in 0 .. (L - 1) /\ r.count + (r.chars + 1) <= L
  <2> DEFINE a == r.write
             k == r.chars
             c == r.count
  <2>1. a \in Nat /\ n \in Nat /\ k \in Nat /\ L \in Nat /\ c \in Nat BY <1>1
  <2>2. a + n + 2 <= L /\ k < n + 2 /\ c + k < L BY <1>2
  <2> HIDE DEF a, n, k, L, c
  <2>3. k + 1 \in 0 .. L /\ k + 1 <= n + 2 /\ a + k < L /\ a \in 0 .. (L - 1) /\ c + (k + 1) <= L
    BY <2>1, <2>2, RoomLeft
  <2> QED BY <2>3 DEF a, k, c
<1>4. Queue(m, h, acc, o)
  <2> DEFINE c == r.chars + 1
             k == r.chars
  <2>1. c \in 0 .. L /\ r.write + k < L BY <1>9
  <2>2. Data \in Byte BY Constants DEF Data, Byte
  <2>3. k \in Nat /\ r.count + k < L BY <1>1, <1>2
  <2> HIDE DEF c, k
  <2>4. Queue(Of([r.cell EXCEPT ![r.write + k] = Data], r.count, r.write, c, r.read, r.len),
               h, acc, o)
    BY <2>1, <2>2, <2>3, WriteFree
  <2> QED BY <1>3, <2>4 DEF c, k
<1>5. x[r.write] = n
  <2>1. r.write \in 0 .. (L - 1) /\ r.write # r.write + r.chars
    BY <1>1, <1>2, <1>9
  <2> QED BY <1>1, <2>1
<1> HIDE DEF x, n, m
<1>6. m.cell = x /\ m.count = r.count /\ m.write = r.write /\ m.chars = r.chars + 1
  <2> DEFINE k == r.chars + 1
  <2> HIDE DEF k
  <2>1. m = Of(x, r.count, r.write, k, r.read, r.len) BY <1>3 DEF k
  <2>2. m.cell = x /\ m.count = r.count /\ m.write = r.write /\ m.chars = k BY <2>1, MadeFields
  <2> QED BY <2>2 DEF k
<1>7. Partial(m)
  <2>1. m.cell[m.write] = n BY <1>5, <1>6
  <2>2. m.count + m.chars <= L /\ m.chars <= n + 2 /\ m.chars >= 2
    <3>1. r.chars + 1 >= 2 BY <1>1, <1>2
    <3> QED BY <1>6, <1>9, <3>1
  <2> QED BY <1>2, <1>6, <2>1, <2>2 DEF Partial
<1>8. m.cell[m.write] = n
  BY <1>5, <1>6
<1> QED BY <1>4, <1>6, <1>7, <1>8 DEF m, n

\* The message is complete.
LEMMA CommitQueue ==
    ASSUME NEW r, NEW h \in BOOLEAN, NEW acc, NEW o \in BOOLEAN, Queue(r, h, acc, o),
           Partial(r), r.chars = r.cell[r.write] + 2
    PROVE  Queue(Commit(r), h, IF o THEN acc ELSE Append(acc, r.cell[r.write]), o)
<1> DEFINE L == BufferLength
           n == r.cell[r.write]
           d == Even(r.chars)
           c == r.count + d
           w == r.write + d
           m == Of(r.cell, c, w, 0, r.read, r.len)
           e == End(r)
           more == IF o THEN acc ELSE Append(acc, n)
           lens == [Lens(r, h) EXCEPT ![e] = n]
<1>1. /\ r \in Ring /\ r.read \in Nat /\ r.count \in Nat /\ r.write \in Nat /\ r.chars \in Nat
      /\ r.read < L /\ r.write <= L /\ L \in Nat /\ r.count < ByteMod /\ ByteMod \in Nat
      /\ 2 * L <= ByteMod
      /\ r.cell \in [0 .. (L - 1) -> Byte] /\ r.len \in Byte /\ r.read \in 0 .. L
      /\ n \in Nat /\ n \in Lengths /\ n # Dummy /\ Position(r)
  <2>1. /\ r \in Ring /\ r.read \in Nat /\ r.count \in Nat /\ r.write \in Nat /\ r.chars \in Nat
        /\ r.read < L /\ r.write <= L
    BY Places
  <2>2. L \in Nat /\ ByteMod \in Nat /\ 2 * L <= ByteMod
    BY Constants
  <2>3. /\ r.cell \in [0 .. (L - 1) -> Byte] /\ r.len \in Byte /\ r.read \in 0 .. L
        /\ r.count < ByteMod
    BY <2>1, <2>2, Fields
  <2>4. n \in Nat /\ n \in Lengths /\ n # Dummy
    BY Constants DEF Partial
  <2>5. Position(r)
    BY DEF Queue
  <2> QED BY <2>1, <2>2, <2>3, <2>4, <2>5
<1>2. /\ r.write + n + 2 <= L /\ r.chars = n + 2 /\ r.count + r.chars <= L
  BY <1>1 DEF Partial
<1>3. e \in Nat /\ e = r.read + r.count /\ e < 3 * L /\ e < 2 * L /\ r.write < L
      /\ r.write = Fold(e)
  <2>1. e \in Nat /\ e = r.read + r.count /\ e < 3 * L BY Places
  <2>2. r.write < L /\ r.count < L
    <3> HIDE DEF n
    <3> QED BY <1>1, <1>2
  <2>3. r.write = Fold(e) BY <2>2, Places
  <2> HIDE DEF e
  <2> QED BY <1>1, <2>1, <2>2, <2>3
<1>4. d = Size(n) /\ d \in Nat /\ d >= 4 /\ IsEven(d)
  <2>1. d = Size(n) BY <1>2 DEF Size
  <2>2. n >= 2 BY <1>1, Constants
  <2>3. Size(n) \in Nat /\ n + 2 <= Size(n) /\ IsEven(Size(n)) BY <1>1, Sizes, EvenSums
  <2> HIDE DEF d, n
  <2> QED BY <1>1, <2>1, <2>2, <2>3
<1>5. c \in Nat /\ c <= L /\ w \in Nat /\ w <= L /\ IsEven(c) /\ IsEven(w) /\ c < ByteMod
  <2>1. IsEven(r.count) /\ IsEven(r.write) /\ IsEven(L) BY <1>1, EvenSums DEF Position
  <2>2. ASSUME NEW p \in Nat, IsEven(p), p + r.chars <= L
        PROVE  p + d \in Nat /\ p + d <= L /\ IsEven(p + d)
    <3> DEFINE x == L - p
               k == r.chars
    <3>1. x \in Nat /\ k <= x /\ k \in Nat /\ p <= L BY <1>1, <2>2
    <3>2. IsEven(x) BY <1>1, <2>1, <2>2, <3>1, EvenSums
    <3>3. Even(k) <= x
      <4> HIDE DEF x, k
      <4> QED BY <3>1, <3>2, EvenSums
    <3>4. d <= L - p BY <3>3
    <3>5. d \in Nat /\ IsEven(d) BY <1>4
    <3> HIDE DEF d
    <3>6. p + d \in Nat /\ p + d <= L BY <1>1, <2>2, <3>4, <3>5
    <3>7. IsEven(p + d) BY <2>2, <3>5, EvenSums
    <3> QED BY <3>6, <3>7
  <2>3. r.count + r.chars <= L BY <1>2
  <2>4. r.write + r.chars <= L
    <3>1. r.write + n + 2 <= L /\ r.chars = n + 2 BY <1>2
    <3> HIDE DEF n
    <3> QED BY <1>1, <3>1
  <2>5. c \in Nat /\ c <= L /\ IsEven(c) BY <1>1, <2>1, <2>2, <2>3
  <2>6. w \in Nat /\ w <= L /\ IsEven(w) BY <1>1, <2>1, <2>2, <2>4
  <2> HIDE DEF c, w
  <2>7. c < ByteMod BY <1>1, <2>5, Constants
  <2> QED BY <2>5, <2>6, <2>7
<1>6. Commit(r) = m
  <2>1. Plus(r.count, d) = c BY <1>1, <1>4, <1>5, Sums
  <2>2. Commit(r) = Of(r.cell, Plus(r.count, d), w, 0, r.read, r.len) BY <1>1, CommitMakes
  <2> QED BY <2>1, <2>2
<1> HIDE DEF m
<1>7. /\ m.cell = r.cell /\ m.count = c /\ m.write = w /\ m.read = r.read /\ m.len = r.len
  <2> HIDE DEF c, w
  <2> QED BY MadeFields DEF m
<1>8. m \in Ring
  <2>1. 0 \in 0 .. L /\ w \in 0 .. L BY <1>1, <1>5
  <2> HIDE DEF c, w
  <2> QED BY <1>1, <1>5, <2>1, MadeRing DEF m
<1>9. End(m) = e + d /\ e + d \in Nat /\ e + d < 3 * L
  <2>1. End(m) = r.read + c BY <1>7 DEF End
  <2>2. r.read \in Nat /\ r.count \in Nat /\ d \in Nat /\ L \in Nat /\ r.read < L BY <1>1, <1>4
  <2>3. e = r.read + r.count /\ c = r.count + d /\ c \in Nat /\ c <= L BY <1>3, <1>5
  <2> DEFINE a == r.read
             k == r.count
  <2> HIDE DEF e, d, c, a, k, L
  <2>4. a \in Nat /\ k \in Nat /\ a < L /\ e = a + k /\ c = k + d BY <2>2, <2>3 DEF a, k
  <2>5. a + c = e + d BY <2>2, <2>3, <2>4
  <2>6. a + c \in Nat /\ a + c < 3 * L BY <2>2, <2>3, <2>4
  <2> QED BY <2>1, <2>5, <2>6 DEF a
<1>10. Position(m)
  <2>1. (w = Fold(e + d)) \/ (w = L /\ Fold(e + d) = 0)
    <3>1. e \in Nat /\ e < 2 * L /\ d \in Nat /\ Fold(e) + d <= L
      BY <1>3, <1>4, <1>5
    <3>2. Fold(e) = IF e < L THEN e ELSE e - L
      <4> HIDE DEF e
      <4> QED BY <1>3 DEF Fold
    <3>3. w = Fold(e) + d BY <1>3
    <3> HIDE DEF e, d, w
    <3> QED BY <1>1, <3>1, <3>2, <3>3, Constants DEF Fold
  <2>2. IsEven(r.read) BY <1>1 DEF Position
  <2>3. c < 2 * L /\ ~(c > L)
    <3> HIDE DEF c
    <3> QED BY <1>1, <1>5, Constants
  <2> HIDE DEF c, w, e, d
  <2> QED BY <1>1, <1>5, <1>7, <1>9, <2>1, <2>2, <2>3 DEF Position
<1>11. Stored(Lens(r, h), r.read, e, acc, o) /\ (h => r.count > 0 /\ r.len # Dummy)
  BY DEF Queue
<1>12. Lens(m, h) = Lens(r, h)
  BY <1>7 DEF Lens
<1>13. Lens(r, h)[e] = n
  <2>1. h => e # r.read BY <1>1, <1>3, <1>11
  <2> HIDE DEF e
  <2> QED BY <1>3, <2>1, LensAt
<1>14. Message(n, e) /\ After(n, e) = e + d
  <2>1. Fold(e) + d <= L BY <1>3, <1>5
  <2>2. Message(n, e) BY <1>1, <1>4, <2>1 DEF Message
  <2>3. After(n, e) = e + d BY <1>1, <1>4 DEF After
  <2> QED BY <2>2, <2>3
<1>15. Stored(Lens(r, h), r.read, e + d, more, o)
  <2> DEFINE f == Lens(r, h)
             b == After(f[e], e)
  <2>1. b = e + d /\ b < 3 * L /\ Message(f[e], e) /\ f[e] = n /\ f[e] # Dummy
    BY <1>1, <1>9, <1>13, <1>14
  <2>2. Stored(f, r.read, e, acc, o)
    BY <1>11
  <2> HIDE DEF f, e, d
  <2>3. Stored(f, r.read, After(f[e], e), IF o \/ f[e] = Dummy THEN acc ELSE Append(acc, f[e]), o)
    BY <2>1, <2>2, StoredNew
  <2>4. (IF o \/ f[e] = Dummy THEN acc ELSE Append(acc, f[e])) = more
    BY <2>1
  <2> QED BY <2>1, <2>3, <2>4 DEF f
<1>16. h => m.count > 0 /\ m.len # Dummy
  <2>1. c > 0
    <3> HIDE DEF d
    <3> QED BY <1>1, <1>4
  <2> QED BY <1>7, <1>11, <2>1
<1>17. Queue(m, h, more, o)
  <2> HIDE DEF c, w, d, e, more
  <2> QED BY <1>7, <1>8, <1>9, <1>10, <1>12, <1>15, <1>16 DEF Queue
<1> QED BY <1>6, <1>17

-----------------------------------------------------------------------------
(* The frame that is received.                                             *)

\* Its length byte was read, and nothing of it is stored before its address.
Announced ==
    taskState = "GET_RECIPIENT" =>
        /\ \E n \in Lengths : counter = Plus(n, Overhead)
        /\ counter > BufferLength => "OVERFLOW" \in status
        /\ "FOR_THIS_NODE" \notin status

Receiving == taskState \in {"GET_RECIPIENT", "RECEIVE"} => ~Transmitting

\* What is to come and what is stored add up.
Counted ==
    taskState = "RECEIVE" /\ ToStore =>
        /\ Partial(ring)
        /\ \/ counter >= 2 /\ counter + ring.chars = ring.cell[ring.write] + 4
           \/ counter = 1 /\ ring.chars = ring.cell[ring.write] + 2

\* All of it is stored when the acknowledge is due, or the overflow is known.
Whole ==
    taskState \in {"SEND_ACK", "WAIT_FOR_ACK"} /\ ~Transmitting /\ "OVERFLOW" \notin status =>
        /\ "FOR_THIS_NODE" \in status
        /\ Partial(ring) /\ ring.chars = ring.cell[ring.write] + 2

Answered == taskState = "SEND_ACK" /\ ~Transmitting /\ ack = "OK" => "OVERFLOW" \notin status

FrameOK == Announced /\ Receiving /\ Counted /\ Whole /\ Answered

LineOK ==
    /\ taskState \in TaskState /\ status \subseteq StatusBit
    /\ counter \in Byte /\ ack \in Ack /\ toCheck \in 0 .. TxChars
    /\ txOn \in BOOLEAN /\ wire \in 0 .. WireMax /\ silent \in BOOLEAN
    /\ outcome \in {"none", "ABORTED"} \cup Ack /\ sent \in 0 .. (TxChars + 1)

QueueOK ==
    /\ held \in BOOLEAN /\ overrun \in BOOLEAN /\ flushed = FALSE
    /\ Queue(ring, held, accepted, overrun)

BufferInv == LineOK /\ FrameOK /\ QueueOK

HIDE DEF FlagOK, BytesOK, LinkInv
USE DEF Transmitting, TaskState, Ack

LEMMA Bytes ==
    /\ 0 \in Byte /\ TxChars \in Byte /\ TxChars \in Nat /\ WireMax \in Nat
    /\ \A n \in Byte : n \in Nat /\ n < ByteMod
    /\ \A n \in Byte : n > 0 => n - 1 \in Byte
    /\ \A n, m \in Nat : Plus(n, m) \in Byte
    /\ \A n \in Byte : Minus(n, 1) \in Byte
    /\ \A n \in Byte : n > 0 => Minus(n, 1) = n - 1
<1>1. /\ 0 \in Byte /\ TxChars \in Byte /\ TxChars \in Nat /\ WireMax \in Nat
      /\ \A n \in Byte : n \in Nat /\ n < ByteMod
      /\ \A n \in Byte : n > 0 => n - 1 \in Byte
  BY Constants, UartDllAssumption DEF Byte
<1>2. \A x \in Nat : x % ByteMod \in Byte
  BY Constants, SMT DEF Byte
<1>3. \A n, m \in Nat : Plus(n, m) \in Byte
  BY <1>2 DEF Plus
<1>4. \A n \in Byte : Minus(n, 1) \in Byte
  <2> SUFFICES ASSUME NEW n \in Byte PROVE Minus(n, 1) \in Byte
    OBVIOUS
  <2> DEFINE x == n + ByteMod - 1
  <2>1. x \in Nat BY <1>1, Constants
  <2>2. Minus(n, 1) = x % ByteMod BY DEF Minus
  <2> HIDE DEF x
  <2> QED BY <1>2, <2>1, <2>2
<1>5. \A n \in Byte : n > 0 => Minus(n, 1) = n - 1
  <2> SUFFICES ASSUME NEW n \in Byte, n > 0 PROVE Minus(n, 1) = n - 1
    OBVIOUS
  <2>1. n \in Nat /\ 1 \in Nat /\ 1 <= n /\ n < ByteMod BY <1>1
  <2> QED BY <2>1, Sums
<1> QED BY <1>1, <1>3, <1>4, <1>5

\* A frame does not become longer, nor the buffer shorter, by what the layer above does.
LEMMA PartialKept ==
    ASSUME NEW r, NEW m, Partial(r), r \in Ring, m \in Ring, m.cell = r.cell, m.write = r.write,
           m.chars = r.chars, m.count <= r.count
    PROVE  Partial(m)
<1>1. m.count + m.chars <= BufferLength
  <2>1. r.count \in Nat /\ m.count \in Nat /\ r.chars \in Nat BY Fields
  <2>2. r.count + r.chars <= BufferLength BY DEF Partial
  <2> QED BY <2>1, <2>2, Constants
<1> QED BY <1>1 DEF Partial

LEMMA DropQueue ==
    ASSUME NEW r, NEW h, NEW acc, NEW o, Queue(r, h, acc, o)
    PROVE  Queue([r EXCEPT !.chars = 0], h, acc, o)
<1> DEFINE u == Of(r.cell, r.count, r.write, r.chars, r.read, r.len)
           m == Of(r.cell, r.count, r.write, 0, r.read, r.len)
<1>1. r \in Ring BY DEF Queue
<1>2. [r EXCEPT !.chars = 0] = m
  <2>1. r = u BY <1>1, Fields
  <2>2. [u EXCEPT !.chars = 0] = m BY MadeChars
  <2> HIDE DEF u
  <2> QED BY <2>1, <2>2
<1>3. m.cell = r.cell /\ m.count = r.count /\ m.write = r.write /\ m.read = r.read /\ m.len = r.len
  BY MadeFields
<1>4. m \in Ring
  <2>1. 0 \in 0 .. BufferLength BY Constants
  <2>2. /\ r.cell \in [0 .. (BufferLength - 1) -> Byte] /\ r.len \in Byte
        /\ r.count \in Nat /\ r.count < ByteMod
        /\ r.write \in 0 .. BufferLength /\ r.read \in 0 .. BufferLength
    BY <1>1, Fields, Constants
  <2> QED BY <2>1, <2>2, MadeRing
<1> HIDE DEF m
<1>5. Lens(m, h) = Lens(r, h) /\ End(m) = End(r) BY <1>3 DEF Lens, End
<1>6. Queue(m, h, acc, o) BY <1>3, <1>4, <1>5 DEF Queue, Position
<1> QED BY <1>2, <1>6

LEMMA EmptyQueue == Queue(EmptyRing, FALSE, <<>>, FALSE)
<1> DEFINE x == [i \in 0 .. (BufferLength - 1) |-> Data]
           r == Of(x, 0, 0, 0, 0, 0)
<1>1. EmptyRing = r
  BY DEF EmptyRing, Of
<1>2. r.cell = x /\ r.count = 0 /\ r.write = 0 /\ r.read = 0
  BY MadeFields
<1>3. r \in Ring
  <2>1. x \in [0 .. (BufferLength - 1) -> Byte] BY Constants DEF Data, Byte
  <2>2. 0 \in Nat /\ 0 < ByteMod /\ 0 \in Byte /\ 0 \in 0 .. BufferLength
    BY Constants DEF Byte
  <2> HIDE DEF x
  <2> QED BY <2>1, <2>2, MadeRing
<1> HIDE DEF r, x
<1>4. End(r) = 0 /\ Fold(0) = 0 BY <1>2, Constants DEF End, Fold
<1>5. Position(r) BY <1>2, <1>4, EvenSums, Constants DEF Position
<1>6. Stored(Lens(r, FALSE), 0, 0, <<>>, FALSE)
  <2>1. 0 \in 0 .. BufferLength /\ 0 # BufferLength BY Constants
  <2> QED BY <2>1, StoredNothing
<1> QED BY <1>1, <1>2, <1>3, <1>4, <1>5, <1>6 DEF Queue

LEMMA InitBuffer == Init => BufferInv
<1> SUFFICES ASSUME Init PROVE BufferInv
  OBVIOUS
<1>1. QueueOK BY EmptyQueue DEF Init, QueueOK
<1>2. FrameOK
  BY DEF Init, FrameOK, Announced, Receiving, Counted, Whole, Answered
<1>3. LineOK
  <2>1. 0 \in Byte /\ 0 \in 0 .. TxChars /\ 0 \in 0 .. WireMax /\ 0 \in 0 .. (TxChars + 1)
    BY Bytes
  <2> QED BY <2>1 DEF Init, LineOK
<1> QED BY <1>1, <1>2, <1>3 DEF BufferInv

-----------------------------------------------------------------------------
(* Steps that leave the buffer alone.                                      *)

LEMMA QueueSame == ASSUME QueueOK, UNCHANGED queue PROVE QueueOK' /\ ring' = ring
BY DEF QueueOK, queue

LEMMA ReadByte == ASSUME LineOK, ByteRead PROVE wire' \in 0 .. WireMax
BY Bytes DEF LineOK, ByteRead

LEMMA EchoedByte == ASSUME LineOK, NEW b \in BOOLEAN, Echoed(b) PROVE wire' \in 0 .. WireMax
BY Bytes DEF LineOK, Echoed, ByteRead

LEMMA Forgotten ==
    ASSUME LineOK, EnterIdleState, wire' \in 0 .. WireMax, txOn' \in BOOLEAN, silent' \in BOOLEAN,
           outcome' \in {"none", "ABORTED"} \cup Ack
    PROVE  LineOK' /\ FrameOK'
<1>1. 0 \in Byte /\ 0 \in 0 .. TxChars /\ 0 \in 0 .. (TxChars + 1)
  BY Bytes
<1>2. LineOK' BY <1>1 DEF LineOK, EnterIdleState, Forget
<1>3. FrameOK'
  BY DEF EnterIdleState, FrameOK, Announced, Receiving, Counted, Whole, Answered
<1> QED BY <1>2, <1>3

LEMMA FirstByteBuffer == ASSUME BufferInv, NEW late \in BOOLEAN, RxFirstByte(late) PROVE BufferInv'
<1>1. LineOK' /\ FrameOK'
  <2>1. 0 \in Byte /\ 0 \in 0 .. TxChars /\ 0 \in 0 .. (TxChars + 1) BY Bytes
  <2>2. wire' \in 0 .. WireMax /\ txOn' \in BOOLEAN /\ silent' \in BOOLEAN
        /\ outcome' \in {"none", "ABORTED"} \cup Ack
    BY ReadByte DEF RxFirstByte, Confirm, BufferInv, LineOK
  <2>3. ack' = "NOT_RECEIVED" /\ toCheck' = 0 /\ sent' = 0
    BY DEF RxFirstByte
  <2>4. ASSUME NEW len \in Lengths, counter' = Plus(len, Overhead),
               status' = IF counter' > BufferLength THEN {"OVERFLOW"} ELSE {},
               taskState' = "GET_RECIPIENT"
        PROVE  LineOK' /\ FrameOK'
    <3>1. counter' \in Byte BY <2>4, Bytes, Constants
    <3>2. LineOK' BY <2>1, <2>2, <2>3, <2>4, <3>1 DEF LineOK, StatusBit
    <3>3. FrameOK'
      BY <2>3, <2>4 DEF FrameOK, Announced, Receiving, Counted, Whole, Answered
    <3> QED BY <3>2, <3>3
  <2>5. CASE taskState' = "RECEIVE" /\ status' = {"DBUS3"} /\ counter' = 0
    <3>1. LineOK' BY <2>1, <2>2, <2>3, <2>5 DEF LineOK, StatusBit
    <3>2. FrameOK'
      BY <2>3, <2>5 DEF FrameOK, Announced, Receiving, Counted, Whole, Answered, ToStore
    <3> QED BY <3>1, <3>2
  <2> QED BY <2>4, <2>5 DEF RxFirstByte
<1> QED BY <1>1, QueueSame DEF BufferInv, RxFirstByte

LEMMA OtherRecipientBuffer ==
    ASSUME BufferInv, NEW late \in BOOLEAN, RxOtherRecipient(late) PROVE BufferInv'
<1>1. LineOK'
  <2>1. Plus(counter, 1) \in Byte BY Bytes DEF BufferInv, LineOK
  <2> QED BY <2>1, ReadByte DEF RxOtherRecipient, BufferInv, LineOK, own
<1>2. FrameOK'
  BY DEF RxOtherRecipient, FrameOK, Announced, Receiving, Counted, Whole, Answered, ToStore
<1> QED BY <1>1, <1>2, QueueSame DEF BufferInv, RxOtherRecipient

LEMMA ChecksumBuffer ==
    ASSUME BufferInv, NEW late \in BOOLEAN, NEW b \in BOOLEAN, RxChecksum(late, b) PROVE BufferInv'
<1>1. /\ Minus(counter, 1) \in Byte /\ counter \in Byte
      /\ taskState = "RECEIVE" /\ ToStore /\ counter' = Minus(counter, 1) /\ counter' \in {0, 1}
  BY Bytes DEF RxChecksum, BufferInv, LineOK
<1>2. LineOK'
  <2>1. status' \subseteq StatusBit
    BY DEF RxChecksum, BufferInv, LineOK, StatusBit
  <2> QED BY <1>1, <2>1, ReadByte DEF RxChecksum, AwaitAck, BufferInv, LineOK, own
<1>3. QueueOK' /\ ring' = ring
  BY QueueSame DEF BufferInv, RxChecksum
<1>4. Partial(ring) /\ ~Transmitting
  BY <1>1 DEF BufferInv, FrameOK, Counted, Receiving
<1>5. FrameOK'
  <2> DEFINE n == ring.cell[ring.write]
             k == ring.chars
  <2>1. n \in Nat /\ k \in Nat /\ counter \in Nat
    <3>1. n \in Nat BY <1>4, Constants DEF Partial
    <3>2. ring \in Ring BY DEF BufferInv, QueueOK, Queue
    <3> QED BY <1>1, <3>1, <3>2, Fields, Bytes
  <2>2. (counter >= 2 /\ counter + k = n + 4) \/ (counter = 1 /\ k = n + 2)
    BY <1>1 DEF BufferInv, FrameOK, Counted
  <2>3. counter' = counter - 1
    <3>1. counter > 0 BY <2>1, <2>2
    <3> QED BY <1>1, <3>1, Bytes
  <2> HIDE DEF n, k
  <2>4. k = n + 2
    BY <1>1, <2>1, <2>2, <2>3
  <2>5. CASE counter' = 1
    <3>1. taskState' = taskState /\ status' = status BY <2>5 DEF RxChecksum
    <3>2. Partial(ring)' /\ ring'.chars = ring'.cell[ring'.write] + 2
      BY <1>3, <1>4, <2>4 DEF n, k
    <3> QED BY <1>1, <1>4, <2>5, <3>1, <3>2
            DEF FrameOK, Announced, Receiving, Counted, Whole, Answered
  <2>6. CASE counter' # 1
    <3>1. /\ taskState' \in {"SEND_ACK", "WAIT_FOR_ACK"}
          /\ taskState' = "SEND_ACK" => ack' = "NOT_RECEIVED"
          /\ "FOR_THIS_NODE" \in status'
      BY <1>1, <2>6 DEF RxChecksum, AwaitAck, ToStore
    <3>2. Partial(ring)' /\ ring'.chars = ring'.cell[ring'.write] + 2
      BY <1>3, <1>4, <2>4 DEF n, k
    <3> QED BY <3>1, <3>2 DEF FrameOK, Announced, Receiving, Counted, Whole, Answered
  <2> QED BY <2>5, <2>6
<1> QED BY <1>2, <1>3, <1>5 DEF BufferInv

LEMMA SkippedByteBuffer ==
    ASSUME BufferInv, NEW late \in BOOLEAN, RxSkippedByte(late) PROVE BufferInv'
<1>1. LineOK'
  <2>1. Minus(counter, 1) \in Byte BY Bytes DEF BufferInv, LineOK
  <2>2. counter' \in Byte /\ status' \subseteq StatusBit
    BY <2>1 DEF RxSkippedByte, BufferInv, LineOK
  <2> QED BY <2>2, ReadByte DEF RxSkippedByte, AwaitAck, BufferInv, LineOK, own
<1>2. FrameOK'
  <2>1. taskState = "RECEIVE" /\ ~ToStore /\ ~Transmitting
    BY DEF RxSkippedByte, BufferInv, FrameOK, Receiving
  <2>2. CASE UNCHANGED <<taskState, status, ack, txOn>>
    BY <2>1, <2>2 DEF FrameOK, Announced, Receiving, Counted, Whole, Answered, ToStore
  <2>3. CASE "OVERFLOW" \in status /\ AwaitAck("BROADCAST" \notin status) /\ UNCHANGED status
    BY <2>1, <2>3 DEF FrameOK, Announced, Receiving, Counted, Whole, Answered, AwaitAck
  <2>4. CASE taskState' = "IDLE" /\ status' = {} /\ UNCHANGED <<ack, txOn>>
    BY <2>4 DEF FrameOK, Announced, Receiving, Counted, Whole, Answered
  <2> QED BY <2>2, <2>3, <2>4 DEF RxSkippedByte
<1> QED BY <1>1, <1>2, QueueSame DEF BufferInv, RxSkippedByte

\* A transmission does not touch the buffer.
LEMMA EchoBuffer == ASSUME LinkInv, BufferInv, NEW late \in BOOLEAN, RxEcho(late) PROVE BufferInv'
<1>1. wire' \in 0 .. WireMax
  BY EchoedByte DEF RxEcho, BufferInv
<1>2. toCheck' \in 0 .. TxChars
  BY Bytes DEF RxEcho, BufferInv, LineOK
<1>3. LineOK'
  BY <1>1, <1>2 DEF RxEcho, AwaitAck, BufferInv, LineOK, own
<1>4. Transmitting' /\ Transmitting
  BY DEF RxEcho, LinkInv, FlagOK
<1>5. FrameOK'
  BY <1>4 DEF RxEcho, AwaitAck, FrameOK, Announced, Receiving, Counted, Whole, Answered
<1> QED BY <1>3, <1>5, QueueSame DEF BufferInv, RxEcho

LEMMA CollisionBuffer == ASSUME BufferInv, NEW late \in BOOLEAN, RxCollision(late) PROVE BufferInv'
<1>1. LineOK' /\ FrameOK'
  BY Forgotten, ReadByte DEF RxCollision, Confirm, BufferInv, LineOK
<1> QED BY <1>1, QueueSame DEF BufferInv, RxCollision

LEMMA UnreadBuffer == ASSUME BufferInv, RxError \/ RxOffline PROVE BufferInv'
<1>1. wire' \in 0 .. WireMax
  BY Bytes DEF RxError, RxOffline, BufferInv, LineOK
<1>2. LineOK' BY <1>1 DEF RxError, RxOffline, BufferInv, LineOK, own
<1>3. QueueOK' /\ ring' = ring BY QueueSame DEF RxError, RxOffline, BufferInv
<1>4. FrameOK'
  BY <1>3 DEF RxError, RxOffline, BufferInv, FrameOK, Announced, Receiving, Counted, Whole,
     Answered, ToStore
<1> QED BY <1>2, <1>3, <1>4 DEF BufferInv

LEMMA TxBuffer == ASSUME LinkInv, BufferInv, TxEvent PROVE BufferInv'
<1>1. CASE TxByte
  <2>1. /\ wire' \in 0 .. WireMax /\ sent' \in 0 .. (TxChars + 1) /\ counter' \in Byte
        /\ txOn' \in BOOLEAN
    <3>1. wire \in Nat /\ wire + 1 <= WireMax
      BY <1>1, Bytes DEF TxByte, BufferInv, LineOK
    <3>2. sent \in Nat /\ counter \in Nat /\ sent + counter = TxChars
      BY <1>1 DEF TxByte, LinkInv, BytesOK
    <3>3. counter' \in Byte
      BY <1>1, Bytes DEF TxByte, BufferInv, LineOK
    <3>4. sent' \in 0 .. (TxChars + 1)
      BY <1>1, <3>2, Bytes DEF TxByte, Put
    <3> QED BY <1>1, <3>1, <3>3, <3>4, Bytes DEF TxByte, Put
  <2>2. LineOK' BY <1>1, <2>1 DEF TxByte, BufferInv, LineOK
  <2>3. FrameOK'
    BY <1>1 DEF TxByte, FrameOK, Announced, Receiving, Counted, Whole, Answered
  <2> QED BY <1>1, <2>2, <2>3, QueueSame DEF BufferInv, TxByte
<1>2. CASE TxIdle
  <2>1. LineOK' BY <1>2 DEF TxIdle, BufferInv, LineOK, own
  <2>2. QueueOK' /\ ring' = ring BY <1>2, QueueSame DEF BufferInv, TxIdle
  <2>3. FrameOK'
    BY <1>2, <2>2 DEF TxIdle, BufferInv, FrameOK, Announced, Receiving, Counted, Whole, Answered,
       ToStore
  <2> QED BY <2>1, <2>2, <2>3 DEF BufferInv
<1>3. ASSUME NEW late \in BOOLEAN, TxAck(late) PROVE BufferInv'
  <2>1. wire' \in 0 .. WireMax BY <1>3, Bytes DEF TxAck, BufferInv, LineOK
  <2>2. LineOK' BY <1>3, <2>1 DEF TxAck, BufferInv, LineOK, own
  <2>3. QueueOK' /\ ring' = ring BY <1>3, QueueSame DEF BufferInv, TxAck
  <2>4. FrameOK'
    BY <1>3, <2>3 DEF TxAck, BufferInv, FrameOK, Announced, Receiving, Counted, Whole, Answered
  <2> QED BY <2>2, <2>3, <2>4 DEF BufferInv
<1> QED BY <1>1, <1>2, <1>3 DEF TxEvent

LEMMA TaskBuffer == ASSUME BufferInv, BusIdleSeen \/ Timeout PROVE BufferInv'
<1>1. CASE BusIdleSeen
  <2>1. LineOK' BY <1>1 DEF BusIdleSeen, BufferInv, LineOK, own, StatusBit
  <2>2. FrameOK'
    BY <1>1 DEF BusIdleSeen, FrameOK, Announced, Receiving, Counted, Whole, Answered
  <2> QED BY <1>1, <2>1, <2>2, QueueSame DEF BufferInv, BusIdleSeen
<1>2. CASE ReceiveTimeout
  <2>1. LineOK' /\ FrameOK' BY <1>2, Forgotten DEF ReceiveTimeout, BufferInv, LineOK
  <2> QED BY <1>2, <2>1, QueueSame DEF BufferInv, ReceiveTimeout
<1>3. CASE AnswerTimeout
  <2>1. LineOK' /\ FrameOK' BY <1>3, Forgotten DEF AnswerTimeout, Confirm, BufferInv, LineOK
  <2> QED BY <1>3, <2>1, QueueSame DEF BufferInv, AnswerTimeout
<1> QED BY <1>1, <1>2, <1>3 DEF Timeout

LEMMA LineCallBuffer ==
    ASSUME BufferInv,
           \/ \E broadcast \in BOOLEAN : Transmit(broadcast)
           \/ TransmitRefused \/ GoOffline \/ GoOnline \/ SetSilentMode
    PROVE  BufferInv'
<1>0. 0 \in Byte /\ 0 \in 0 .. TxChars /\ 0 \in 0 .. (TxChars + 1) /\ TxChars \in 0 .. TxChars
      /\ TxChars \in Byte
  BY Bytes
<1>1. ASSUME NEW b \in BOOLEAN, Transmit(b) PROVE BufferInv'
  <2>1. LineOK' BY <1>0, <1>1 DEF Transmit, BufferInv, LineOK, StatusBit
  <2>2. FrameOK'
    BY <1>1 DEF Transmit, FrameOK, Announced, Receiving, Counted, Whole, Answered
  <2> QED BY <1>1, <2>1, <2>2, QueueSame DEF BufferInv, Transmit
<1>2. CASE TransmitRefused
  <2>1. CASE MayTransmit /\ EnterIdleState /\ UNCHANGED <<txOn, wire, silent, outcome, queue>>
    <3>1. LineOK' /\ FrameOK' BY <2>1, Forgotten DEF BufferInv, LineOK
    <3> QED BY <2>1, <3>1, QueueSame DEF BufferInv
  <2>2. CASE /\ taskState = "IDLE" /\ status' = status \ {"READY"}
             /\ UNCHANGED <<taskState, counter, toCheck, ack, txOn, wire, silent, own, queue>>
    <3>1. LineOK' BY <2>2 DEF BufferInv, LineOK, own
    <3>2. FrameOK'
      BY <2>2 DEF FrameOK, Announced, Receiving, Counted, Whole, Answered
    <3> QED BY <2>2, <3>1, <3>2, QueueSame DEF BufferInv
  <2> QED BY <1>2, <2>1, <2>2 DEF TransmitRefused
<1>3. CASE GoOffline
  <2>1. LineOK' BY <1>0, <1>3 DEF GoOffline, Forget, BufferInv, LineOK
  <2>2. FrameOK'
    BY <1>3 DEF GoOffline, FrameOK, Announced, Receiving, Counted, Whole, Answered
  <2> QED BY <1>3, <2>1, <2>2, QueueSame DEF BufferInv, GoOffline
<1>4. CASE GoOnline
  <2>1. LineOK' /\ FrameOK' BY <1>4, Forgotten DEF GoOnline, BufferInv, LineOK
  <2> QED BY <1>4, <2>1, QueueSame DEF BufferInv, GoOnline
<1>5. CASE SetSilentMode
  <2>1. LineOK' BY <1>5 DEF SetSilentMode, BufferInv, LineOK, own
  <2>2. QueueOK' /\ ring' = ring BY <1>5, QueueSame DEF BufferInv, SetSilentMode
  <2>3. FrameOK'
    BY <1>5, <2>2 DEF SetSilentMode, BufferInv, FrameOK, Announced, Receiving, Counted, Whole,
       Answered, ToStore
  <2> QED BY <2>1, <2>2, <2>3 DEF BufferInv
<1> QED BY <1>1, <1>2, <1>3, <1>4, <1>5

-----------------------------------------------------------------------------
(* Steps that change the buffer.                                           *)

LEMMA RecipientBuffer ==
    ASSUME BufferInv, NEW late \in BOOLEAN, NEW b \in BOOLEAN, RxRecipient(late, b) PROVE BufferInv'
<1> DEFINE mine == status \cup {"FOR_THIS_NODE"} \cup IF b THEN {"BROADCAST"} ELSE {}
           stored == StoreHeader(ring, counter)
           n == counter
<1>1. /\ taskState = "GET_RECIPIENT" /\ taskState' = "RECEIVE" /\ ByteRead /\ counter' = n
      /\ UNCHANGED <<ack, toCheck, txOn, silent, own, held, accepted, flushed>>
  BY DEF RxRecipient
<1>2. mine \subseteq StatusBit /\ mine \cup {"OVERFLOW"} \subseteq StatusBit
      /\ "TRANSMISSION" \notin mine
  BY <1>1 DEF BufferInv, LineOK, FrameOK, Receiving, StatusBit
<1>3. CASE "OVERFLOW" \in status
  <2>1. status' = mine /\ UNCHANGED <<ring, overrun>> BY <1>3 DEF RxRecipient
  <2>2. LineOK' BY <1>1, <1>2, <2>1, ReadByte DEF BufferInv, LineOK, own
  <2>3. QueueOK' BY <1>1, <2>1, QueueSame DEF BufferInv, queue
  <2>4. FrameOK'
    BY <1>1, <1>2, <1>3, <2>1 DEF FrameOK, Announced, Receiving, Counted, Whole, Answered, ToStore
  <2> QED BY <2>2, <2>3, <2>4 DEF BufferInv
<1>4. CASE "OVERFLOW" \notin status
  <2>1. /\ ring' = stored[1] /\ status' = IF stored[2] THEN mine ELSE mine \cup {"OVERFLOW"}
        /\ overrun' = (overrun \/ WrapOverwrites(ring, counter))
    BY <1>4 DEF RxRecipient
  <2>2. n \in 0 .. BufferLength /\ (n = 0 \/ (n >= 4 /\ n - 2 \in Lengths))
    <3>1. PICK len \in Lengths : n = Plus(len, Overhead)
      BY <1>1 DEF BufferInv, FrameOK, Announced
    <3>2. n \in Nat /\ n <= BufferLength
      BY <1>1, <1>4, Bytes, Constants DEF BufferInv, LineOK, FrameOK, Announced
    <3>3. len \in Nat /\ len >= 2 /\ len <= ByteMod - 2
      BY Constants
    <3>4. CASE len + 2 < ByteMod
      <4>1. n = len + 2 BY <3>1, <3>3, <3>4, Sums, Constants
      <4> QED BY <3>2, <3>3, <4>1
    <3>5. CASE len + 2 = ByteMod
      <4>1. n = (0 + ByteMod) % ByteMod BY <3>1, <3>5, Constants DEF Plus
      <4>2. (0 + ByteMod) % ByteMod = 0
        <5>1. 0 \in Nat /\ 0 < ByteMod BY Constants
        <5> QED BY <5>1, Modulus
      <4> HIDE DEF n
      <4> QED BY <3>2, <4>1, <4>2, Constants
    <3> HIDE DEF n
    <3> QED BY <3>3, <3>4, <3>5, Constants
  <2>3. /\ Queue(stored[1], held, accepted, overrun \/ WrapOverwrites(ring, n))
        /\ stored[2] \in BOOLEAN
        /\ stored[2] => /\ n >= 4 /\ Partial(stored[1]) /\ stored[1].chars = 2
                        /\ stored[1].cell[stored[1].write] = n - 2
    <3>1. Queue(ring, held, accepted, overrun) /\ held \in BOOLEAN /\ overrun \in BOOLEAN
      BY DEF BufferInv, QueueOK
    <3> HIDE DEF n
    <3>2. stored = StoreHeader(ring, n) BY DEF n
    <3> HIDE DEF stored
    <3> QED BY <2>2, <3>1, <3>2, HeaderQueue
  <2> HIDE DEF stored, mine
  <2>4. LineOK'
    <3>1. status' \subseteq StatusBit BY <1>2, <2>1
    <3> QED BY <1>1, <3>1, ReadByte DEF BufferInv, LineOK, own
  <2>5. QueueOK'
    <3>1. Queue(ring', held', accepted', overrun') BY <1>1, <2>1, <2>3
    <3>2. overrun' \in BOOLEAN BY <2>1
    <3> QED BY <1>1, <3>1, <3>2 DEF BufferInv, QueueOK
  <2>6. FrameOK'
    <3>1. "TRANSMISSION" \notin status' BY <1>2, <2>1
    <3>2. CASE stored[2]
      <4>1. Partial(ring)' /\ ring'.chars = 2 /\ ring'.cell[ring'.write] = n - 2 /\ n >= 4
        BY <2>1, <2>3, <3>2
      <4>2. counter' >= 2 /\ counter' + ring'.chars = ring'.cell[ring'.write] + 4
        <5>1. n \in Nat BY <2>2
        <5>2. n >= 2 /\ n + 2 = n - 2 + 4 BY <4>1, <5>1
        <5> QED BY <1>1, <4>1, <5>2
      <4> QED BY <1>1, <3>1, <4>1, <4>2
              DEF FrameOK, Announced, Receiving, Counted, Whole, Answered
    <3>3. CASE ~stored[2]
      <4>1. "OVERFLOW" \in status' BY <2>1, <3>3
      <4> QED BY <1>1, <3>1, <4>1
              DEF FrameOK, Announced, Receiving, Counted, Whole, Answered, ToStore
    <3> QED BY <3>2, <3>3
  <2> QED BY <2>4, <2>5, <2>6 DEF BufferInv
<1> QED BY <1>3, <1>4

LEMMA DataBuffer == ASSUME BufferInv, NEW late \in BOOLEAN, RxData(late) PROVE BufferInv'
<1> DEFINE n == ring.cell[ring.write]
           k == ring.chars
<1>1. /\ taskState = "RECEIVE" /\ UNCHANGED taskState /\ ToStore /\ ~Transmitting
      /\ Minus(counter, 1) > 1 /\ counter' = Minus(counter, 1) /\ ByteRead
      /\ UNCHANGED <<ack, toCheck, txOn, silent, own, held, accepted, overrun, flushed>>
  BY DEF RxData, BufferInv, FrameOK, Receiving
<1>2. Partial(ring) /\ Queue(ring, held, accepted, overrun) /\ held \in BOOLEAN
      /\ overrun \in BOOLEAN
      /\ ring \in Ring
  BY <1>1 DEF BufferInv, FrameOK, Counted, QueueOK, Queue
<1>3. n \in Nat /\ k \in Nat /\ counter \in Nat /\ counter \in Byte /\ counter' \in Byte
  <2>1. n \in Nat BY <1>2, Constants DEF Partial
  <2>2. counter \in Byte BY DEF BufferInv, LineOK
  <2> QED BY <1>1, <1>2, <2>1, <2>2, Fields, Bytes
<1>4. k < n + 2 /\ counter' >= 2 /\ counter' + (k + 1) = n + 4
  <2>1. (counter >= 2 /\ counter + k = n + 4) \/ (counter = 1 /\ k = n + 2)
    BY <1>1 DEF BufferInv, FrameOK, Counted
  <2>2. counter' = counter - 1
    <3>1. counter > 0 BY <1>3, <2>1
    <3> QED BY <1>1, <1>3, <3>1, Bytes
  <2>3. counter - 1 > 1 BY <1>1, <2>2
  <2> HIDE DEF n, k
  <2> QED BY <1>3, <2>1, <2>2, <2>3
<1>5. CASE IsFull(ring)
  <2>1. status' = status \cup {"OVERFLOW"} /\ UNCHANGED ring BY <1>5 DEF RxData
  <2>2. LineOK' BY <1>1, <1>3, <2>1, ReadByte DEF BufferInv, LineOK, own, StatusBit
  <2>3. QueueOK' BY <1>1, <2>1, QueueSame DEF BufferInv, queue
  <2>4. FrameOK'
    BY <1>1, <2>1 DEF FrameOK, Announced, Receiving, Counted, Whole, Answered, ToStore
  <2> QED BY <2>2, <2>3, <2>4 DEF BufferInv
<1>6. CASE ~IsFull(ring)
  <2> DEFINE m == StoreByte(ring)
  <2>1. ring' = m /\ UNCHANGED status BY <1>6 DEF RxData
  <2>2. /\ Queue(m, held, accepted, overrun) /\ Partial(m) /\ m.chars = k + 1
        /\ m.cell[m.write] = n
    BY <1>2, <1>4, <1>6, ByteQueue
  <2> HIDE DEF m
  <2>3. LineOK' BY <1>1, <1>3, <2>1, ReadByte DEF BufferInv, LineOK, own
  <2>4. QueueOK'
    <3>1. Queue(ring', held', accepted', overrun') BY <1>1, <2>1, <2>2
    <3> QED BY <1>1, <3>1 DEF BufferInv, QueueOK
  <2>5. FrameOK'
    <3>1. Partial(ring)' /\ counter' >= 2 /\ counter' + ring'.chars = ring'.cell[ring'.write] + 4
      BY <1>4, <2>1, <2>2
    <3> HIDE DEF n, k
    <3> QED BY <1>1, <2>1, <3>1 DEF FrameOK, Announced, Receiving, Counted, Whole, Answered
  <2> QED BY <2>3, <2>4, <2>5 DEF BufferInv
<1> QED BY <1>5, <1>6

LEMMA AcceptedQueue ==
    ASSUME BufferInv, Accept, Partial(ring), ring.chars = ring.cell[ring.write] + 2
    PROVE  QueueOK'
<1>1. Queue(ring, held, accepted, overrun) /\ held \in BOOLEAN /\ overrun \in BOOLEAN
      /\ flushed = FALSE
  BY DEF BufferInv, QueueOK
<1>2. Queue(Commit(ring), held,
            IF overrun THEN accepted ELSE Append(accepted, ring.cell[ring.write]),
            overrun)
  BY <1>1, CommitQueue
<1> QED BY <1>1, <1>2 DEF Accept, QueueOK

LEMMA OwnAckBuffer ==
    ASSUME LinkInv, BufferInv, NEW late \in BOOLEAN, NEW b \in BOOLEAN, RxOwnAck(late, b)
    PROVE  BufferInv'
<1>1. /\ taskState = "SEND_ACK" /\ Echoed(b) /\ EnterIdleState /\ UNCHANGED <<txOn, silent>>
      /\ Confirm("BROADCAST" \in status, IF b THEN ack ELSE "NOT_RECEIVED")
  BY DEF RxOwnAck
<1>2. LineOK' /\ FrameOK'
  BY <1>1, Forgotten, EchoedByte DEF Confirm, BufferInv, LineOK
<1>3. CASE b /\ status \cap {"BROADCAST", "WRONG_CRC", "OVERFLOW"} = {}
  <2>1. "OVERFLOW" \notin status /\ ~Transmitting
    BY <1>1, <1>3 DEF LinkInv, FlagOK
  <2>2. Partial(ring) /\ ring.chars = ring.cell[ring.write] + 2
    BY <1>1, <2>1 DEF BufferInv, FrameOK, Whole
  <2>3. Accept BY <1>3 DEF RxOwnAck
  <2> QED BY <1>2, <2>2, <2>3, AcceptedQueue DEF BufferInv
<1>4. CASE ~(b /\ status \cap {"BROADCAST", "WRONG_CRC", "OVERFLOW"} = {})
  BY <1>2, <1>4, QueueSame DEF RxOwnAck, BufferInv
<1> QED BY <1>3, <1>4

LEMMA AckBuffer ==
    ASSUME BufferInv, NEW late \in BOOLEAN, NEW a \in Ack, NEW n \in BOOLEAN, NEW f \in BOOLEAN,
           RxAck(late, a, n, f)
    PROVE  BufferInv'
<1>1. LineOK' /\ FrameOK'
  BY Forgotten, ReadByte DEF RxAck, Confirm, BufferInv, LineOK
<1>2. CASE a = "OK" /\ ~Transmitting /\ ToStore /\ "WRONG_CRC" \notin status
  <2>1. Partial(ring) /\ ring.chars = ring.cell[ring.write] + 2
    BY <1>2 DEF RxAck, ToStore, BufferInv, FrameOK, Whole
  <2>2. CASE f
    <3>1. ring' = [ring EXCEPT !.chars = 0] /\ UNCHANGED <<held, accepted, overrun, flushed>>
      BY <1>2, <2>2 DEF RxAck
    <3>2. Queue(ring', held, accepted, overrun)
      BY <3>1, DropQueue DEF BufferInv, QueueOK
    <3> QED BY <1>1, <3>1, <3>2 DEF BufferInv, QueueOK
  <2>3. CASE ~f
    <3>1. Accept BY <1>2, <2>3 DEF RxAck
    <3> QED BY <1>1, <2>1, <3>1, AcceptedQueue DEF BufferInv
  <2> QED BY <2>2, <2>3
<1>3. CASE ~(a = "OK" /\ ~Transmitting /\ ToStore /\ "WRONG_CRC" \notin status)
  BY <1>1, <1>3, QueueSame DEF RxAck, BufferInv
<1> QED BY <1>2, <1>3

\* The layer above reads while a frame is received.
LEMMA ReadBuffer ==
    ASSUME BufferInv, UNCHANGED <<line, own>>, QueueOK', ring' \in Ring, ring'.cell = ring.cell,
           ring'.write = ring.write, ring'.chars = ring.chars, ring'.count <= ring.count
    PROVE  BufferInv'
<1>1. LineOK'
  BY DEF BufferInv, LineOK, line, own
<1>2. ring \in Ring
  BY DEF BufferInv, QueueOK, Queue
<1>3. Partial(ring) => Partial(ring)'
  <2>1. Partial(ring) => Partial(ring') BY <1>2, PartialKept
  <2> QED BY <2>1
<1>4. FrameOK'
  BY <1>3 DEF line, BufferInv, FrameOK, Announced, Receiving, Counted, Whole, Answered, ToStore
<1> QED BY <1>1, <1>4 DEF BufferInv

LEMMA ReceiveBuffer == ASSUME BufferInv, ReceiveMessage PROVE BufferInv'
<1> DEFINE m == Receive(ring)
<1>1. /\ held = FALSE /\ ring.count # 0 /\ ring' = m /\ held' = (m.count # 0)
      /\ UNCHANGED <<line, own, accepted, overrun, flushed>>
  BY DEF ReceiveMessage, HasMessage, BufferInv, QueueOK
<1>2. /\ Queue(m, m.count # 0, accepted, overrun)
      /\ m.cell = ring.cell /\ m.write = ring.write /\ m.chars = ring.chars /\ m.count <= ring.count
  <2>1. Queue(ring, FALSE, accepted, overrun) BY <1>1 DEF BufferInv, QueueOK
  <2> QED BY <1>1, <2>1, ReceiveQueue
<1> HIDE DEF m
<1>3. QueueOK'
  BY <1>1, <1>2 DEF BufferInv, QueueOK
<1>4. m \in Ring
  BY <1>2 DEF Queue
<1> QED BY <1>1, <1>2, <1>3, <1>4, ReadBuffer

LEMMA ReleaseBuffer == ASSUME BufferInv, ReleaseMessage PROVE BufferInv'
<1> DEFINE m == Release(ring)
           rest == IF overrun THEN accepted ELSE SubSeq(accepted, 2, Len(accepted))
<1>1. /\ held /\ held' = FALSE /\ ring' = m /\ accepted' = rest
      /\ flushed' = (flushed \/ Flushes(ring)) /\ UNCHANGED <<line, own, overrun>>
  BY DEF ReleaseMessage
<1>2. Queue(ring, TRUE, accepted, overrun) /\ overrun \in BOOLEAN
  <2>1. held = TRUE BY <1>1 DEF BufferInv, QueueOK
  <2> QED BY <2>1 DEF BufferInv, QueueOK
<1>3. /\ Queue(m, FALSE, rest, overrun)
      /\ m.cell = ring.cell /\ m.write = ring.write /\ m.chars = ring.chars /\ m.count <= ring.count
  BY <1>2, ReleaseQueue
<1>4. ~Flushes(ring)
  BY <1>2, HeldMessage
<1> HIDE DEF m, rest
<1>5. QueueOK'
  BY <1>1, <1>2, <1>3, <1>4 DEF BufferInv, QueueOK
<1>6. m \in Ring
  BY <1>3 DEF Queue
<1> QED BY <1>1, <1>3, <1>5, <1>6, ReadBuffer

LEMMA StepBuffer == LinkInv /\ BufferInv /\ [Next]_vars => BufferInv'
<1> SUFFICES ASSUME LinkInv, BufferInv, [Next]_vars PROVE BufferInv'
  OBVIOUS
<1>1. ASSUME NEW late \in BOOLEAN, RxEvent(late) PROVE BufferInv'
  BY <1>1, FirstByteBuffer, OtherRecipientBuffer, RecipientBuffer, ChecksumBuffer, OwnAckBuffer,
     DataBuffer, SkippedByteBuffer, EchoBuffer, CollisionBuffer, AckBuffer DEF RxEvent
<1>2. CASE Call
  BY <1>2, LineCallBuffer, ReceiveBuffer, ReleaseBuffer DEF Call
<1>3. CASE UNCHANGED vars
  <2>1. LineOK' BY <1>3 DEF vars, line, own, BufferInv, LineOK
  <2>2. QueueOK' /\ ring' = ring BY <1>3, QueueSame DEF vars, BufferInv
  <2>3. FrameOK'
    BY <1>3, <2>2 DEF vars, line, BufferInv, FrameOK, Announced, Receiving, Counted, Whole,
       Answered, ToStore
  <2> QED BY <2>1, <2>2, <2>3 DEF BufferInv
<1> QED BY <1>1, <1>2, <1>3, UnreadBuffer, TxBuffer, TaskBuffer DEF Next

\* The inductive invariant.
THEOREM BufferInvariant == Spec => [](LinkInv /\ BufferInv)
<1>1. Init => LinkInv /\ BufferInv BY InitInv, InitBuffer
<1>2. LinkInv /\ BufferInv /\ [Next]_vars => (LinkInv /\ BufferInv)'
  BY StepGood, StepBuffer DEF Good
<1> QED BY <1>1, <1>2, PTL DEF Spec

\* The state of dbusdll.c keeps its types: in particular no offset of the input
\* buffer leaves it.
THEOREM TypesOK == Spec => []TypeOK
<1>1. BufferInv => TypeOK
  BY DEF BufferInv, LineOK, QueueOK, Queue, Stored, TypeOK
<1> QED BY <1>1, BufferInvariant, PTL

\* The message handed out by DLL_ptReceiveMessage is the oldest one accepted, no
\* accepted message is forgotten, and the branch of DLL_vReleaseDataFromReceivedMessage
\* that "should never be reached" never is, unless a dummy length was written over an
\* unread message; for buffers and messages of every length.
THEOREM LossOnlyByOverrun == Spec => []LostOnlyByOverrun
<1>1. BufferInv => LostOnlyByOverrun
  <2> SUFFICES ASSUME BufferInv, ~overrun PROVE FifoDelivery
    BY DEF BufferInv, QueueOK, LostOnlyByOverrun
  <2>1. overrun = FALSE /\ held \in BOOLEAN /\ Queue(ring, held, accepted, FALSE)
    BY DEF BufferInv, QueueOK
  <2>2. held => accepted # <<>> /\ ring.len = Head(accepted)
    <3>1. ASSUME held PROVE accepted # <<>> /\ ring.len = Head(accepted)
      <4>1. held = TRUE BY <2>1, <3>1
      <4>2. Queue(ring, TRUE, accepted, FALSE) BY <2>1, <4>1
      <4> QED BY <4>2, HeldFirst
    <3> QED BY <3>1
  <2>3. ring.count = 0 => accepted = <<>>
    <3> SUFFICES ASSUME ring.count = 0 PROVE accepted = <<>>
      OBVIOUS
    <3>1. Stored(Lens(ring, held), ring.read, End(ring), accepted, FALSE) BY <2>1 DEF Queue
    <3>2. ring.read = End(ring) BY <2>1, Places
    <3> QED BY <3>1, <3>2, StoredFirst
  <2> QED BY <2>2, <2>3 DEF FifoDelivery, HasMessage
<1> QED BY <1>1, BufferInvariant, PTL

\* A frame is acknowledged with OK only if all of it is stored and the bytes it will
\* occupy are free.
THEOREM AcknowledgeIsTrue == Spec => []AcknowledgedIsStored
<1>1. BufferInv => AcknowledgedIsStored
  <2> SUFFICES ASSUME BufferInv, taskState = "SEND_ACK", ~Transmitting, ack = "OK"
               PROVE  /\ ring.chars = ring.cell[ring.write] + Overhead
                      /\ ring.count + Even(ring.chars) <= BufferLength
    BY DEF AcknowledgedIsStored
  <2>1. Partial(ring) /\ ring.chars = ring.cell[ring.write] + 2
    BY DEF BufferInv, FrameOK, Answered, Whole
  <2>2. ring \in Ring /\ IsEven(ring.count)
    BY DEF BufferInv, QueueOK, Queue, Position
  <2> DEFINE k == ring.chars
             c == ring.count
             x == BufferLength - c
  <2>3. k \in Nat /\ c \in Nat /\ c + k <= BufferLength /\ BufferLength \in Nat
    BY <2>1, <2>2, Fields, Constants DEF Partial
  <2>4. x \in Nat /\ k <= x /\ c <= BufferLength
    <3> HIDE DEF k, c
    <3> QED BY <2>3
  <2>5. IsEven(x)
    BY <2>2, <2>3, <2>4, EvenSums
  <2>6. Even(k) <= x /\ Even(k) \in Nat
    <3> HIDE DEF k, x
    <3> QED BY <2>3, <2>4, <2>5, EvenSums, Sizes
  <2>7. c + Even(k) <= BufferLength
    <3> HIDE DEF k, c
    <3>1. Even(k) <= BufferLength - c BY <2>6
    <3> QED BY <2>3, <2>6, <3>1
  <2> QED BY <2>1, <2>7, Constants
<1> QED BY <1>1, BufferInvariant, PTL
=============================================================================
