------------------------------ MODULE UartDll -------------------------------
(***************************************************************************)
(* The data link layer for a UART, dbusdll.c: the receive and the transmit *)
(* interrupt, the polled task DLL_HandleTask and the calls of the layers   *)
(* above.  A byte on the bus is what it means to the handler: a length,    *)
(* an address, data, a right or wrong checksum, an acknowledge.  Time is   *)
(* abstracted: every test of a timeout may go either way.                  *)
(*                                                                         *)
(* The task and the calls disable the receive interrupt while they run     *)
(* and are therefore steps of their own.                                   *)
(***************************************************************************)
EXTENDS RxRing, Sequences

CONSTANTS
    TxChars,        \* ucCharactersToWrite of the frames sent; bytes before the
                    \* last of the checksum, bounded by 2 where the code has >= 5
    WireMax         \* bytes that the UART takes before one is read back

\* The counters are bytes: of what is sent, and of what is stored, the end of the
\* buffer that was skipped included.  A buffer has 50 or 80 bytes of 256.
ASSUME UartDllAssumption ==
    /\ TxChars \in 2 .. (ByteMod - 1) /\ WireMax \in Nat \ {0}
    /\ 2 * BufferLength <= ByteMod

TaskState == {"IDLE", "GET_RECIPIENT", "RECEIVE", "TO_SEND", "SEND_ACK",
              "WAIT_FOR_ACK", "OFFLINE"}
StatusBit == {"BROADCAST", "OVERFLOW", "WRONG_CRC", "FOR_THIS_NODE", "READY",
              "TRANSMISSION", "DBUS3"}
Ack == {"NOT_RECEIVED", "BUSY", "WRONG", "OK"}

VARIABLES
    taskState,      \* DLL_ucTaskState
    status,         \* DLL_ucStatus
    counter,        \* DLL_tUnionCounter: ucRxDataLen or ucCharactersToWrite
    ack,            \* DLL_tUnionCounter.ucAcknowledge
    toCheck,        \* DLL_ucCharactersToCheck
    txOn,           \* transmit interrupt enabled
    wire,           \* own bytes on the bus that were not read back yet
    silent,         \* DLL_bSilent
    ring,           \* the input buffer
    held,           \* the layer above holds the message at ring.read
    \* History.
    outcome,        \* last result given to DLL_vMessageTransmitted, "none" since a start
    sent,           \* bytes of the frame being sent that were given to the UART
    accepted,       \* lengths of the messages accepted and not released yet
    overrun,        \* a dummy length was written over an unread message
    flushed         \* the branch of the release that should never be reached was

line == <<taskState, status, counter, ack, toCheck, txOn, wire, silent>>
own == <<outcome, sent>>
queue == <<ring, held, accepted, overrun, flushed>>
vars == <<line, own, queue>>

Init ==
    /\ taskState = "IDLE" /\ status = {} /\ counter = 0 /\ ack = "NOT_RECEIVED"
    /\ toCheck = 0 /\ txOn = FALSE /\ wire = 0 /\ silent = FALSE
    /\ ring = EmptyRing /\ held = FALSE
    /\ outcome = "none" /\ sent = 0
    /\ accepted = <<>> /\ overrun = FALSE /\ flushed = FALSE

-----------------------------------------------------------------------------
(* Shared steps.                                                           *)

Transmitting == "TRANSMISSION" \in status
\* The values that are not used in the idle state are forgotten.
Forget == counter' = 0 /\ ack' = "NOT_RECEIVED" /\ toCheck' = 0 /\ sent' = 0
EnterIdleState == taskState' = "IDLE" /\ status' = {} /\ Forget
\* DLL_vMessageTransmitted is called if b; the bus access layer only notes the result.
Confirm(b, result) == outcome' = IF b THEN result ELSE outcome

\* A byte that was read: one of our own, or one from another node.
ByteRead == wire' = wire \/ (wire > 0 /\ wire' = wire - 1)
\* It can only be the byte expected if it is our own.
Echoed(match) == IF match THEN wire > 0 /\ wire' = wire - 1 ELSE ByteRead

\* The interbyte timeout makes the byte the first of a new frame, except while
\* the acknowledge of a reception is awaited.
FrameStart(late) ==
    \/ taskState = "IDLE"
    \/ /\ late /\ taskState # "OFFLINE"
       /\ Transmitting \/ taskState # "SEND_ACK"

\* The message becomes readable.
Accept ==
    /\ ring' = Commit(ring)
    /\ accepted' = IF overrun THEN accepted ELSE Append(accepted, ring.cell[ring.write])
    /\ UNCHANGED <<held, overrun, flushed>>

-----------------------------------------------------------------------------
(* DLL_vHandleRxEvent, one action per place where a byte is handled.       *)

RxFirstByte(late) ==
    /\ FrameStart(late) /\ ByteRead
    /\ Confirm(taskState # "IDLE" /\ Transmitting, "ABORTED")
    /\ \/ \E len \in Lengths :
            /\ counter' = Plus(len, Overhead)
            /\ status' = IF counter' > BufferLength THEN {"OVERFLOW"} ELSE {}
            /\ taskState' = "GET_RECIPIENT"
       \/ taskState' = "RECEIVE" /\ status' = {"DBUS3"} /\ counter' = 0
    /\ ack' = "NOT_RECEIVED" /\ toCheck' = 0 /\ sent' = 0
    /\ UNCHANGED <<txOn, silent, queue>>

RxOtherRecipient(late) ==
    /\ ~FrameStart(late) /\ taskState = "GET_RECIPIENT" /\ ByteRead
    /\ taskState' = "RECEIVE" /\ status' = {} /\ counter' = Plus(counter, 1)
    /\ UNCHANGED <<ack, toCheck, txOn, silent, own, queue>>

RxRecipient(late, broadcast) ==
    /\ ~FrameStart(late) /\ taskState = "GET_RECIPIENT" /\ ByteRead
    /\ taskState' = "RECEIVE"
    /\ LET mine == status \cup {"FOR_THIS_NODE"} \cup IF broadcast THEN {"BROADCAST"} ELSE {}
           stored == StoreHeader(ring, counter)
       IN  IF "OVERFLOW" \in status
           THEN status' = mine /\ UNCHANGED <<ring, overrun>>
           ELSE /\ ring' = stored[1]
                /\ status' = IF stored[2] THEN mine ELSE mine \cup {"OVERFLOW"}
                /\ overrun' = (overrun \/ WrapOverwrites(ring, counter))
    /\ UNCHANGED <<counter, ack, toCheck, txOn, silent, own, held, accepted, flushed>>

ToStore == "FOR_THIS_NODE" \in status /\ "OVERFLOW" \notin status
\* A frame is complete: its receiver acknowledges it, a broadcast its sender.
AwaitAck(generate) ==
    IF generate
    THEN taskState' = "SEND_ACK" /\ ack' = "NOT_RECEIVED" /\ txOn' = TRUE
    ELSE taskState' = "WAIT_FOR_ACK" /\ UNCHANGED <<ack, txOn>>

RxData(late) ==
    /\ ~FrameStart(late) /\ taskState = "RECEIVE" /\ ByteRead
    /\ ToStore /\ Minus(counter, 1) > 1
    /\ counter' = Minus(counter, 1)
    /\ IF IsFull(ring)
       THEN status' = status \cup {"OVERFLOW"} /\ UNCHANGED ring
       ELSE ring' = StoreByte(ring) /\ UNCHANGED status
    /\ UNCHANGED <<taskState, ack, toCheck, txOn, silent, own, held, accepted, overrun, flushed>>

RxChecksum(late, right) ==
    /\ ~FrameStart(late) /\ taskState = "RECEIVE" /\ ByteRead
    /\ ToStore /\ Minus(counter, 1) \in {0, 1}
    /\ counter' = Minus(counter, 1)
    /\ IF counter' = 1 THEN UNCHANGED <<taskState, status, ack, txOn>>
       ELSE /\ status' = IF right THEN status ELSE status \cup {"WRONG_CRC"}
            /\ AwaitAck("BROADCAST" \notin status)
    /\ UNCHANGED <<toCheck, silent, own, queue>>

\* Messages for other nodes and messages that do not fit.
RxSkippedByte(late) ==
    /\ ~FrameStart(late) /\ taskState = "RECEIVE" /\ ByteRead
    /\ ~ToStore
    /\ counter' = IF "DBUS3" \in status THEN counter ELSE Minus(counter, 1)
    /\ \/ /\ counter' # 0 \/ "DBUS3" \in status
          /\ UNCHANGED <<taskState, status, ack, txOn>>
       \/ /\ counter' = 0 /\ "OVERFLOW" \in status
          /\ AwaitAck("BROADCAST" \notin status) /\ UNCHANGED status
       \/ /\ counter' = 0 /\ "OVERFLOW" \notin status /\ "DBUS3" \notin status
          /\ taskState' = "IDLE" /\ status' = {} /\ UNCHANGED <<ack, txOn>>
    /\ UNCHANGED <<toCheck, silent, own, queue>>

\* Mutant of RxEcho: off by one.
RxEchoEarly(late) ==
    /\ ~FrameStart(late) /\ taskState = "TO_SEND" /\ Echoed(TRUE)
    /\ IF toCheck > 1
       THEN toCheck' = toCheck - 1 /\ UNCHANGED <<taskState, ack, txOn>>
       ELSE UNCHANGED toCheck /\ AwaitAck("BROADCAST" \in status)
    /\ UNCHANGED <<status, counter, silent, own, queue>>

\* A byte of our own frame is read back.
RxEcho(late) ==
    /\ ~FrameStart(late) /\ taskState = "TO_SEND" /\ Echoed(TRUE)
    /\ IF toCheck # 0
       THEN toCheck' = toCheck - 1 /\ UNCHANGED <<taskState, ack, txOn>>
       ELSE UNCHANGED toCheck /\ AwaitAck("BROADCAST" \in status)
    /\ UNCHANGED <<status, counter, silent, own, queue>>

\* Mutant of RxCollision: the transmission is dropped without a confirmation.
RxCollisionUnconfirmed(late) ==
    /\ ~FrameStart(late) /\ taskState = "TO_SEND" /\ ByteRead
    /\ txOn' = FALSE
    /\ EnterIdleState
    /\ UNCHANGED <<silent, outcome, queue>>

\* Another byte is read: a collision.
RxCollision(late) ==
    /\ ~FrameStart(late) /\ taskState = "TO_SEND" /\ ByteRead
    /\ txOn' = FALSE
    /\ Confirm(TRUE, "ABORTED") /\ EnterIdleState
    /\ UNCHANGED <<silent, queue>>

\* The acknowledge we generate is read back, or something else is.
RxOwnAck(late, match) ==
    /\ ~FrameStart(late) /\ taskState = "SEND_ACK" /\ Echoed(match)
    /\ match => ack # "NOT_RECEIVED"
    /\ Confirm("BROADCAST" \in status, IF match THEN ack ELSE "NOT_RECEIVED")
    /\ IF match /\ status \cap {"BROADCAST", "WRONG_CRC", "OVERFLOW"} = {}
       THEN Accept
       ELSE UNCHANGED queue
    /\ EnterIdleState
    /\ UNCHANGED <<txOn, silent>>

\* The acknowledge of another node: for our frame, or for a broadcast.
RxAck(late, a, rightNode, powerFail) ==
    /\ ~FrameStart(late) /\ taskState = "WAIT_FOR_ACK" /\ ByteRead
    /\ Confirm(Transmitting, IF a = "OK" /\ ~rightNode THEN "NOT_RECEIVED" ELSE a)
    /\ IF a = "OK" /\ ~Transmitting /\ ToStore /\ "WRONG_CRC" \notin status
       THEN IF powerFail
            THEN ring' = [ring EXCEPT !.chars = 0]
                 /\ UNCHANGED <<held, accepted, overrun, flushed>>
            ELSE Accept
       ELSE UNCHANGED queue
    /\ EnterIdleState
    /\ UNCHANGED <<txOn, silent>>

\* A byte with a framing or parity error is discarded.
RxError ==
    /\ wire > 0 /\ wire' = wire - 1
    /\ UNCHANGED <<taskState, status, counter, ack, toCheck, txOn, silent, own, queue>>

\* While offline bytes are read and ignored.
RxOffline ==
    /\ taskState = "OFFLINE" /\ wire > 0 /\ wire' = wire - 1
    /\ UNCHANGED <<taskState, status, counter, ack, toCheck, txOn, silent, own, queue>>

RxEvent(late) ==
    \/ RxFirstByte(late) \/ RxOtherRecipient(late)
    \/ \E b \in BOOLEAN : RxRecipient(late, b) \/ RxChecksum(late, b) \/ RxOwnAck(late, b)
    \/ RxData(late) \/ RxSkippedByte(late)
    \/ RxEcho(late) \/ RxCollision(late)
    \/ \E a \in Ack, rightNode, powerFail \in BOOLEAN : RxAck(late, a, rightNode, powerFail)

-----------------------------------------------------------------------------
(* DLL_vHandleTxEvent.                                                     *)

Put == wire' = wire + 1 /\ sent' = sent + 1

\* Mutant of TxByte: the transmit interrupt stays enabled after the last byte.
TxByteForEver ==
    /\ txOn /\ wire < WireMax /\ taskState = "TO_SEND"
    /\ Put
    /\ counter' = IF counter > 0 THEN counter - 1 ELSE 0
    /\ UNCHANGED <<taskState, status, ack, toCheck, txOn, silent, outcome, queue>>

TxByte ==
    /\ txOn /\ wire < WireMax /\ taskState = "TO_SEND"
    /\ Put
    /\ counter' = IF counter > 0 THEN counter - 1 ELSE 0
    /\ txOn' = (counter > 0)
    /\ UNCHANGED <<taskState, status, ack, toCheck, silent, outcome, queue>>

\* Too late, the acknowledge is evaluated but not sent.
TxAck(late) ==
    /\ txOn /\ wire < WireMax /\ taskState = "SEND_ACK"
    /\ ack' = IF "OVERFLOW" \in status THEN "BUSY"
              ELSE IF "WRONG_CRC" \in status THEN "WRONG" ELSE "OK"
    /\ IF ~late /\ (silent => ack' = "OK")
       THEN wire' = wire + 1 ELSE UNCHANGED wire
    /\ txOn' = FALSE
    /\ UNCHANGED <<taskState, status, counter, toCheck, silent, own, queue>>

TxIdle ==
    /\ txOn /\ taskState \notin {"TO_SEND", "SEND_ACK"}
    /\ txOn' = FALSE
    /\ UNCHANGED <<taskState, status, counter, ack, toCheck, wire, silent, own, queue>>

TxEvent == TxByte \/ TxIdle \/ \E late \in BOOLEAN : TxAck(late)

-----------------------------------------------------------------------------
(* DLL_HandleTask.                                                         *)

BusIdleSeen ==
    /\ taskState = "IDLE" /\ status' = status \cup {"READY"}
    /\ UNCHANGED <<taskState, counter, ack, toCheck, txOn, wire, silent, own, queue>>

ReceiveTimeout ==
    /\ taskState \in {"GET_RECIPIENT", "RECEIVE"}
    /\ EnterIdleState
    /\ UNCHANGED <<txOn, wire, silent, outcome, queue>>

\* Mutant of AnswerTimeout: no timeout while the acknowledge is awaited.
AnswerTimeoutSending ==
    /\ taskState \in {"TO_SEND", "SEND_ACK"}
    /\ txOn' = (txOn /\ taskState # "TO_SEND" /\ ~Transmitting)
    /\ Confirm(taskState = "TO_SEND" \/ Transmitting, "NOT_RECEIVED")
    /\ EnterIdleState
    /\ UNCHANGED <<wire, silent, queue>>

\* Nothing came back in time: of our frame, of an acknowledge.
AnswerTimeout ==
    /\ taskState \in {"TO_SEND", "SEND_ACK", "WAIT_FOR_ACK"}
    /\ txOn' = (txOn /\ taskState # "TO_SEND" /\ ~Transmitting)
    /\ Confirm(taskState = "TO_SEND" \/ Transmitting, "NOT_RECEIVED")
    /\ EnterIdleState
    /\ UNCHANGED <<wire, silent, queue>>

Timeout == ReceiveTimeout \/ AnswerTimeout

-----------------------------------------------------------------------------
(* The calls of the layers above.                                          *)

\* DLL_bIsBusReadyForTransmission: the bus was idle for longer than a byte takes,
\* so that all own bytes were read back.
MayTransmit == taskState \in {"IDLE", "GET_RECIPIENT", "RECEIVE"} /\ wire = 0

\* DLL_bTransmitMessage returns true.
Transmit(broadcast) ==
    /\ MayTransmit
    /\ taskState' = "TO_SEND"
    /\ status' = {"TRANSMISSION"} \cup IF broadcast THEN {"BROADCAST"} ELSE {}
    /\ counter' = TxChars /\ toCheck' = TxChars /\ txOn' = TRUE
    /\ ack' = "NOT_RECEIVED" /\ outcome' = "none" /\ sent' = 0
    /\ UNCHANGED <<wire, silent, queue>>

\* It returns false: a byte is just being received.
TransmitRefused ==
    \/ /\ taskState = "IDLE" /\ "READY" \in status
       /\ status' = status \ {"READY"}
       /\ UNCHANGED <<taskState, counter, toCheck, ack, txOn, wire, silent, own, queue>>
    \/ /\ MayTransmit /\ EnterIdleState
       /\ UNCHANGED <<txOn, wire, silent, outcome, queue>>

ReceiveMessage ==
    /\ ~held /\ HasMessage(ring)
    /\ ring' = Receive(ring) /\ held' = HasMessage(ring')
    /\ UNCHANGED <<line, own, accepted, overrun, flushed>>

ReleaseMessage ==
    /\ held
    /\ ring' = Release(ring) /\ held' = FALSE
    /\ accepted' = IF overrun THEN accepted ELSE SubSeq(accepted, 2, Len(accepted))
    /\ flushed' = (flushed \/ Flushes(ring))
    /\ UNCHANGED <<line, own, overrun>>

\* DLL_vGoOffline, of a service message or of the application.
GoOffline ==
    /\ taskState' = "OFFLINE" /\ txOn' = FALSE /\ Forget
    /\ UNCHANGED <<status, wire, silent, outcome, queue>>

GoOnline ==
    /\ taskState = "OFFLINE" /\ EnterIdleState /\ txOn' = TRUE
    /\ UNCHANGED <<wire, silent, outcome, queue>>

SetSilentMode ==
    /\ silent' = ~silent
    /\ UNCHANGED <<taskState, status, counter, ack, toCheck, txOn, wire, own, queue>>

Call ==
    \/ \E broadcast \in BOOLEAN : Transmit(broadcast)
    \/ TransmitRefused \/ ReceiveMessage \/ ReleaseMessage
    \/ GoOffline \/ GoOnline \/ SetSilentMode

Next ==
    \/ \E late \in BOOLEAN : RxEvent(late)
    \/ RxError \/ RxOffline \/ TxEvent \/ BusIdleSeen \/ Timeout \/ Call

Spec == Init /\ [][Next]_vars
FairSpec == Spec /\ WF_vars(Timeout)

-----------------------------------------------------------------------------
(* Properties.                                                             *)

TypeOK ==
    /\ taskState \in TaskState /\ status \subseteq StatusBit
    /\ counter \in Byte /\ ack \in Ack /\ toCheck \in 0 .. TxChars
    /\ txOn \in BOOLEAN /\ wire \in 0 .. WireMax /\ silent \in BOOLEAN
    /\ ring \in Ring /\ held \in BOOLEAN
    /\ outcome \in {"none", "ABORTED"} \cup Ack /\ sent \in 0 .. (TxChars + 1)
    /\ accepted \in Seq(Lengths) /\ overrun \in BOOLEAN /\ flushed \in BOOLEAN

\* The message handed out by DLL_ptReceiveMessage is the oldest accepted one, and
\* an empty buffer means that nothing accepted is left (comment dbusdll.c:96).
FifoDelivery ==
    /\ held => accepted # <<>> /\ ring.len = Head(accepted)
    /\ ~HasMessage(ring) => accepted = <<>>

\* Messages are lost in one way only: the dummy length that ends the buffer is
\* written over an unread message.  Even then the branch of
\* DLL_vReleaseDataFromReceivedMessage that "should never be reached" is not.
LostOnlyByOverrun == ~flushed /\ (overrun \/ FifoDelivery)

\* A reception is acknowledged with OK only if the whole message is stored and the
\* bytes it will occupy are free.
AcknowledgedIsStored ==
    taskState = "SEND_ACK" /\ ~Transmitting /\ ack = "OK" =>
        /\ ring.chars = ring.cell[ring.write] + Overhead
        /\ ring.count + Even(ring.chars) <= BufferLength

\* A frame is reported as received only if all of it was put on the bus.
OkMeansSent == [][outcome' = "OK" /\ outcome # "OK" => sent = TxChars + 1]_vars

\* Every frame taken is confirmed exactly once.
Upper == INSTANCE LinkLayer WITH
    link <- IF taskState = "OFFLINE" THEN "down" ELSE IF Transmitting THEN "busy" ELSE "free",
    result <- outcome
ImplementsLinkLayer == Upper!Spec

\* No transmission stays unconfirmed for ever.
TransmissionEnds == Upper!Ends
=============================================================================
