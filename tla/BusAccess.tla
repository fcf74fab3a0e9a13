----------------------------- MODULE BusAccess ------------------------------
(***************************************************************************)
(* The bookkeeping of bal.c, as operators on a record: which messages are  *)
(* flagged for transmission, which one is being sent and how often it was  *)
(* tried.  A message is a pair of a subsystem and an index.                *)
(***************************************************************************)
EXTENDS FiniteSetsExt

CONSTANTS
    Subsystems,         \* indices into BAL_tBusObject
    MessagesPer,        \* entries of each subsystem's transmit table
    CollisionRetries, MissingAckRetries, NackRetries    \* BAL_ucMax...Retries

ASSUME BusAccessAssumption ==
    /\ Subsystems \subseteq Nat /\ Subsystems # {} /\ IsFiniteSet(Subsystems)
    /\ MessagesPer \in Nat \ {0}
    /\ {CollisionRetries, MissingAckRetries, NackRetries} \subseteq 0 .. 254

Messages == Subsystems \X (0 .. (MessagesPer - 1))
NoMessage == <<>>
Cancelled == 255                \* MAX_TRANSMISSION_RETRIES
MaxRetries == Max({CollisionRetries, MissingAckRetries, NackRetries})

Access ==
    [mask     : SUBSET Subsystems,      \* BAL_uiTransmitFlagSubsystemIndex
     bits     : SUBSET Messages,        \* pucMessageToTransmitBits
     cur      : Messages \cup {NoMessage},  \* BAL_ucSubsystemIndex, BAL_ucMessageIndex
     attempts : 0 .. MaxRetries \cup {Cancelled},   \* BAL_ucTransmissionAttempts
     max      : 0 .. MaxRetries]        \* BAL_ucMaxRetries

NewAccess == [mask |-> {}, bits |-> {}, cur |-> NoMessage, attempts |-> 0, max |-> 0]

IsSendingRetry(b) == b.attempts > 0

-----------------------------------------------------------------------------
\* BAL_vTransmitMessage, when silent mode and operating mode allow it.
Flag(b, m) == [b EXCEPT !.mask = @ \cup {m[1]}, !.bits = @ \cup {m}]

\* BAL_vCancelTransmitMessage.  The current message is sent once more if it is
\* being retried: its next failure is the last.
Cancel(b, m) ==
    [b EXCEPT !.bits = @ \ {m},
              !.attempts = IF @ # 0 /\ b.cur = m THEN Cancelled ELSE @]

\* Mutant of ClearMessages: the subsystems are cleared as well.
ClearMessagesAndMask(b) == [b EXCEPT !.bits = {}, !.mask = {}]

\* BAL_ClearMessagesToSend.
ClearMessages(b) == [b EXCEPT !.bits = {}]

\* The search of BAL_HandleTask: the lowest flagged subsystem, and the lowest
\* message that is flagged there, if there is one.
LowestFlagged(b) ==
    LET s == Min(b.mask)
        flagged == {m \in b.bits : m[1] = s}
    IN  IF flagged = {} THEN NoMessage ELSE <<s, Min({m[2] : m \in flagged})>>
\* Mutant of Search: a retry does not keep its message.
SearchAnew(b) == [b EXCEPT !.cur = LowestFlagged(b)]
Search(b) == IF IsSendingRetry(b) THEN b ELSE [b EXCEPT !.cur = LowestFlagged(b)]

\* Nothing was found: the subsystem is not asked again.
ClearSubsystem(b, s) == [b EXCEPT !.mask = @ \ {s}, !.cur = NoMessage]
\* Mutant of ResetTransmissionBit: all bits of the subsystem are reset.
ResetTransmissionBits(b, m) == [b EXCEPT !.bits = {n \in @ : n[1] # m[1]}]
\* The frame was taken by the data link layer.
ResetTransmissionBit(b, m) == [b EXCEPT !.bits = @ \ {m}]

-----------------------------------------------------------------------------
(* DLL_vMessageTransmitted for a message of the bus access layer.          *)

LimitOf(ack) ==
    CASE ack = "ABORTED" -> CollisionRetries
      [] ack = "NOT_RECEIVED" -> MissingAckRetries
      [] OTHER -> NackRetries

\* The limit is that of the worst error met since the message was first sent.
LimitAfter(b, ack) == Max({b.max, LimitOf(ack)})
\* Mutant of IsGivenUp: one attempt more.
IsGivenUpLate(b, ack) == ack # "OK" /\ b.attempts > LimitAfter(b, ack)
IsGivenUp(b, ack) == ack # "OK" /\ b.attempts >= LimitAfter(b, ack)

MessageTransmitted(b, ack) ==
    IF ack = "OK" \/ IsGivenUp(b, ack)
    THEN [b EXCEPT !.attempts = 0, !.max = 0]
    ELSE [b EXCEPT !.attempts = @ + 1, !.max = LimitAfter(b, ack)]
=============================================================================
