---------------------------- MODULE DbalInstance ----------------------------
(***************************************************************************)
(* One DBal communication instance (struct DBAL_Instance) of the original  *)
(* driver and the functions that change it, each as an operator from the   *)
(* instance before the call to the instance after it.  The instance is a   *)
(* cross connection (ECU to ECU) with one partner, so that both ends of a  *)
(* link run this code.                                                     *)
(*                                                                         *)
(* Byte layout is abstracted: a connection message is its type, a frame of *)
(* the request/response channel is an event or its acknowledge, and the    *)
(* queue of messages to repeat has one slot (DBAL_MAX_MSGS2REPEAT = 1).    *)
(***************************************************************************)
EXTENDS Naturals, Sequences

CONSTANTS
    RetryMax,       \* DBAL_DBUS_RETRY_MAX
    PingMaxRepeat,  \* DBAL_PING_MAX_REPEAT
    SeqMod,         \* number of sequence ids, 256 in the code (uint8_t)
    FramesMax,      \* DBal frames that fit in TransmitBuffer; bounded by 2
    MaxEvents,      \* bound: events the application tries to send
    SameKind        \* TRUE: all events carry the same service and command id

ASSUME InstanceAssumption ==
    /\ RetryMax \in Nat \ {0}
    /\ PingMaxRepeat \in Nat
    /\ SeqMod \in Nat \ {0, 1}
    /\ FramesMax \in 1 .. 2
    /\ MaxEvents \in Nat
    /\ SameKind \in BOOLEAN

ConState == {"DISCONNECTED", "CONNECTING", "CONNECTED", "DISCONNECTING"}
CommState == {"NOT_READY", "READY"}
ConMsg == {"ENABLE_REQUEST", "ENABLE_RESPONSE", "DISABLE_REQUEST",
           "DISABLE_RESPONSE", "PING_REQUEST", "PING_RESPONSE"}
\* ConMsgTimer: off, or running with the time it was last loaded with.
ConTimer == {"off", "response", "recovery"}
EventId == 1 .. MaxEvents
SeqId == 0 .. (SeqMod - 1)
RetryCount == 0 .. RetryMax
PingCount == 0 .. (PingMaxRepeat + 1)
NoEvent == 0
Frames == {s \in Seq(EventId) : Len(s) <= FramesMax}

Instance ==
    [client     : BOOLEAN,                   \* OwnPartType
     pings      : BOOLEAN,                   \* PingTimeMs >= DBAL_MIN_PING_TIME_MS
     conState   : ConState,                  \* IoCurrentConnectionState
     commState  : CommState,                 \* IoCurrentCommState
     disableReq : BOOLEAN,                   \* DisableReqReceived
     conBuf     : ConMsg \cup {"none"},      \* ConnectTransmitBuffer[TYPE]
     conInst    : BOOLEAN,                   \* DBALCR_ConInst is this instance
     conFlag    : BOOLEAN,                   \* Bal transmit flag, connection index
     conRepeat  : RetryCount,                \* ConRepeatCnt
     conTimer   : ConTimer,                  \* ConMsgTimer
     retryCon   : RetryCount,                \* SendRetryCounter, connection index
     retryRr    : RetryCount,                \* SendRetryCounter, response index
     pingOn     : BOOLEAN,                   \* PingReqTimer enabled
     pingRep    : PingCount,                 \* PingRepetition
     breakOn    : BOOLEAN,                   \* BreakProcessTimer enabled
     seqSend    : SeqId,                     \* SeqId2Send
     seqRecv    : SeqId,                     \* LastSeqIdReceived
     tx         : Frames,                    \* DBal frames in TransmitBuffer
     txSeq      : SeqId,                     \* TransmitBuffer[DBAL_MSG_SEQID]
     rrInst     : BOOLEAN,                   \* DBALCR_ReqRespInst is this instance
     rrFlag     : BOOLEAN,                   \* Bal transmit flag, response index
     rep        : EventId \cup {NoEvent},    \* Msgs2Repeat: occupied by this event
     repCnt     : RetryCount,                \* MsgRetryCounter of the slot
     msgTimer   : BOOLEAN,                   \* MsgTimer enabled
     told       : CommState \cup {"asked"}]  \* last callback; asked: none since enable

\* DBALIN_init, DBALCR_init
NewInstance(client, pings) ==
    [client |-> client, pings |-> pings,
     conState |-> "DISCONNECTED", commState |-> "NOT_READY", disableReq |-> FALSE,
     conBuf |-> "none", conInst |-> FALSE, conFlag |-> FALSE, conRepeat |-> 0,
     conTimer |-> "off", retryCon |-> 0, retryRr |-> 0,
     pingOn |-> FALSE, pingRep |-> 0, breakOn |-> FALSE,
     seqSend |-> SeqMod - 1, seqRecv |-> SeqMod - 1,
     tx |-> <<>>, txSeq |-> 0, rrInst |-> FALSE, rrFlag |-> FALSE,
     rep |-> NoEvent, repCnt |-> 0, msgTimer |-> FALSE, told |-> "NOT_READY"]

IsOpen(i) == i.commState = "READY" /\ i.conState = "CONNECTED"
DisablePending(i) == i.disableReq \/ i.conState = "DISCONNECTING"
Kind(e) == IF SameKind THEN 1 ELSE e

-----------------------------------------------------------------------------
(* Connection messages and timers.                                         *)

\* DBAL_sendConnectionMessage; with a single cross instance the pointer
\* DBALCR_ConInst is either free or already this instance.
SendCon(i, m) == [i EXCEPT !.conBuf = m, !.conInst = TRUE, !.conFlag = TRUE]

\* DBALCR_triggerPingReqTimerWithStdTime
TriggerPing(i) ==
    IF i.client /\ i.pings /\ IsOpen(i)
    THEN [i EXCEPT !.pingOn = TRUE, !.pingRep = 0]
    ELSE i

\* DBAL_clearRetryCounters
ClearRetries(i) == [i EXCEPT !.retryCon = 0, !.retryRr = 0]

\* DBAL_clearMsgs2Repeat
ClearMsgs(i) == [i EXCEPT !.rep = NoEvent, !.repCnt = 0]

\* DBAL_clearBothIoTxBuffers (a cross instance has no TxRepeat buffer)
ClearTx(i) == [i EXCEPT !.tx = <<>>, !.txSeq = 0]

\* Mutant of ToConnected: LastSeqIdReceived is not reset.
ToConnectedOldSequence(i) ==
    TriggerPing([i EXCEPT !.conState = "CONNECTED", !.commState = "READY",
                          !.seqSend = SeqMod - 1,
                          !.conTimer = "off", !.conRepeat = 0, !.told = "READY"])

\* DBAL_actionToConnected
ToConnected(i) ==
    TriggerPing([i EXCEPT !.conState = "CONNECTED", !.commState = "READY",
                          !.seqSend = SeqMod - 1, !.seqRecv = SeqMod - 1,
                          !.conTimer = "off", !.conRepeat = 0, !.told = "READY"])

\* Mutant of ToDisconnected: the ping timer is not stopped.
ToDisconnectedPinging(i) ==
    [i EXCEPT !.conState = "DISCONNECTED", !.commState = "NOT_READY",
              !.disableReq = FALSE, !.conTimer = "off", !.conRepeat = 0,
              !.told = "NOT_READY"]

\* DBAL_actionToDisconnected
ToDisconnected(i) ==
    [i EXCEPT !.conState = "DISCONNECTED", !.commState = "NOT_READY",
              !.disableReq = FALSE, !.conTimer = "off", !.pingOn = FALSE,
              !.pingRep = 0, !.conRepeat = 0, !.told = "NOT_READY"]

\* Mutant of InDisconnected: the request is answered, the state kept.
InDisconnectedAnswersOnly(i, event) ==
    CASE event = "ENABLE" -> SendCon([i EXCEPT !.conState = "CONNECTING"], "ENABLE_REQUEST")
      [] event = "ENABLE_REQUEST" -> SendCon(i, "ENABLE_RESPONSE")
      [] OTHER -> i

\* DBAL_connectionSm, one operator for each state, without the events of
\* temporary connections, which only the main instance receives.  Events a state
\* does not name are ignored.
InDisconnected(i, event) ==
    CASE event = "ENABLE" -> SendCon([i EXCEPT !.conState = "CONNECTING"], "ENABLE_REQUEST")
      [] event = "ENABLE_REQUEST" ->
             [ToConnected(SendCon(i, "ENABLE_RESPONSE")) EXCEPT !.breakOn = FALSE]
      [] OTHER -> i

InConnecting(i, event) ==
    CASE event = "ENABLE_REQUEST" -> ToConnected(SendCon(i, "ENABLE_RESPONSE"))
      [] event = "ACCEPT" -> ToConnected(i)
      [] event = "REJECT" -> [i EXCEPT !.conState = "DISCONNECTED"]
      [] OTHER -> i

InConnected(i, event) ==
    CASE event = "ENABLE_REQUEST" ->
             ToConnected(ToDisconnected(SendCon(i, "ENABLE_RESPONSE")))
      [] event = "DISABLE" -> SendCon([i EXCEPT !.conState = "DISCONNECTING"], "DISABLE_REQUEST")
      [] event = "DISABLE_SILENT" -> ToDisconnected(i)
      [] event = "DISABLE_REQUEST" -> ToDisconnected(SendCon(i, "DISABLE_RESPONSE"))
      [] OTHER -> i

\* Mutant of InDisconnecting: the response is not accepted.
InDisconnectingDeaf(i, event) == i

InDisconnecting(i, event) ==
    IF event \in {"ACCEPT", "REJECT"} THEN ToDisconnected(i) ELSE i

ConnectionSm(i, event) ==
    CASE i.conState = "DISCONNECTED" -> InDisconnected(i, event)
      [] i.conState = "CONNECTING" -> InConnecting(i, event)
      [] i.conState = "CONNECTED" -> InConnected(i, event)
      [] i.conState = "DISCONNECTING" -> InDisconnecting(i, event)

\* DBAL_organizeMsgs2Repeat with one slot: stops the timer when it is free.
Organize(i) == IF i.rep = NoEvent THEN [i EXCEPT !.repCnt = 0, !.msgTimer = FALSE] ELSE i

\* DBAL_handleConMsg: a connection message of the partner was received.
HandleConMsg(i, m) ==
    CASE m = "ENABLE_REQUEST" -> ConnectionSm(ClearRetries(ClearTx(i)), "ENABLE_REQUEST")
      [] m = "ENABLE_RESPONSE" -> ConnectionSm(ClearRetries(ClearTx(i)), "ACCEPT")
      [] m = "DISABLE_REQUEST" ->
             IF Organize(i).rep = NoEvent
             THEN ConnectionSm(ClearRetries(ClearMsgs(Organize(i))), "DISABLE_REQUEST")
             ELSE [Organize(i) EXCEPT !.disableReq = TRUE]
      [] m = "DISABLE_RESPONSE" -> ConnectionSm(ClearRetries(ClearMsgs(i)), "ACCEPT")
      [] m = "PING_REQUEST" -> IF IsOpen(i) THEN SendCon(i, "PING_RESPONSE") ELSE i
      [] m = "PING_RESPONSE" -> TriggerPing(i)
      [] OTHER -> i  \* DBAL_isReceivedConMsgCorrupt: dropped

-----------------------------------------------------------------------------
(* Failure handling and confirmation of transmissions.                     *)

\* DBAL_handleConMsgTxFail; the queue of other cross instances is empty, so
\* DBALCR_triggerNextConnectMsgInstanceTx leaves the pointer NULL.
ConTxFail(i) ==
    ConnectionSm(ClearRetries([i EXCEPT !.conInst = FALSE]),
                 IF i.conBuf \in {"PING_REQUEST", "PING_RESPONSE"}
                 THEN "DISABLE_SILENT" ELSE "REJECT")

\* DBAL_handleReqRespMsgTxFail
RrTxFail(i) ==
    ConnectionSm(ClearRetries(ClearMsgs([i EXCEPT !.rrInst = FALSE])), "DISABLE_SILENT")

\* Mutant of ConNonDeliverable: the recovery timer is not started.
ConNonDeliverableNoTimer(i, status) ==
    CASE i.retryCon >= RetryMax -> ConTxFail(i)
      [] i.retryCon < RetryMax /\ status = "noack" ->
             IF i.conBuf = "ENABLE_REQUEST" THEN [i EXCEPT !.retryCon = @ + 1]
             ELSE ConTxFail([i EXCEPT !.retryCon = @ + 1])
      [] OTHER -> [i EXCEPT !.retryCon = @ + 1, !.conFlag = TRUE]

\* Mutant of ConNonDeliverable: a message that was not acknowledged is not retried.
ConNonDeliverableOnce(i, status) ==
    IF i.retryCon < RetryMax /\ status # "noack"
    THEN [i EXCEPT !.retryCon = @ + 1, !.conFlag = TRUE] ELSE ConTxFail(i)

\* DBAL_nonDeliverableMessage for the connection index.  A missing ack on an
\* enable request also sends a wakeup break, see SendsBreak.
ConNonDeliverable(i, status) ==
    IF i.retryCon < RetryMax
    THEN LET j == [i EXCEPT !.retryCon = @ + 1]
         IN  CASE status = "noack" /\ i.conBuf = "ENABLE_REQUEST" ->
                      [j EXCEPT !.conTimer = "recovery"]
               [] status = "noack" /\ i.conBuf # "ENABLE_REQUEST" -> ConTxFail(j)
               [] OTHER -> [j EXCEPT !.conFlag = TRUE]
    ELSE ConTxFail(i)

SendsBreak(i, status) ==
    i.retryCon < RetryMax /\ status = "noack" /\ i.conBuf = "ENABLE_REQUEST"

\* DBAL_nonDeliverableMessage for the response index.
RrNonDeliverable(i, status) ==
    IF i.retryRr < RetryMax
    THEN LET j == [i EXCEPT !.retryRr = @ + 1]
         IN  IF status = "noack" THEN RrTxFail(j) ELSE [j EXCEPT !.rrFlag = TRUE]
    ELSE RrTxFail(i)

\* Mutant of PostRepeatTrigger: one repetition too many.
PostRepeatTriggerOnceMore(i) ==
    CASE i.conBuf \notin {"ENABLE_REQUEST", "DISABLE_REQUEST"} -> i
      [] i.conBuf \in {"ENABLE_REQUEST", "DISABLE_REQUEST"} /\ i.conRepeat <= RetryMax ->
             [i EXCEPT !.conTimer = "response", !.conRepeat = @ + 1]
      [] OTHER -> ConTxFail(i)

\* Mutant of PostRepeatTrigger: repetitions are not counted.
PostRepeatTriggerUncounted(i) ==
    IF i.conBuf \in {"ENABLE_REQUEST", "DISABLE_REQUEST"}
    THEN [i EXCEPT !.conTimer = "response"] ELSE i

\* DBAL_conMsgTxPostRepeatTrigger
PostRepeatTrigger(i) ==
    CASE i.conBuf \notin {"ENABLE_REQUEST", "DISABLE_REQUEST"} -> i
      [] i.conBuf \in {"ENABLE_REQUEST", "DISABLE_REQUEST"} /\ i.conRepeat < RetryMax ->
             [i EXCEPT !.conTimer = "response", !.conRepeat = @ + 1]
      [] OTHER -> ConTxFail(i)

\* DbalTransmitCrPost_appLayerConnection, DBALCR_triggerNextConnectMsgInstanceTx
ConPost(i) ==
    IF i.conInst /\ ~i.conFlag
    THEN [PostRepeatTrigger(i) EXCEPT !.conInst = FALSE]
    ELSE i

\* DbalTransmitCrPost_appLayerResponse with the instance pointer set
RrPost(i) ==
    IF i.rrInst /\ ~i.rrFlag
    THEN [TriggerPing(ClearTx(i)) EXCEPT !.rrInst = FALSE]
    ELSE i

-----------------------------------------------------------------------------
(* Request/response channel.                                               *)

\* DBAL_prepareHeaderAndSeqId as DBAL_ioDbusHandler_send calls it: a new
\* sequence id unless the frame is a repetition or joins one still queued.
PrepareHeader(i, repetition) ==
    IF i.tx = <<>> \/ ~i.rrFlag
    THEN LET s == IF repetition = 0 THEN (i.seqSend + 1) % SeqMod ELSE i.seqSend
         IN  [i EXCEPT !.seqSend = s, !.txSeq = s]
    ELSE i

\* DBAL_appendDBalFrame2ReqRespFrame and the rest of DBAL_ioDbusHandler_send, with
\* the full number of attempts if the frame is not in use by another instance.
QueueFrame(i, e) ==
    [i EXCEPT !.tx = Append(@, e), !.rrInst = TRUE, !.rrFlag = TRUE, !.retryRr = 0]

\* Mutant of HasRoom: the length of the transmit buffer is not checked.
HasRoomAlways(i) == TRUE

HasRoom(i) == Len(i.tx) < FramesMax

\* DBAL_ioDbusHandler_send accepts an event for (re)transmission
SendAccepted(i, e, repetition) ==
    /\ i.commState = "READY"
    /\ HasRoom(i)
    /\ IF i.rep = e THEN repetition > 0 ELSE i.rep = NoEvent

\* DBAL_ioDbusHandler_send of an event: saved for repetition on first sending
SendEvent(i, e, repetition) ==
    IF i.commState = "NOT_READY" THEN i
    ELSE LET j == PrepareHeader(i, repetition)
         IN  IF ~SendAccepted(i, e, repetition) THEN j
             ELSE IF i.rep = e THEN QueueFrame(j, e)
             ELSE QueueFrame([j EXCEPT !.rep = e, !.repCnt = 0, !.msgTimer = TRUE], e)

\* DBAL_ioDbusHandler_send of an event acknowledge
SendAck(i, e) ==
    IF i.commState = "NOT_READY" THEN i
    ELSE LET j == PrepareHeader(i, 0) IN IF HasRoom(i) THEN QueueFrame(j, e) ELSE j

\* Mutant of MsgTimerAction: MsgTimer is not restarted.
MsgTimerActionOneShot(i) ==
    LET GiveUp(j) == ConnectionSm(ClearRetries(ClearMsgs(j)), "DISABLE_SILENT")
        again == [i EXCEPT !.repCnt = @ + 1]
    IN  Organize(
          CASE i.rep = NoEvent -> i
            [] i.rep # NoEvent /\ i.repCnt >= RetryMax -> GiveUp(i)
            [] OTHER -> LET s == SendEvent(again, i.rep, again.repCnt)
                        IN  IF SendAccepted(again, i.rep, again.repCnt) THEN s ELSE GiveUp(s))

\* DBAL_msgTimerAction: repeat the unanswered event or give the connection up
MsgTimerAction(i) ==
    LET GiveUp(j) == ConnectionSm(ClearRetries(ClearMsgs(j)), "DISABLE_SILENT")
        sent == [i EXCEPT !.repCnt = @ + 1, !.msgTimer = TRUE]
    IN  Organize(
          CASE i.rep = NoEvent -> i
            [] i.rep # NoEvent /\ i.repCnt >= RetryMax -> GiveUp(i)
            [] OTHER -> LET s == SendEvent(sent, i.rep, sent.repCnt)
                        IN  IF SendAccepted(sent, i.rep, sent.repCnt) THEN s ELSE GiveUp(s))

\* DBAL_isReceivedReqRespMsg2BeIgnored
IsIgnored(i, s) ==
    \/ i.commState = "NOT_READY"
    \/ (s + SeqMod - i.seqRecv) % SeqMod = 0
    \/ (s + SeqMod - i.seqRecv) % SeqMod > (SeqMod \div 2) - 1

\* DbalReceive_appLayerResponse at the server: acknowledges free the slot
\* whose service and command id they carry (DBAL_look4AckMsgReception); a
\* disable request that waited for them is then served.
ReceiveAcks(i, s, acks) ==
    LET hit == \E k \in 1 .. Len(acks) : i.rep # NoEvent /\ Kind(acks[k]) = Kind(i.rep)
        o   == Organize([i EXCEPT !.seqRecv = s, !.rep = IF hit THEN NoEvent ELSE @])
    IN  IF o.rep = NoEvent /\ o.disableReq
        THEN ConnectionSm(ClearRetries(ClearMsgs(o)), "DISABLE_REQUEST")
        ELSE o

\* DBAL_isEventAlreadyAcknowledged: DBAL_Events2Ack holds as many kinds as the
\* repeat queue has slots, one, so only the first event's kind is recognised.
NeedsAck(evts, k) == k = 1 \/ Kind(evts[k]) # Kind(evts[1])

\* One round of DBAL_look4MsgReception's loop: every event restarts the ping
\* interval, and is acknowledged.
TakeEvent(i, evts, k) ==
    CASE k > Len(evts) -> i
      [] k <= Len(evts) /\ NeedsAck(evts, k) -> SendAck(TriggerPing(i), evts[k])
      [] OTHER -> TriggerPing(i)

\* DbalReceive_appLayerResponse at the client; a frame carries at most two events.
ReceiveEvents(i, s, evts) ==
    TakeEvent(TakeEvent([i EXCEPT !.seqRecv = s], evts, 1), evts, 2)
=============================================================================
