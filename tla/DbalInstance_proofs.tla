------------------------ MODULE DbalInstance_proofs ------------------------
(***************************************************************************)
(* Each function of DbalInstance keeps an instance well formed: its fields *)
(* hold values of their kinds, what the application was told agrees with   *)
(* the connection state machine, an occupied slot of the repeat queue has  *)
(* its timer running, and the ping timer only runs on an open connection.  *)
(***************************************************************************)
EXTENDS DbalInstance, TLAPS

Coherent(i) ==
    /\ i.commState = "READY" <=> i.conState \in {"CONNECTED", "DISCONNECTING"}
    /\ i.told = "READY" <=> i.commState = "READY"

Timed(i) == i.rep # NoEvent => i.msgTimer = TRUE

Pinging(i) == i.pingOn = TRUE => i.client = TRUE /\ i.commState = "READY"

Sound(i) == Coherent(i) /\ Timed(i) /\ Pinging(i)

Good(i) == i \in Instance /\ Sound(i)

-----------------------------------------------------------------------------
(* The kinds of values.                                                    *)

\* Values the functions assign are of the kinds of their fields.
LEMMA Values ==
    /\ 0 \in RetryCount /\ 0 \in PingCount /\ 0 \in SeqId /\ SeqMod - 1 \in SeqId
    /\ <<>> \in Frames
    /\ NoEvent \in EventId \cup {NoEvent}
BY InstanceAssumption DEF RetryCount, PingCount, SeqId, Frames, NoEvent

\* The same of enumerations.
LEMMA Enumerated ==
    /\ "off" \in ConTimer /\ "response" \in ConTimer /\ "recovery" \in ConTimer
    /\ "NOT_READY" \in CommState /\ "READY" \in CommState
    /\ \A s \in CommState \cup {"asked"} : s \in CommState \cup {"asked"}
    /\ "NOT_READY" \in CommState \cup {"asked"} /\ "READY" \in CommState \cup {"asked"}
    /\ "asked" \in CommState \cup {"asked"}
    /\ "DISCONNECTED" \in ConState /\ "CONNECTING" \in ConState
    /\ "CONNECTED" \in ConState /\ "DISCONNECTING" \in ConState
    /\ \A m \in ConMsg : m \in ConMsg \cup {"none"}
    /\ "none" \in ConMsg \cup {"none"}
    /\ "ENABLE_REQUEST" \in ConMsg /\ "ENABLE_RESPONSE" \in ConMsg
    /\ "DISABLE_REQUEST" \in ConMsg /\ "DISABLE_RESPONSE" \in ConMsg
    /\ "PING_REQUEST" \in ConMsg /\ "PING_RESPONSE" \in ConMsg
BY DEF ConTimer, CommState, ConState, ConMsg

\* A counter below its limit may be incremented.
LEMMA CountUp ==
    /\ \A n \in RetryCount : n < RetryMax => n + 1 \in RetryCount
    /\ \A n \in PingCount : n <= PingMaxRepeat => n + 1 \in PingCount
BY InstanceAssumption DEF RetryCount, PingCount

\* Sequence ids wrap.
LEMMA NextSeqId == \A s \in SeqId : (s + 1) % SeqMod \in SeqId
BY InstanceAssumption DEF SeqId

\* A frame is appended to a TransmitBuffer with room.
LEMMA FrameAppended ==
    ASSUME NEW s \in Frames, NEW e \in EventId, Len(s) < FramesMax
    PROVE  Append(s, e) \in Frames
BY InstanceAssumption DEF Frames

-----------------------------------------------------------------------------
(* Functions that set fields.                                              *)

LEMMA NewInstanceGood ==
    ASSUME NEW c \in BOOLEAN, NEW g \in BOOLEAN PROVE Good(NewInstance(c, g))
<1>1. NewInstance(c, g) \in Instance
  BY Values, Enumerated, Zenon DEF NewInstance, Instance
<1>2. Sound(NewInstance(c, g))
  BY DEF NewInstance, Sound, Coherent, Timed, Pinging
<1> QED BY <1>1, <1>2 DEF Good

LEMMA SendConGood ==
    ASSUME NEW i, Good(i), NEW m \in ConMsg PROVE Good(SendCon(i, m))
<1>1. SendCon(i, m) \in Instance
  BY Enumerated, Zenon DEF Good, SendCon, Instance
<1>2. Sound(SendCon(i, m))
  BY SMT DEF Good, SendCon, Sound, Coherent, Timed, Pinging, Instance
<1> QED BY <1>1, <1>2 DEF Good

LEMMA TriggerPingGood ==
    ASSUME NEW i, Good(i) PROVE Good(TriggerPing(i))
<1>1. CASE i.client /\ i.pings /\ IsOpen(i)
  <2>1. [i EXCEPT !.pingOn = TRUE, !.pingRep = 0] \in Instance
    BY Values, Zenon DEF Good, Instance
  <2>2. Sound([i EXCEPT !.pingOn = TRUE, !.pingRep = 0])
    BY <1>1, SMT DEF Good, Sound, Coherent, Timed, Pinging, Instance, IsOpen
  <2> QED BY <1>1, <2>1, <2>2 DEF TriggerPing, Good
<1>2. CASE ~(i.client /\ i.pings /\ IsOpen(i))
  BY <1>2 DEF TriggerPing
<1> QED BY <1>1, <1>2

LEMMA ClearRetriesGood ==
    ASSUME NEW i, Good(i) PROVE Good(ClearRetries(i))
<1>1. ClearRetries(i) \in Instance
  BY Values, Zenon DEF Good, ClearRetries, Instance
<1>2. Sound(ClearRetries(i))
  BY SMT DEF Good, ClearRetries, Sound, Coherent, Timed, Pinging, Instance
<1> QED BY <1>1, <1>2 DEF Good

\* Clearing the repeat queue needs no running timer.
LEMMA ClearMsgsGood ==
    ASSUME NEW i \in Instance, Coherent(i), Pinging(i) PROVE Good(ClearMsgs(i))
<1>1. ClearMsgs(i) \in Instance
  BY Values, Zenon DEF ClearMsgs, Instance
<1>2. Sound(ClearMsgs(i))
  BY SMT DEF ClearMsgs, Sound, Coherent, Timed, Pinging, Instance
<1> QED BY <1>1, <1>2 DEF Good

LEMMA ClearTxGood ==
    ASSUME NEW i, Good(i) PROVE Good(ClearTx(i))
<1>1. ClearTx(i) \in Instance
  BY Values, Zenon DEF Good, ClearTx, Instance
<1>2. Sound(ClearTx(i))
  BY SMT DEF Good, ClearTx, Sound, Coherent, Timed, Pinging, Instance
<1> QED BY <1>1, <1>2 DEF Good

\* Connecting and disconnecting make an instance coherent, whatever it was.
LEMMA ToConnectedGood ==
    ASSUME NEW i \in Instance, Timed(i), Pinging(i) PROVE Good(ToConnected(i))
<1> DEFINE j == [i EXCEPT !.conState = "CONNECTED", !.commState = "READY",
                          !.seqSend = SeqMod - 1, !.seqRecv = SeqMod - 1,
                          !.conTimer = "off", !.conRepeat = 0, !.told = "READY"]
<1>1. j \in Instance
  BY Values, Enumerated, Zenon DEF Instance
<1>2. Sound(j)
  BY SMT DEF Sound, Coherent, Timed, Pinging, Instance
<1>3. Good(j)
  BY <1>1, <1>2 DEF Good
<1> QED BY <1>3, TriggerPingGood DEF ToConnected

LEMMA ToDisconnectedGood ==
    ASSUME NEW i \in Instance, Timed(i) PROVE Good(ToDisconnected(i))
<1>1. ToDisconnected(i) \in Instance
  BY Values, Enumerated, ZenonT(60) DEF ToDisconnected, Instance
<1>2. Sound(ToDisconnected(i))
  BY SMT DEF ToDisconnected, Sound, Coherent, Timed, Pinging, Instance
<1> QED BY <1>1, <1>2 DEF Good

\* Moving between two states that mean the same to the application.
LEMMA MoveGood ==
    ASSUME NEW i, Good(i), NEW s \in ConState,
           i.conState \in {"CONNECTED", "DISCONNECTING"} <=> s \in {"CONNECTED", "DISCONNECTING"}
    PROVE  Good([i EXCEPT !.conState = s])
<1>1. [i EXCEPT !.conState = s] \in Instance
  BY Zenon DEF Good, Instance
<1>2. Sound([i EXCEPT !.conState = s])
  BY SMT DEF Good, Sound, Coherent, Timed, Pinging, Instance
<1> QED BY <1>1, <1>2 DEF Good

\* The break timer and the pending disable request are no part of soundness.
LEMMA BreakGood ==
    ASSUME NEW i, Good(i), NEW b \in BOOLEAN PROVE Good([i EXCEPT !.breakOn = b])
<1>1. [i EXCEPT !.breakOn = b] \in Instance
  BY Zenon DEF Good, Instance
<1>2. Sound([i EXCEPT !.breakOn = b])
  BY SMT DEF Good, Sound, Coherent, Timed, Pinging, Instance
<1> QED BY <1>1, <1>2 DEF Good

LEMMA DisableReqGood ==
    ASSUME NEW i, Good(i), NEW b \in BOOLEAN PROVE Good([i EXCEPT !.disableReq = b])
<1>1. [i EXCEPT !.disableReq = b] \in Instance
  BY Zenon DEF Good, Instance
<1>2. Sound([i EXCEPT !.disableReq = b])
  BY SMT DEF Good, Sound, Coherent, Timed, Pinging, Instance
<1> QED BY <1>1, <1>2 DEF Good

-----------------------------------------------------------------------------
(* The connection state machine.                                           *)

LEMMA InDisconnectedGood ==
    ASSUME NEW i, Good(i), i.conState = "DISCONNECTED", NEW event
    PROVE  Good(InDisconnected(i, event))
<1>1. CASE event = "ENABLE"
  <2>1. Good([i EXCEPT !.conState = "CONNECTING"])
    BY MoveGood, Enumerated
  <2> QED BY <1>1, <2>1, SendConGood, Enumerated DEF InDisconnected
<1>2. CASE event = "ENABLE_REQUEST"
  <2>1. Good(SendCon(i, "ENABLE_RESPONSE"))
    BY SendConGood, Enumerated
  <2>2. Good(ToConnected(SendCon(i, "ENABLE_RESPONSE")))
    BY <2>1, ToConnectedGood DEF Good, Sound
  <2>3. Good([ToConnected(SendCon(i, "ENABLE_RESPONSE")) EXCEPT !.breakOn = FALSE])
    BY <2>2, BreakGood
  <2> QED BY <1>2, <2>3 DEF InDisconnected
<1>3. CASE event \notin {"ENABLE", "ENABLE_REQUEST"}
  BY <1>3 DEF InDisconnected
<1> QED BY <1>1, <1>2, <1>3

LEMMA InConnectingGood ==
    ASSUME NEW i, Good(i), i.conState = "CONNECTING", NEW event
    PROVE  Good(InConnecting(i, event))
<1>1. CASE event = "ENABLE_REQUEST"
  <2>1. Good(SendCon(i, "ENABLE_RESPONSE"))
    BY SendConGood, Enumerated
  <2> QED BY <1>1, <2>1, ToConnectedGood DEF InConnecting, Good, Sound
<1>2. CASE event = "ACCEPT"
  BY <1>2, ToConnectedGood DEF InConnecting, Good, Sound
<1>3. CASE event = "REJECT"
  <2>1. Good([i EXCEPT !.conState = "DISCONNECTED"])
    BY MoveGood, Enumerated
  <2> QED BY <1>3, <2>1 DEF InConnecting
<1>4. CASE event \notin {"ENABLE_REQUEST", "ACCEPT", "REJECT"}
  BY <1>4 DEF InConnecting
<1> QED BY <1>1, <1>2, <1>3, <1>4

LEMMA InConnectedGood ==
    ASSUME NEW i, Good(i), i.conState = "CONNECTED", NEW event
    PROVE  Good(InConnected(i, event))
<1>1. CASE event = "ENABLE_REQUEST"
  <2>1. Good(SendCon(i, "ENABLE_RESPONSE"))
    BY SendConGood, Enumerated
  <2>2. Good(ToDisconnected(SendCon(i, "ENABLE_RESPONSE")))
    BY <2>1, ToDisconnectedGood DEF Good, Sound
  <2> QED BY <1>1, <2>2, ToConnectedGood DEF InConnected, Good, Sound
<1>2. CASE event = "DISABLE"
  <2>1. Good([i EXCEPT !.conState = "DISCONNECTING"])
    BY MoveGood, Enumerated
  <2> QED BY <1>2, <2>1, SendConGood, Enumerated DEF InConnected
<1>3. CASE event = "DISABLE_SILENT"
  BY <1>3, ToDisconnectedGood DEF InConnected, Good, Sound
<1>4. CASE event = "DISABLE_REQUEST"
  <2>1. Good(SendCon(i, "DISABLE_RESPONSE"))
    BY SendConGood, Enumerated
  <2> QED BY <1>4, <2>1, ToDisconnectedGood DEF InConnected, Good, Sound
<1>5. CASE event \notin {"ENABLE_REQUEST", "DISABLE", "DISABLE_SILENT", "DISABLE_REQUEST"}
  BY <1>5 DEF InConnected
<1> QED BY <1>1, <1>2, <1>3, <1>4, <1>5

LEMMA InDisconnectingGood ==
    ASSUME NEW i, Good(i), NEW event PROVE Good(InDisconnecting(i, event))
BY ToDisconnectedGood DEF InDisconnecting, Good, Sound

LEMMA ConnectionSmGood ==
    ASSUME NEW i, Good(i), NEW event PROVE Good(ConnectionSm(i, event))
<1>1. CASE i.conState = "DISCONNECTED"
  BY <1>1, InDisconnectedGood DEF ConnectionSm
<1>2. CASE i.conState = "CONNECTING"
  BY <1>2, InConnectingGood DEF ConnectionSm
<1>3. CASE i.conState = "CONNECTED"
  BY <1>3, InConnectedGood DEF ConnectionSm
<1>4. CASE i.conState = "DISCONNECTING"
  BY <1>4, InDisconnectingGood DEF ConnectionSm
<1>5. i.conState \in ConState
  BY Zenon DEF Good, Instance
<1> QED BY <1>1, <1>2, <1>3, <1>4, <1>5 DEF ConState

LEMMA OrganizeGood ==
    ASSUME NEW i, Good(i) PROVE Good(Organize(i))
<1>1. CASE i.rep = NoEvent
  <2>1. [i EXCEPT !.repCnt = 0, !.msgTimer = FALSE] \in Instance
    BY Values, Zenon DEF Good, Instance
  <2>2. Sound([i EXCEPT !.repCnt = 0, !.msgTimer = FALSE])
    BY <1>1, SMT DEF Good, Sound, Coherent, Timed, Pinging, Instance
  <2> QED BY <1>1, <2>1, <2>2 DEF Organize, Good
<1>2. CASE i.rep # NoEvent
  BY <1>2 DEF Organize
<1> QED BY <1>1, <1>2

\* Giving up or finishing: the queue is cleared and the state machine runs.
LEMMA CloseGood ==
    ASSUME NEW i \in Instance, Coherent(i), Pinging(i), NEW event
    PROVE  Good(ConnectionSm(ClearRetries(ClearMsgs(i)), event))
BY ClearMsgsGood, ClearRetriesGood, ConnectionSmGood

LEMMA HandleConMsgGood ==
    ASSUME NEW i, Good(i), NEW m PROVE Good(HandleConMsg(i, m))
<1>1. CASE m \in {"ENABLE_REQUEST", "ENABLE_RESPONSE"}
  <2>1. Good(ClearRetries(ClearTx(i)))
    BY ClearTxGood, ClearRetriesGood
  <2> QED BY <1>1, <2>1, ConnectionSmGood DEF HandleConMsg
<1>2. CASE m = "DISABLE_REQUEST"
  <2>1. Good(Organize(i))
    BY OrganizeGood
  <2>2. Good(ConnectionSm(ClearRetries(ClearMsgs(Organize(i))), "DISABLE_REQUEST"))
    BY <2>1, CloseGood DEF Good, Sound
  <2>3. Good([Organize(i) EXCEPT !.disableReq = TRUE])
    BY <2>1, DisableReqGood
  <2> QED BY <1>2, <2>2, <2>3 DEF HandleConMsg
<1>3. CASE m = "DISABLE_RESPONSE"
  BY <1>3, CloseGood DEF HandleConMsg, Good, Sound
<1>4. CASE m = "PING_REQUEST"
  BY <1>4, SendConGood, Enumerated DEF HandleConMsg
<1>5. CASE m = "PING_RESPONSE"
  BY <1>5, TriggerPingGood DEF HandleConMsg
<1>6. CASE m \notin {"ENABLE_REQUEST", "ENABLE_RESPONSE", "DISABLE_REQUEST",
                     "DISABLE_RESPONSE", "PING_REQUEST", "PING_RESPONSE"}
  BY <1>6 DEF HandleConMsg
<1> QED BY <1>1, <1>2, <1>3, <1>4, <1>5, <1>6

-----------------------------------------------------------------------------
(* Failure handling and confirmation.                                      *)

\* Flags, instance pointers, retry counters and ConMsgTimer are free.
LEMMA FlagsGood ==
    ASSUME NEW i, Good(i), NEW b \in BOOLEAN
    PROVE  /\ Good([i EXCEPT !.conInst = b]) /\ Good([i EXCEPT !.rrInst = b])
           /\ Good([i EXCEPT !.conFlag = b]) /\ Good([i EXCEPT !.rrFlag = b])
<1>1. /\ [i EXCEPT !.conInst = b] \in Instance /\ [i EXCEPT !.rrInst = b] \in Instance
      /\ [i EXCEPT !.conFlag = b] \in Instance /\ [i EXCEPT !.rrFlag = b] \in Instance
  BY ZenonT(60) DEF Good, Instance
<1>2. /\ Sound([i EXCEPT !.conInst = b]) /\ Sound([i EXCEPT !.rrInst = b])
      /\ Sound([i EXCEPT !.conFlag = b]) /\ Sound([i EXCEPT !.rrFlag = b])
  BY SMT DEF Good, Sound, Coherent, Timed, Pinging, Instance
<1> QED BY <1>1, <1>2 DEF Good

LEMMA RetriesGood ==
    ASSUME NEW i, Good(i), NEW n \in RetryCount
    PROVE  /\ Good([i EXCEPT !.retryCon = n]) /\ Good([i EXCEPT !.retryRr = n])
<1>1. [i EXCEPT !.retryCon = n] \in Instance /\ [i EXCEPT !.retryRr = n] \in Instance
  BY Zenon DEF Good, Instance
<1>2. Sound([i EXCEPT !.retryCon = n]) /\ Sound([i EXCEPT !.retryRr = n])
  BY SMT DEF Good, Sound, Coherent, Timed, Pinging, Instance
<1> QED BY <1>1, <1>2 DEF Good

LEMMA ConTimerGood ==
    ASSUME NEW i, Good(i), NEW t \in ConTimer PROVE Good([i EXCEPT !.conTimer = t])
<1>1. [i EXCEPT !.conTimer = t] \in Instance
  BY Zenon DEF Good, Instance
<1>2. Sound([i EXCEPT !.conTimer = t])
  BY SMT DEF Good, Sound, Coherent, Timed, Pinging, Instance
<1> QED BY <1>1, <1>2 DEF Good

LEMMA ConTxFailGood ==
    ASSUME NEW i, Good(i) PROVE Good(ConTxFail(i))
BY FlagsGood, ClearRetriesGood, ConnectionSmGood DEF ConTxFail

LEMMA RrTxFailGood ==
    ASSUME NEW i, Good(i) PROVE Good(RrTxFail(i))
<1>1. Good([i EXCEPT !.rrInst = FALSE])
  BY FlagsGood
<1> QED BY <1>1, CloseGood DEF RrTxFail, Good, Sound

LEMMA ConNonDeliverableGood ==
    ASSUME NEW i, Good(i), NEW status PROVE Good(ConNonDeliverable(i, status))
<1> DEFINE j == [i EXCEPT !.retryCon = i.retryCon + 1]
<1>1. CASE i.retryCon < RetryMax
  <2>1. i.retryCon \in RetryCount
    BY Zenon DEF Good, Instance
  <2>2. Good(j)
    BY <1>1, <2>1, CountUp, RetriesGood
  <2>3. Good([j EXCEPT !.conTimer = "recovery"]) /\ Good(ConTxFail(j)) /\ Good([j EXCEPT !.conFlag = TRUE])
    BY <2>2, ConTimerGood, ConTxFailGood, FlagsGood, Enumerated
  <2> QED BY <1>1, <2>3, Zenon DEF ConNonDeliverable
<1>2. CASE ~(i.retryCon < RetryMax)
  BY <1>2, ConTxFailGood DEF ConNonDeliverable
<1> QED BY <1>1, <1>2

LEMMA RrNonDeliverableGood ==
    ASSUME NEW i, Good(i), NEW status PROVE Good(RrNonDeliverable(i, status))
<1> DEFINE j == [i EXCEPT !.retryRr = i.retryRr + 1]
<1>1. CASE i.retryRr < RetryMax
  <2>1. i.retryRr \in RetryCount
    BY Zenon DEF Good, Instance
  <2>2. Good(j)
    BY <1>1, <2>1, CountUp, RetriesGood
  <2>3. Good(RrTxFail(j)) /\ Good([j EXCEPT !.rrFlag = TRUE])
    BY <2>2, RrTxFailGood, FlagsGood
  <2> QED BY <1>1, <2>3 DEF RrNonDeliverable
<1>2. CASE ~(i.retryRr < RetryMax)
  BY <1>2, RrTxFailGood DEF RrNonDeliverable
<1> QED BY <1>1, <1>2

LEMMA PostRepeatTriggerGood ==
    ASSUME NEW i, Good(i) PROVE Good(PostRepeatTrigger(i))
<1> DEFINE j == [i EXCEPT !.conTimer = "response", !.conRepeat = i.conRepeat + 1]
<1>1. CASE i.conBuf \in {"ENABLE_REQUEST", "DISABLE_REQUEST"} /\ i.conRepeat < RetryMax
  <2>1. i.conRepeat \in RetryCount
    BY Zenon DEF Good, Instance
  <2>2. i.conRepeat + 1 \in RetryCount
    BY <1>1, <2>1, CountUp
  <2>3. j \in Instance
    BY <2>2, Enumerated, Zenon DEF Good, Instance
  <2>4. Sound(j)
    BY SMT DEF Good, Sound, Coherent, Timed, Pinging, Instance
  <2> QED BY <1>1, <2>3, <2>4 DEF PostRepeatTrigger, Good
<1>2. CASE i.conBuf \notin {"ENABLE_REQUEST", "DISABLE_REQUEST"}
  BY <1>2 DEF PostRepeatTrigger
<1>3. CASE i.conBuf \in {"ENABLE_REQUEST", "DISABLE_REQUEST"} /\ ~(i.conRepeat < RetryMax)
  BY <1>3, ConTxFailGood DEF PostRepeatTrigger
<1> QED BY <1>1, <1>2, <1>3

LEMMA ConPostGood ==
    ASSUME NEW i, Good(i) PROVE Good(ConPost(i))
BY PostRepeatTriggerGood, FlagsGood DEF ConPost

LEMMA RrPostGood ==
    ASSUME NEW i, Good(i) PROVE Good(RrPost(i))
BY ClearTxGood, TriggerPingGood, FlagsGood DEF RrPost

-----------------------------------------------------------------------------
(* The request/response channel.                                           *)

\* Preparing the header leaves everything but the sequence ids alone.
LEMMA PrepareHeaderGood ==
    ASSUME NEW i, Good(i), NEW n
    PROVE  /\ Good(PrepareHeader(i, n))
           /\ PrepareHeader(i, n).tx = i.tx /\ PrepareHeader(i, n).rep = i.rep
<1> DEFINE s == IF n = 0 THEN (i.seqSend + 1) % SeqMod ELSE i.seqSend
           j == [i EXCEPT !.seqSend = s, !.txSeq = s]
<1>1. CASE i.tx = <<>> \/ ~i.rrFlag
  <2>1. i.seqSend \in SeqId
    BY Zenon DEF Good, Instance
  <2>2. s \in SeqId
    BY <2>1, NextSeqId
  <2>3. j \in Instance
    BY <2>2, ZenonT(60) DEF Good, Instance
  <2>4. Sound(j) /\ j.tx = i.tx /\ j.rep = i.rep
    BY SMT DEF Good, Sound, Coherent, Timed, Pinging, Instance
  <2> QED BY <1>1, <2>3, <2>4, Zenon DEF PrepareHeader, Good
<1>2. CASE ~(i.tx = <<>> \/ ~i.rrFlag)
  BY <1>2 DEF PrepareHeader
<1> QED BY <1>1, <1>2

LEMMA QueueFrameGood ==
    ASSUME NEW i, Good(i), HasRoom(i), NEW e \in EventId PROVE Good(QueueFrame(i, e))
<1>1. i.tx \in Frames
  BY Zenon DEF Good, Instance
<1>2. Append(i.tx, e) \in Frames
  BY <1>1, FrameAppended DEF HasRoom
<1>3. QueueFrame(i, e) \in Instance
  BY <1>2, Values, Zenon DEF QueueFrame, Good, Instance
<1>4. Sound(QueueFrame(i, e))
  BY SMT DEF QueueFrame, Good, Sound, Coherent, Timed, Pinging, Instance
<1> QED BY <1>3, <1>4 DEF Good

LEMMA SendEventGood ==
    ASSUME NEW i, Good(i), NEW e \in EventId, NEW n PROVE Good(SendEvent(i, e, n))
<1> DEFINE j == PrepareHeader(i, n)
           k == [j EXCEPT !.rep = e, !.repCnt = 0, !.msgTimer = TRUE]
<1>1. Good(j) /\ j.tx = i.tx
  BY PrepareHeaderGood
<1>2. CASE i.commState # "NOT_READY" /\ SendAccepted(i, e, n)
  <2>1. HasRoom(j)
    BY <1>1, <1>2 DEF SendAccepted, HasRoom
  <2>2. k \in Instance
    BY <1>1, Values, Zenon DEF Good, Instance
  <2>3. Sound(k) /\ k.tx = j.tx
    BY <1>1, SMT DEF Good, Sound, Coherent, Timed, Pinging, Instance
  <2>4. Good(k) /\ HasRoom(k)
    BY <2>1, <2>2, <2>3 DEF Good, HasRoom
  <2> QED BY <1>1, <1>2, <2>1, <2>4, QueueFrameGood DEF SendEvent
<1>3. CASE ~(i.commState # "NOT_READY" /\ SendAccepted(i, e, n))
  BY <1>1, <1>3 DEF SendEvent
<1> QED BY <1>2, <1>3

LEMMA SendAckGood ==
    ASSUME NEW i, Good(i), NEW e \in EventId PROVE Good(SendAck(i, e))
<1> DEFINE j == PrepareHeader(i, 0)
<1>1. Good(j) /\ j.tx = i.tx
  BY PrepareHeaderGood
<1>2. HasRoom(i) => Good(QueueFrame(j, e))
  BY <1>1, QueueFrameGood DEF HasRoom
<1> QED BY <1>1, <1>2 DEF SendAck

\* MsgTimer has fired, so that it need not be running before.
LEMMA MsgTimerActionGood ==
    ASSUME NEW i \in Instance, Coherent(i), Pinging(i) PROVE Good(MsgTimerAction(i))
<1> DEFINE again == [i EXCEPT !.repCnt = i.repCnt + 1, !.msgTimer = TRUE]
           s == SendEvent(again, i.rep, again.repCnt)
           GiveUp(j) == ConnectionSm(ClearRetries(ClearMsgs(j)), "DISABLE_SILENT")
<1>1. CASE i.rep = NoEvent
  <2>1. Good(i)
    BY <1>1 DEF Good, Sound, Timed
  <2> QED BY <1>1, <2>1, OrganizeGood DEF MsgTimerAction
<1>2. CASE i.rep # NoEvent /\ i.repCnt >= RetryMax
  <2>1. Good(GiveUp(i))
    BY CloseGood
  <2> QED BY <1>2, <2>1, OrganizeGood DEF MsgTimerAction
<1>3. CASE i.rep # NoEvent /\ ~(i.repCnt >= RetryMax)
  <2>1. i.repCnt \in RetryCount /\ i.rep \in EventId \cup {NoEvent}
    BY Zenon DEF Instance
  <2>2. i.repCnt + 1 \in RetryCount
    BY <1>3, <2>1, CountUp, InstanceAssumption DEF RetryCount
  <2>3. again \in Instance
    BY <2>2, Zenon DEF Instance
  <2>4. Sound(again)
    BY SMT DEF Sound, Coherent, Timed, Pinging, Instance
  <2>5. Good(s)
    BY <1>3, <2>1, <2>3, <2>4, SendEventGood DEF Good
  <2>6. Good(GiveUp(s))
    BY <2>5, CloseGood DEF Good, Sound
  <2>7. Good(IF SendAccepted(again, i.rep, again.repCnt) THEN s ELSE GiveUp(s))
    BY <2>5, <2>6
  <2>8. MsgTimerAction(i) = Organize(IF SendAccepted(again, i.rep, again.repCnt) THEN s ELSE GiveUp(s))
    BY <1>3, Zenon DEF MsgTimerAction
  <2> QED BY <2>7, <2>8, OrganizeGood
<1> QED BY <1>1, <1>2, <1>3

LEMMA ReceiveAcksGood ==
    ASSUME NEW i, Good(i), NEW s \in SeqId, NEW acks PROVE Good(ReceiveAcks(i, s, acks))
<1> DEFINE hit == \E k \in 1 .. Len(acks) : i.rep # NoEvent /\ Kind(acks[k]) = Kind(i.rep)
           r == IF hit THEN NoEvent ELSE i.rep
           j == [i EXCEPT !.seqRecv = s, !.rep = r]
           o == Organize(j)
<1>1. r \in EventId \cup {NoEvent}
  BY Zenon DEF Good, Instance
<1>2. r = NoEvent \/ r = i.rep
  OBVIOUS
<1> HIDE DEF r
<1>3. j \in Instance
  BY <1>1, Zenon DEF Good, Instance
<1>4. Sound(j)
  BY <1>2, SMT DEF Good, Sound, Coherent, Timed, Pinging, Instance
<1>5. Good(o)
  BY <1>3, <1>4, OrganizeGood DEF Good
<1>6. Good(ConnectionSm(ClearRetries(ClearMsgs(o)), "DISABLE_REQUEST"))
  BY <1>5, CloseGood DEF Good, Sound
<1>7. ReceiveAcks(i, s, acks) = IF o.rep = NoEvent /\ o.disableReq
          THEN ConnectionSm(ClearRetries(ClearMsgs(o)), "DISABLE_REQUEST") ELSE o
  BY Zenon DEF ReceiveAcks, r
<1> QED BY <1>5, <1>6, <1>7

LEMMA TakeEventGood ==
    ASSUME NEW i, Good(i), NEW evts \in Frames, NEW k \in 1 .. 2
    PROVE  Good(TakeEvent(i, evts, k))
<1>1. k <= Len(evts) => evts[k] \in EventId
  BY DEF Frames
<1>2. Good(TriggerPing(i))
  BY TriggerPingGood
<1>3. k <= Len(evts) => Good(SendAck(TriggerPing(i), evts[k]))
  BY <1>1, <1>2, SendAckGood
<1> QED BY <1>2, <1>3 DEF TakeEvent

LEMMA ReceiveEventsGood ==
    ASSUME NEW i, Good(i), NEW s \in SeqId, NEW evts \in Frames
    PROVE  Good(ReceiveEvents(i, s, evts))
<1> DEFINE j == [i EXCEPT !.seqRecv = s]
<1>1. j \in Instance
  BY Zenon DEF Good, Instance
<1>2. Sound(j)
  BY SMT DEF Good, Sound, Coherent, Timed, Pinging, Instance
<1>3. Good(j)
  BY <1>1, <1>2 DEF Good
<1> QED BY <1>3, TakeEventGood DEF ReceiveEvents

-----------------------------------------------------------------------------
(* The functions that leave the handshake alone.                           *)

Waits(i) == i.conState \in {"CONNECTING", "DISCONNECTING"}

\* The fields of the handshake.
HasCon(i) ==
    /\ {"conState", "conBuf", "conTimer", "conInst", "conFlag"} \subseteq DOMAIN i
    /\ i.conState \in ConState

SameCon(i, j) ==
    /\ HasCon(j)
    /\ j.conState = i.conState /\ j.conBuf = i.conBuf /\ j.conTimer = i.conTimer
    /\ j.conInst = i.conInst /\ j.conFlag = i.conFlag

LEMMA SameTrans ==
    ASSUME NEW i, NEW j, NEW k, SameCon(i, j), SameCon(j, k) PROVE SameCon(i, k)
BY DEF SameCon

LEMMA ClearSame ==
    ASSUME NEW i, HasCon(i)
    PROVE  /\ SameCon(i, i) /\ SameCon(i, ClearRetries(i)) /\ SameCon(i, ClearMsgs(i))
           /\ SameCon(i, ClearTx(i)) /\ SameCon(i, Organize(i)) /\ SameCon(i, TriggerPing(i))
BY DEF HasCon, SameCon, ClearRetries, ClearMsgs, ClearTx, Organize, TriggerPing

LEMMA PrepareSame == ASSUME NEW i, HasCon(i), NEW r PROVE SameCon(i, PrepareHeader(i, r))
<1> DEFINE s == IF r = 0 THEN (i.seqSend + 1) % SeqMod ELSE i.seqSend
<1>1. SameCon(i, [i EXCEPT !.seqSend = s, !.txSeq = s])
  <2> HIDE DEF s
  <2> QED BY DEF HasCon, SameCon
<1> QED BY <1>1, ClearSame DEF PrepareHeader

LEMMA QueueSame == ASSUME NEW i, HasCon(i), NEW e PROVE SameCon(i, QueueFrame(i, e))
BY DEF HasCon, SameCon, QueueFrame

LEMMA SendEventSame == ASSUME NEW i, HasCon(i), NEW e, NEW r PROVE SameCon(i, SendEvent(i, e, r))
<1> DEFINE j == PrepareHeader(i, r)
           k == [j EXCEPT !.rep = e, !.repCnt = 0, !.msgTimer = TRUE]
<1>1. SameCon(i, i) /\ SameCon(i, j) BY ClearSame, PrepareSame
<1>2. SameCon(j, k) /\ HasCon(j) /\ HasCon(k)
  <2> HIDE DEF j
  <2> QED BY <1>1 DEF SameCon, HasCon
<1> HIDE DEF k
<1>3. SameCon(i, QueueFrame(j, e)) /\ SameCon(i, QueueFrame(k, e))
  <2> HIDE DEF j
  <2> QED BY <1>1, <1>2, QueueSame, SameTrans
<1> QED BY <1>1, <1>3 DEF SendEvent, k

LEMMA SendAckSame == ASSUME NEW i, HasCon(i), NEW e PROVE SameCon(i, SendAck(i, e))
<1> DEFINE j == PrepareHeader(i, 0)
<1>1. SameCon(i, i) /\ SameCon(i, j) BY ClearSame, PrepareSame
<1>2. SameCon(i, QueueFrame(j, e))
  <2> HIDE DEF j
  <2> QED BY <1>1, QueueSame, SameTrans DEF SameCon
<1> QED BY <1>1, <1>2 DEF SendAck

LEMMA TakeEventSame ==
    ASSUME NEW i, HasCon(i), NEW s, NEW k PROVE SameCon(i, TakeEvent(i, s, k))
<1>1. SameCon(i, i) /\ SameCon(i, TriggerPing(i)) BY ClearSame
<1>2. SameCon(i, SendAck(TriggerPing(i), s[k]))
  BY <1>1, SendAckSame, SameTrans DEF SameCon
<1> QED BY <1>1, <1>2 DEF TakeEvent

LEMMA ReceiveEventsSame ==
    ASSUME NEW i, HasCon(i), NEW s, NEW evts PROVE SameCon(i, ReceiveEvents(i, s, evts))
<1> DEFINE j == [i EXCEPT !.seqRecv = s]
           k == TakeEvent(j, evts, 1)
<1>1. SameCon(i, j) BY DEF HasCon, SameCon
<1> HIDE DEF j
<1>2. SameCon(j, k) BY <1>1, TakeEventSame DEF SameCon
<1> HIDE DEF k
<1>3. SameCon(k, TakeEvent(k, evts, 2)) BY <1>2, TakeEventSame DEF SameCon
<1>4. SameCon(i, TakeEvent(k, evts, 2)) BY <1>1, <1>2, <1>3, SameTrans
<1> QED BY <1>4 DEF ReceiveEvents, j, k
-----------------------------------------------------------------------------
(* The functions that bring no event into an instance: TransmitBuffer is    *)
(* kept or cleared, and so is the slot of the repeat queue.                 *)

HasQueues(i) == {"tx", "rep", "conState"} \subseteq DOMAIN i /\ i.conState \in ConState

Fades(i, j) ==
    /\ HasQueues(j)
    /\ j.tx = i.tx \/ j.tx = <<>>
    /\ j.rep = i.rep \/ j.rep = NoEvent

LEMMA FadesTrans ==
    ASSUME NEW i, NEW j, NEW k, Fades(i, j), Fades(j, k) PROVE Fades(i, k)
BY DEF Fades

LEMMA ClearFades ==
    ASSUME NEW i, HasQueues(i)
    PROVE  /\ Fades(i, i) /\ Fades(i, ClearRetries(i)) /\ Fades(i, ClearMsgs(i))
           /\ Fades(i, ClearTx(i)) /\ Fades(i, Organize(i)) /\ Fades(i, TriggerPing(i))
BY DEF HasQueues, Fades, ClearRetries, ClearMsgs, ClearTx, Organize, TriggerPing

LEMMA SendConFades == ASSUME NEW i, HasQueues(i), NEW m PROVE Fades(i, SendCon(i, m))
BY DEF HasQueues, Fades, SendCon

LEMMA ToConnectedFades == ASSUME NEW i, HasQueues(i) PROVE Fades(i, ToConnected(i))
<1> DEFINE j == [i EXCEPT !.conState = "CONNECTED", !.commState = "READY",
                          !.seqSend = SeqMod - 1, !.seqRecv = SeqMod - 1,
                          !.conTimer = "off", !.conRepeat = 0, !.told = "READY"]
<1>1. Fades(i, j) BY Enumerated DEF HasQueues, Fades
<1> HIDE DEF j
<1>2. Fades(j, TriggerPing(j)) BY <1>1, ClearFades DEF Fades
<1>3. Fades(i, TriggerPing(j)) BY <1>1, <1>2, FadesTrans
<1> QED BY <1>3 DEF ToConnected, j

LEMMA ToDisconnectedFades == ASSUME NEW i, HasQueues(i) PROVE Fades(i, ToDisconnected(i))
BY Enumerated DEF HasQueues, Fades, ToDisconnected

\* Any event drives the state machine without touching the queues.
LEMMA ConnectionSmFades ==
    ASSUME NEW i, HasQueues(i), NEW event PROVE Fades(i, ConnectionSm(i, event))
<1> DEFINE resp == SendCon(i, "ENABLE_RESPONSE")
           bye == SendCon(i, "DISABLE_RESPONSE")
           asks(s, m) == SendCon([i EXCEPT !.conState = s], m)
<1>1. Fades(i, i) /\ Fades(i, ToConnected(i)) /\ Fades(i, ToDisconnected(i))
  BY ClearFades, ToConnectedFades, ToDisconnectedFades
<1>2. Fades(i, ToConnected(resp)) /\ Fades(i, ToDisconnected(bye))
  BY SendConFades, ToConnectedFades, ToDisconnectedFades, FadesTrans DEF Fades
<1>3. Fades(i, ToConnected(ToDisconnected(resp)))
  <2>1. Fades(i, resp) BY SendConFades
  <2>2. Fades(resp, ToDisconnected(resp)) BY <2>1, ToDisconnectedFades DEF Fades
  <2>3. Fades(ToDisconnected(resp), ToConnected(ToDisconnected(resp)))
    BY <2>2, ToConnectedFades DEF Fades
  <2> QED BY <2>1, <2>2, <2>3, FadesTrans
<1>4. Fades(i, [ToConnected(resp) EXCEPT !.breakOn = FALSE])
  BY <1>2 DEF Fades, HasQueues
<1>5. ASSUME NEW s \in ConState, NEW m PROVE Fades(i, asks(s, m))
  <2>1. Fades(i, [i EXCEPT !.conState = s]) BY <1>5 DEF Fades, HasQueues
  <2> QED BY <2>1, SendConFades, FadesTrans DEF Fades
<1>6. Fades(i, [i EXCEPT !.conState = "DISCONNECTED"])
  BY Enumerated DEF Fades, HasQueues
<1>7. CASE i.conState = "DISCONNECTED"
  BY <1>1, <1>4, <1>5, <1>7, Enumerated, Zenon DEF ConnectionSm, InDisconnected
<1>8. CASE i.conState = "CONNECTING"
  BY <1>1, <1>2, <1>6, <1>8, Zenon DEF ConnectionSm, InConnecting
<1>9. CASE i.conState = "CONNECTED"
  BY <1>1, <1>2, <1>3, <1>5, <1>9, Enumerated, Zenon DEF ConnectionSm, InConnected
<1>10. CASE i.conState = "DISCONNECTING"
  BY <1>1, <1>10, Zenon DEF ConnectionSm, InDisconnecting
<1> QED BY <1>7, <1>8, <1>9, <1>10 DEF HasQueues, ConState

\* Clearing the queue and closing.
LEMMA CloseFades ==
    ASSUME NEW i, HasQueues(i), NEW event
    PROVE  Fades(i, ConnectionSm(ClearRetries(ClearMsgs(i)), event))
<1> DEFINE m == ClearMsgs(i)
           r == ClearRetries(m)
<1>1. Fades(i, m) BY ClearFades
<1> HIDE DEF m
<1>2. Fades(m, r) BY <1>1, ClearFades DEF Fades
<1> HIDE DEF r
<1>3. Fades(r, ConnectionSm(r, event)) BY <1>2, ConnectionSmFades DEF Fades
<1>4. Fades(i, ConnectionSm(r, event)) BY <1>1, <1>2, <1>3, FadesTrans
<1> QED BY <1>4 DEF r, m

LEMMA HandleConMsgFades ==
    ASSUME NEW i, HasQueues(i), NEW m PROVE Fades(i, HandleConMsg(i, m))
<1> DEFINE t == ClearRetries(ClearTx(i))
           o == Organize(i)
<1>1. Fades(i, t)
  BY ClearFades, FadesTrans DEF Fades
<1>2. \A event : Fades(i, ConnectionSm(t, event))
  <2> HIDE DEF t
  <2> QED BY <1>1, ConnectionSmFades, FadesTrans DEF Fades
<1>3. Fades(i, o)
  BY ClearFades
<1>4. /\ Fades(i, ConnectionSm(ClearRetries(ClearMsgs(o)), "DISABLE_REQUEST"))
      /\ Fades(i, [o EXCEPT !.disableReq = TRUE])
  <2> HIDE DEF o
  <2>1. Fades(o, [o EXCEPT !.disableReq = TRUE])
    BY <1>3 DEF Fades, HasQueues
  <2>2. Fades(o, ConnectionSm(ClearRetries(ClearMsgs(o)), "DISABLE_REQUEST"))
    BY <1>3, CloseFades DEF Fades
  <2> QED BY <1>3, <2>1, <2>2, FadesTrans
<1>5. /\ Fades(i, ConnectionSm(ClearRetries(ClearMsgs(i)), "ACCEPT"))
      /\ Fades(i, SendCon(i, "PING_RESPONSE")) /\ Fades(i, TriggerPing(i)) /\ Fades(i, i)
  BY CloseFades, SendConFades, ClearFades
<1>6. CASE m \in {"ENABLE_REQUEST", "ENABLE_RESPONSE"}
  BY <1>2, <1>6, Zenon DEF HandleConMsg
<1>7. CASE m = "DISABLE_REQUEST"
  BY <1>4, <1>7, Zenon DEF HandleConMsg
<1>8. CASE m \in {"DISABLE_RESPONSE", "PING_REQUEST", "PING_RESPONSE"}
  BY <1>5, <1>8, Zenon DEF HandleConMsg
<1>9. CASE m \notin {"ENABLE_REQUEST", "ENABLE_RESPONSE", "DISABLE_REQUEST",
                     "DISABLE_RESPONSE", "PING_REQUEST", "PING_RESPONSE"}
  BY <1>5, <1>9 DEF HandleConMsg
<1> QED BY <1>6, <1>7, <1>8, <1>9

LEMMA ConTxFailFades == ASSUME NEW i, HasQueues(i) PROVE Fades(i, ConTxFail(i))
<1> DEFINE j == [i EXCEPT !.conInst = FALSE]
           r == ClearRetries(j)
<1>1. Fades(i, j) BY DEF Fades, HasQueues
<1> HIDE DEF j
<1>2. Fades(j, r) BY <1>1, ClearFades DEF Fades
<1> HIDE DEF r
<1>3. \A event : Fades(i, ConnectionSm(r, event))
  BY <1>1, <1>2, ConnectionSmFades, FadesTrans DEF Fades
<1> QED BY <1>3, Zenon DEF ConTxFail, r, j

LEMMA RrTxFailFades == ASSUME NEW i, HasQueues(i) PROVE Fades(i, RrTxFail(i))
<1> DEFINE j == [i EXCEPT !.rrInst = FALSE]
<1>1. Fades(i, j) BY DEF Fades, HasQueues
<1> HIDE DEF j
<1>2. Fades(j, ConnectionSm(ClearRetries(ClearMsgs(j)), "DISABLE_SILENT"))
  BY <1>1, CloseFades DEF Fades
<1> QED BY <1>1, <1>2, FadesTrans DEF RrTxFail, j

LEMMA ConNonDeliverableFades ==
    ASSUME NEW i, HasQueues(i), NEW s PROVE Fades(i, ConNonDeliverable(i, s))
<1> DEFINE j == [i EXCEPT !.retryCon = i.retryCon + 1]
<1>1. Fades(i, j) BY DEF Fades, HasQueues
<1>2. Fades(i, [j EXCEPT !.conTimer = "recovery"]) /\ Fades(i, [j EXCEPT !.conFlag = TRUE])
  <2> HIDE DEF j
  <2> QED BY <1>1 DEF Fades, HasQueues
<1>3. Fades(i, ConTxFail(j)) /\ Fades(i, ConTxFail(i))
  <2> HIDE DEF j
  <2> QED BY <1>1, ConTxFailFades, FadesTrans DEF Fades
<1> QED BY <1>2, <1>3, Zenon DEF ConNonDeliverable

LEMMA RrNonDeliverableFades ==
    ASSUME NEW i, HasQueues(i), NEW s PROVE Fades(i, RrNonDeliverable(i, s))
<1> DEFINE j == [i EXCEPT !.retryRr = i.retryRr + 1]
<1>1. Fades(i, j) BY DEF Fades, HasQueues
<1>2. Fades(i, [j EXCEPT !.rrFlag = TRUE])
  <2> HIDE DEF j
  <2> QED BY <1>1 DEF Fades, HasQueues
<1>3. Fades(i, RrTxFail(j)) /\ Fades(i, RrTxFail(i))
  <2> HIDE DEF j
  <2> QED BY <1>1, RrTxFailFades, FadesTrans DEF Fades
<1> QED BY <1>2, <1>3, Zenon DEF RrNonDeliverable

LEMMA PostFades ==
    ASSUME NEW i, HasQueues(i) PROVE Fades(i, ConPost(i)) /\ Fades(i, RrPost(i))
<1> DEFINE j == [i EXCEPT !.conTimer = "response", !.conRepeat = i.conRepeat + 1]
           p == PostRepeatTrigger(i)
           t == TriggerPing(ClearTx(i))
<1>1. Fades(i, i) /\ Fades(i, j) BY ClearFades DEF Fades, HasQueues
<1>2. Fades(i, p) BY <1>1, ConTxFailFades, Zenon DEF PostRepeatTrigger
<1>3. Fades(i, t)
  BY ClearFades, FadesTrans DEF Fades
<1>4. Fades(i, [p EXCEPT !.conInst = FALSE]) /\ Fades(i, [t EXCEPT !.rrInst = FALSE])
  <2> HIDE DEF p, t
  <2> QED BY <1>2, <1>3 DEF Fades, HasQueues
<1> QED BY <1>1, <1>4, Zenon DEF ConPost, RrPost

LEMMA PrepareFades ==
    ASSUME NEW i, HasQueues(i), NEW r
    PROVE  /\ HasQueues(PrepareHeader(i, r))
           /\ PrepareHeader(i, r).tx = i.tx /\ PrepareHeader(i, r).rep = i.rep
<1> DEFINE s == IF r = 0 THEN (i.seqSend + 1) % SeqMod ELSE i.seqSend
           j == [i EXCEPT !.seqSend = s, !.txSeq = s]
<1>1. HasQueues(j) /\ j.tx = i.tx /\ j.rep = i.rep
  <2> HIDE DEF s
  <2> QED BY DEF HasQueues
<1> QED BY <1>1, Zenon DEF PrepareHeader

-----------------------------------------------------------------------------
(* The functions that do: what is queued is an event just accepted, the     *)
(* event under repetition, or one just received.                            *)

\* All events queued in TransmitBuffer are from a set.
Carries(i, S) == HasQueues(i) /\ i.tx \in Seq(S)

LEMMA FadesCarries ==
    ASSUME NEW i, NEW j, Fades(i, j), NEW S, Carries(i, S) PROVE Carries(j, S)
<1>1. <<>> \in Seq(S) OBVIOUS
<1> QED BY <1>1, Zenon DEF Fades, Carries

LEMMA SeqGrows ==
    ASSUME NEW S, NEW T, S \subseteq T, NEW s \in Seq(S) PROVE s \in Seq(T)
OBVIOUS

LEMMA QueueCarries ==
    ASSUME NEW i, NEW S, Carries(i, S), NEW e \in S
    PROVE  Carries(QueueFrame(i, e), S) /\ QueueFrame(i, e).rep = i.rep
BY DEF Carries, HasQueues, QueueFrame

\* An accepted event is queued and, when it is new, kept for repetition.
LEMMA SendEventCarries ==
    ASSUME NEW i, NEW S, Carries(i, S), NEW e, NEW n, SendAccepted(i, e, n) => e \in S
    PROVE  /\ Carries(SendEvent(i, e, n), S)
           /\ SendEvent(i, e, n).rep = IF SendAccepted(i, e, n) THEN e ELSE i.rep
<1> DEFINE j == PrepareHeader(i, n)
           k == [j EXCEPT !.rep = e, !.repCnt = 0, !.msgTimer = TRUE]
<1>1. Carries(j, S) /\ j.rep = i.rep
  BY PrepareFades DEF Carries
<1> HIDE DEF j
<1>2. Carries(k, S) /\ k.rep = e
  BY <1>1 DEF Carries, HasQueues
<1> HIDE DEF k
<1>3. CASE i.commState = "NOT_READY"
  BY <1>3 DEF SendEvent, SendAccepted, Carries
<1>4. CASE i.commState # "NOT_READY" /\ ~SendAccepted(i, e, n)
  BY <1>1, <1>4 DEF SendEvent, j
<1>5. CASE i.commState # "NOT_READY" /\ SendAccepted(i, e, n)
  <2>1. SendEvent(i, e, n) = IF i.rep = e THEN QueueFrame(j, e) ELSE QueueFrame(k, e)
    BY <1>5 DEF SendEvent, j, k
  <2> QED BY <1>1, <1>2, <1>5, <2>1, QueueCarries
<1> QED BY <1>3, <1>4, <1>5

LEMMA SendAckCarries ==
    ASSUME NEW i, NEW S, Carries(i, S), NEW e \in S
    PROVE  Carries(SendAck(i, e), S) /\ SendAck(i, e).rep = i.rep
<1> DEFINE j == PrepareHeader(i, 0)
<1>1. Carries(j, S) /\ j.rep = i.rep
  BY PrepareFades DEF Carries
<1> HIDE DEF j
<1>2. Carries(QueueFrame(j, e), S) /\ QueueFrame(j, e).rep = i.rep
  BY <1>1, QueueCarries
<1> QED BY <1>1, <1>2 DEF SendAck, j

\* A repetition queues the event in the slot; otherwise the slot is given up.
LEMMA MsgTimerActionCarries ==
    ASSUME NEW i, NEW S, Carries(i, S), i.rep \in S \cup {NoEvent}
    PROVE  /\ Carries(MsgTimerAction(i), S)
           /\ MsgTimerAction(i).rep \in {i.rep, NoEvent}
<1> DEFINE again == [i EXCEPT !.repCnt = i.repCnt + 1, !.msgTimer = TRUE]
           s == SendEvent(again, i.rep, again.repCnt)
           GiveUp(j) == ConnectionSm(ClearRetries(ClearMsgs(j)), "DISABLE_SILENT")
           r == CASE i.rep = NoEvent -> i
                  [] i.rep # NoEvent /\ i.repCnt >= RetryMax -> GiveUp(i)
                  [] OTHER -> IF SendAccepted(again, i.rep, again.repCnt) THEN s ELSE GiveUp(s)
<1>1. Carries(again, S) /\ again.rep = i.rep
  BY DEF Carries, HasQueues
<1>2. i.rep # NoEvent => Carries(s, S) /\ s.rep = i.rep
  <2> HIDE DEF again
  <2> QED BY <1>1, SendEventCarries
<1>3. ASSUME NEW j, Carries(j, S) PROVE Carries(GiveUp(j), S) /\ GiveUp(j).rep \in {j.rep, NoEvent}
  <2>1. Fades(j, GiveUp(j)) BY <1>3, CloseFades DEF Carries
  <2> HIDE DEF GiveUp
  <2> QED BY <1>3, <2>1, FadesCarries DEF Fades
<1>4. Carries(r, S) /\ r.rep \in {i.rep, NoEvent}
  <2> HIDE DEF GiveUp, s, again
  <2> QED BY <1>2, <1>3, Zenon
<1>5. MsgTimerAction(i) = Organize(r)
  BY Zenon DEF MsgTimerAction
<1> HIDE DEF r
<1>6. Fades(r, Organize(r)) BY <1>4, ClearFades DEF Carries
<1> QED BY <1>4, <1>5, <1>6, FadesCarries DEF Fades

\* Acknowledges queue nothing; one of the event's kind frees the slot.
LEMMA ReceiveAcksFades ==
    ASSUME NEW i, HasQueues(i), NEW s, NEW acks
    PROVE  /\ Fades(i, ReceiveAcks(i, s, acks))
           /\ i.rep # NoEvent /\ ReceiveAcks(i, s, acks).rep = NoEvent
              => \E k \in 1 .. Len(acks) : Kind(acks[k]) = Kind(i.rep)
<1> DEFINE hit == \E k \in 1 .. Len(acks) : i.rep # NoEvent /\ Kind(acks[k]) = Kind(i.rep)
           r == IF hit THEN NoEvent ELSE i.rep
           j == [i EXCEPT !.seqRecv = s, !.rep = r]
           o == Organize(j)
           c == ConnectionSm(ClearRetries(ClearMsgs(o)), "DISABLE_REQUEST")
<1>1. Fades(i, j) /\ j.rep = r
  <2>1. r \in {NoEvent, i.rep} OBVIOUS
  <2> HIDE DEF r
  <2> QED BY <2>1 DEF Fades, HasQueues
<1>2. Fades(j, o) /\ (o.rep = NoEvent => j.rep = NoEvent)
  <2> HIDE DEF j
  <2> QED BY <1>1, ClearFades DEF Fades, HasQueues, Organize
<1> HIDE DEF o
<1>3. Fades(o, c) BY <1>2, CloseFades DEF Fades
<1> HIDE DEF c, j
<1>4. Fades(i, o) /\ Fades(i, c)
  BY <1>1, <1>2, <1>3, FadesTrans
<1>5. ReceiveAcks(i, s, acks) = IF o.rep = NoEvent /\ o.disableReq THEN c ELSE o
  BY Zenon DEF ReceiveAcks, c, o, j, r, hit
<1>6. ReceiveAcks(i, s, acks).rep = NoEvent => r = NoEvent
  BY <1>1, <1>2, <1>5
<1>7. i.rep # NoEvent /\ r = NoEvent => hit
  BY DEF r
<1> QED BY <1>4, <1>5, <1>6, <1>7 DEF hit

LEMMA TakeEventCarries ==
    ASSUME NEW i, NEW S, Carries(i, S), NEW evts \in Seq(S), NEW k \in Nat \ {0}
    PROVE  Carries(TakeEvent(i, evts, k), S) /\ TakeEvent(i, evts, k).rep \in {i.rep, NoEvent}
<1> DEFINE t == TriggerPing(i)
<1>1. Carries(t, S) /\ t.rep \in {i.rep, NoEvent}
  BY ClearFades, FadesCarries DEF Carries, Fades
<1> HIDE DEF t
<1>2. k <= Len(evts) => evts[k] \in S
  OBVIOUS
<1>3. k <= Len(evts) => Carries(SendAck(t, evts[k]), S) /\ SendAck(t, evts[k]).rep = t.rep
  BY <1>1, <1>2, SendAckCarries
<1> QED BY <1>1, <1>3 DEF TakeEvent, t

\* The events received are queued again, as acknowledges, and nothing else.
LEMMA ReceiveEventsCarries ==
    ASSUME NEW i, NEW S, Carries(i, S), NEW s, NEW evts \in Seq(S)
    PROVE  /\ Carries(ReceiveEvents(i, s, evts), S)
           /\ ReceiveEvents(i, s, evts).rep \in {i.rep, NoEvent}
<1> DEFINE j == [i EXCEPT !.seqRecv = s]
           k == TakeEvent(j, evts, 1)
<1>1. Carries(j, S) /\ j.rep = i.rep BY DEF Carries, HasQueues
<1> HIDE DEF j
<1>2. Carries(k, S) /\ k.rep \in {j.rep, NoEvent} BY <1>1, TakeEventCarries
<1> HIDE DEF k
<1>3. Carries(TakeEvent(k, evts, 2), S) /\ TakeEvent(k, evts, 2).rep \in {k.rep, NoEvent}
  BY <1>2, TakeEventCarries
<1> QED BY <1>1, <1>2, <1>3 DEF ReceiveEvents, k, j
============================================================================
