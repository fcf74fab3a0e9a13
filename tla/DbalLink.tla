------------------------------ MODULE DbalLink ------------------------------
(***************************************************************************)
(* Two ECUs whose DBal cross connections are each other's partner: the     *)
(* client pings and acknowledges, the server sends events.  Each ECU runs  *)
(* the instance of DbalInstance, a bus access layer that hands one flagged *)
(* message at a time to the data link layer, and a data link layer that    *)
(* puts it on the bus and confirms it.                                     *)
(*                                                                         *)
(* What the bus does wrong is paid for from the budget "faults", a power   *)
(* failure from "restarts", a call of an application from "calls".         *)
(***************************************************************************)
EXTENDS DbalInstance

CONSTANTS
    Pings,       \* the client is configured with a ping time
    ConfirmLag,  \* TRUE: the link layer polls for the confirmation, so that the
                 \* partner may act on a frame first (DBusCAN); FALSE: the
                 \* confirmation comes with the acknowledge (UART interrupt)
    Timely,      \* TRUE: timeouts are longer than any exchange in progress
    Patient,     \* TRUE: applications call only once the link has gone quiet
    RxBuffers,   \* frames the receiving link layer can hold
    MaxFaults,   \* bound: bus faults
    MaxRestarts, \* bound: power failures
    MaxCalls     \* bound: calls of the applications

ASSUME LinkAssumption ==
    /\ Pings \in BOOLEAN
    /\ ConfirmLag \in BOOLEAN
    /\ Timely \in BOOLEAN
    /\ Patient \in BOOLEAN
    /\ RxBuffers \in Nat \ {0}
    /\ MaxFaults \in Nat
    /\ MaxRestarts \in Nat
    /\ MaxCalls \in Nat

VARIABLES
    inst,       \* inst[p]: the instance of ECU p
    dll,        \* dll[p]: the link layer of ECU p
    inbox,      \* inbox[p]: frames received by ECU p, not yet dispatched
    brk,        \* brk[p]: a wakeup break on the bus that p has not processed
    wakeup,     \* wakeup[p]: a "wakeup sent request" of the partner, on its way to p
    sent,       \* events the server accepted from its application (history)
    delivered,  \* events the client's application got (history)
    acked,      \* events the server took for acknowledged (history)
    faults,     \* remaining bus faults
    restarts,   \* remaining power failures
    calls       \* remaining application calls

vars == <<inst, dll, inbox, brk, wakeup, sent, delivered, acked, faults, restarts, calls>>

Nodes == {"client", "server"}
Partner(p) == IF p = "client" THEN "server" ELSE "client"

\* The content of a link layer buffer: a connection message, a response frame
\* with its sequence id and DBal frames, or bytes no receiver accepts.
Frame == [ch : {"con", "rr", "junk"}, msg : ConMsg \cup {"none"},
          seq : SeqId, evts : Frames]
Channel == {"con", "rr"}
Status == {"ok", "noack", "nak"}
Dll == [stage : {"idle", "loaded", "sent"}, idx : Channel, status : Status,
        buf : Frame]

\* DLL_IDLE with a transmit buffer that was never written
NewDll == [stage |-> "idle", idx |-> "con", status |-> "ok",
           buf |-> [ch |-> "junk", msg |-> "none", seq |-> 0, evts |-> <<>>]]

\* What the bus can do to a frame: copies that arrive, and what the sender is told.
Clean == <<1, "ok">>
Faulty == {<<2, "ok">>, <<0, "noack">>, <<1, "noack">>, <<0, "nak">>, <<1, "nak">>}

Init ==
    /\ inst = [p \in Nodes |-> NewInstance(p = "client", Pings)]
    /\ dll = [p \in Nodes |-> NewDll]
    /\ inbox = [p \in Nodes |-> <<>>]
    /\ brk = [p \in Nodes |-> FALSE]
    /\ wakeup = [p \in Nodes |-> FALSE]
    /\ sent = {}
    /\ delivered = {}
    /\ acked = {}
    /\ faults = MaxFaults
    /\ restarts = MaxRestarts
    /\ calls = MaxCalls

\* Nothing is queued, in transmission or waiting to be processed.
LinkIdle ==
    \A p \in Nodes : /\ dll[p].stage = "idle" /\ inbox[p] = <<>>
                     /\ ~inst[p].conFlag /\ ~inst[p].rrFlag
                     /\ ~brk[p] /\ ~wakeup[p]

TimerMayFire == Timely => LinkIdle

-----------------------------------------------------------------------------
(* Calls of the application.                                               *)

Call ==
    /\ calls > 0 /\ calls' = calls - 1
    /\ Patient => LinkIdle /\ \A p \in Nodes : inst[p].conTimer = "off"

\* DBAL_enableByInstance
Enable(p) ==
    /\ Call
    /\ inst[p].commState = "NOT_READY" /\ inst[p].conState = "DISCONNECTED"
    /\ inst' = [inst EXCEPT ![p] = [ConnectionSm(@, "ENABLE") EXCEPT !.told = "asked"]]
    /\ UNCHANGED <<dll, inbox, brk, wakeup, sent, delivered, acked, faults, restarts>>

\* DBAL_disableByInstance
Disable(p) ==
    /\ Call
    /\ IsOpen(inst[p])
    /\ inst' = [inst EXCEPT ![p] = ConnectionSm(@, "DISABLE")]
    /\ UNCHANGED <<dll, inbox, brk, wakeup, sent, delivered, acked, faults, restarts>>

\* DBALCR_sendEvent
Send(e) ==
    /\ Call
    /\ ~DisablePending(inst["server"])
    /\ inst["server"].commState = "READY"
    /\ inst' = [inst EXCEPT !["server"] = SendEvent(@, e, 0)]
    /\ sent' = IF SendAccepted(inst["server"], e, 0) THEN sent \cup {e} ELSE sent
    /\ UNCHANGED <<dll, inbox, brk, wakeup, delivered, acked, faults, restarts>>

-----------------------------------------------------------------------------
(* Transmission.                                                           *)

\* The numbers of enum DBAL_ConnectionMessageType.
ConNumber == <<"ENABLE_REQUEST", "ENABLE_RESPONSE", "DISABLE_REQUEST",
               "DISABLE_RESPONSE", "PING_REQUEST", "PING_RESPONSE">>
NumberOf(m) == CHOOSE k \in 0 .. 5 : ConNumber[k + 1] = m

\* DbalTransmitCr_appLayerConnection without an instance writes nothing: the
\* bytes of the previous frame go out again.  Those of an event frame read as a
\* connection message, for its sequence id is where the message type is, and
\* the number of DBAL_TYPE_EVENT is that of the protocol version.
StaleCon(p, b) ==
    IF b.ch = "rr" /\ p = "server" /\ b.seq < 6
    THEN [b EXCEPT !.ch = "con", !.msg = ConNumber[b.seq + 1]]
    ELSE IF b.ch = "con" THEN b ELSE [b EXCEPT !.ch = "junk"]

\* DbalTransmitCr_appLayerResponse without an instance, likewise.
StaleRr(p, b) ==
    IF b.ch = "con" /\ p = "server" /\ b.evts # <<>> /\ b.msg # "none"
    THEN [b EXCEPT !.ch = "rr", !.seq = NumberOf(b.msg) % SeqMod]
    ELSE IF b.ch = "rr" THEN b ELSE [b EXCEPT !.ch = "junk"]

\* What the transmit functions put into the link layer's buffer.
ConFrame(p) ==
    IF inst[p].conInst THEN [dll[p].buf EXCEPT !.ch = "con", !.msg = inst[p].conBuf]
    ELSE StaleCon(p, dll[p].buf)
RrFrame(p) ==
    IF ~inst[p].rrInst THEN StaleRr(p, dll[p].buf)
    ELSE [dll[p].buf EXCEPT !.ch = IF inst[p].tx = <<>> THEN "junk" ELSE "rr",
                            !.seq = inst[p].txSeq, !.evts = inst[p].tx]

\* BAL_HandleTask, DLL_bTransmitMessage: the flagged message with the lowest
\* index goes to the idle link layer, and its flag is reset.
StartTx(p) ==
    /\ dll[p].stage = "idle"
    /\ \/ /\ inst[p].conFlag
          /\ dll' = [dll EXCEPT ![p] = [stage |-> "loaded", idx |-> "con",
                                        status |-> "ok", buf |-> ConFrame(p)]]
          /\ inst' = [inst EXCEPT ![p].conFlag = FALSE]
       \/ /\ ~inst[p].conFlag /\ inst[p].rrFlag
          /\ dll' = [dll EXCEPT ![p] = [stage |-> "loaded", idx |-> "rr",
                                        status |-> "ok", buf |-> RrFrame(p)]]
          /\ inst' = [inst EXCEPT ![p].rrFlag = FALSE]
    /\ UNCHANGED <<inbox, brk, wakeup, sent, delivered, acked, faults, restarts, calls>>

\* The instance after DLL_vMessageTransmitted reported s for a message of channel x.
Confirmed(i, x, s) ==
    CASE x = "con" /\ s = "ok" -> ConPost(i)
      [] x = "con" /\ s # "ok" -> ConNonDeliverable(i, s)
      [] x = "rr" /\ s = "ok" -> RrPost(i)
      [] x = "rr" /\ s # "ok" -> RrNonDeliverable(i, s)

\* DbalTransmitCrPost_appLayerResponse without an instance writes through NULL.
WritesNull(p, x, s) == x = "rr" /\ s = "ok" /\ ~inst[p].rrInst

\* The confirmation reaches the instance and ends the transmission.
ConfirmTo(p, x, s) ==
    /\ inst' = [inst EXCEPT ![p] = Confirmed(@, x, s)]
    /\ brk' = [brk EXCEPT ![Partner(p)] = @ \/ (x = "con" /\ SendsBreak(inst[p], s))]

\* A faulty bus puts copies of the frame into the partner's inbox as it likes.
OnBus(p, outcome) ==
    /\ outcome \in {Clean} \cup Faulty
    /\ faults' = IF outcome = Clean THEN faults ELSE faults - 1
    /\ outcome # Clean => faults > 0
    /\ Len(inbox[Partner(p)]) + outcome[1] <= RxBuffers
    /\ inbox' = [inbox EXCEPT ![Partner(p)] =
                     @ \o [k \in 1 .. outcome[1] |-> dll[p].buf]]

\* UART link layer: the acknowledge on the bus is the confirmation.
Transmit(p, outcome) ==
    /\ ~ConfirmLag /\ ~WritesNull(p, dll[p].idx, outcome[2])
    /\ dll[p].stage = "loaded"
    /\ OnBus(p, outcome)
    /\ ConfirmTo(p, dll[p].idx, outcome[2])
    /\ dll' = [dll EXCEPT ![p].stage = "idle"]
    /\ UNCHANGED <<wakeup, sent, delivered, acked, restarts, calls>>

\* DBusCAN link layer: the frame is at the partner while the sender still polls.
\* A confirmation that writes through NULL is a step of its own in either layer.
TransmitUnconfirmed(p, outcome) ==
    /\ ConfirmLag \/ WritesNull(p, dll[p].idx, outcome[2])
    /\ dll[p].stage = "loaded"
    /\ OnBus(p, outcome)
    /\ dll' = [dll EXCEPT ![p].stage = "sent", ![p].status = outcome[2]]
    /\ UNCHANGED <<inst, brk, wakeup, sent, delivered, acked, restarts, calls>>

\* DLL_HandleTask, DLL_WAIT_FOR_MSG_DELIVERY
Confirm(p) ==
    /\ dll[p].stage = "sent"
    /\ ConfirmTo(p, dll[p].idx, dll[p].status)
    /\ dll' = [dll EXCEPT ![p].stage = "idle"]
    /\ UNCHANGED <<inbox, wakeup, sent, delivered, acked, faults, restarts, calls>>

-----------------------------------------------------------------------------
(* Reception.                                                              *)

\* Mutant of Received: the client acknowledges what it ignores.
ReceivedAcksIgnored(p, i, f) ==
    CASE f.ch = "con" -> HandleConMsg(i, f.msg)
      [] f.ch = "rr" /\ ~IsIgnored(i, f.seq) /\ p = "server" -> ReceiveAcks(i, f.seq, f.evts)
      [] f.ch = "rr" /\ p = "client" -> ReceiveEvents(i, f.seq, f.evts)
      [] OTHER -> i

\* DbalReceive_appLayerConnection, DbalReceive_appLayerResponse: frames no
\* instance accepts, and response frames out of sequence, change nothing.
Received(p, i, f) ==
    CASE f.ch = "con" -> HandleConMsg(i, f.msg)
      [] f.ch = "rr" /\ ~IsIgnored(i, f.seq) /\ p = "server" -> ReceiveAcks(i, f.seq, f.evts)
      [] f.ch = "rr" /\ ~IsIgnored(i, f.seq) /\ p = "client" -> ReceiveEvents(i, f.seq, f.evts)
      [] OTHER -> i

\* BAL_bDispatchRcvdDbus2Msg: the oldest received frame is handled.
Receive(p) ==
    /\ inbox[p] # <<>>
    /\ LET f == Head(inbox[p])
           taken == f.ch = "rr" /\ ~IsIgnored(inst[p], f.seq)
       IN  /\ inst' = [inst EXCEPT ![p] = Received(p, @, f)]
           /\ delivered' = IF taken /\ p = "client"
                           THEN delivered \cup {f.evts[k] : k \in 1 .. Len(f.evts)}
                           ELSE delivered
           /\ acked' = IF taken /\ p = "server" /\ inst[p].rep # NoEvent
                          /\ inst'[p].rep = NoEvent
                       THEN acked \cup {inst[p].rep}
                       ELSE acked
    /\ inbox' = [inbox EXCEPT ![p] = Tail(@)]
    /\ UNCHANGED <<dll, brk, wakeup, sent, faults, restarts, calls>>

-----------------------------------------------------------------------------
(* Timers and wakeup.                                                      *)

\* DBAL_conMsgTimerCallback
ConMsgTimerFires(p) ==
    /\ inst[p].conTimer # "off" /\ TimerMayFire
    /\ inst' = [inst EXCEPT ![p] = SendCon([@ EXCEPT !.conTimer = "off"], @.conBuf)]
    /\ UNCHANGED <<dll, inbox, brk, wakeup, sent, delivered, acked, faults, restarts, calls>>

\* DBAL_msgTimerCallback
MsgTimerFires(p) ==
    /\ inst[p].msgTimer /\ TimerMayFire
    /\ inst' = [inst EXCEPT ![p] = MsgTimerAction([@ EXCEPT !.msgTimer = FALSE])]
    /\ UNCHANGED <<dll, inbox, brk, wakeup, sent, delivered, acked, faults, restarts, calls>>

\* Mutant of PingTimerFires: unanswered pings are not counted.
PingTimerFiresUncounted(p) ==
    /\ inst[p].pingOn /\ TimerMayFire
    /\ inst' = [inst EXCEPT ![p] = IF IsOpen(@) THEN SendCon(@, "PING_REQUEST")
                                   ELSE [@ EXCEPT !.pingOn = FALSE]]
    /\ UNCHANGED <<dll, inbox, brk, wakeup, sent, delivered, acked, faults, restarts, calls>>

\* DBALCR_pingReqTimerCallback
PingTimerFires(p) ==
    /\ inst[p].pingOn /\ TimerMayFire
    /\ LET i == [inst[p] EXCEPT !.pingOn = FALSE]
       IN  inst' = [inst EXCEPT ![p] =
             CASE ~IsOpen(i) -> i
               [] IsOpen(i) /\ i.pingRep <= PingMaxRepeat ->
                      [SendCon(i, "PING_REQUEST") EXCEPT !.pingOn = TRUE, !.pingRep = @ + 1]
               [] OTHER -> ConnectionSm(i, "DISABLE_SILENT")]
    /\ UNCHANGED <<dll, inbox, brk, wakeup, sent, delivered, acked, faults, restarts, calls>>

\* DBAL_breakSignalDetected; the "wakeup sent request" it broadcasts may be lost.
BreakSeen(p) ==
    /\ brk[p]
    /\ brk' = [brk EXCEPT ![p] = FALSE]
    /\ inst' = [inst EXCEPT ![p].breakOn = TRUE]
    /\ \/ /\ wakeup' = [wakeup EXCEPT ![Partner(p)] = TRUE]
          /\ UNCHANGED faults
       \/ /\ faults > 0 /\ faults' = faults - 1
          /\ UNCHANGED wakeup
    /\ UNCHANGED <<dll, inbox, sent, delivered, acked, restarts, calls>>

\* DBAL_isNodeToBeWokenUp, asked when a "wakeup sent request" arrives
NodeToBeWokenUp(p) ==
    /\ wakeup[p]
    /\ wakeup' = [wakeup EXCEPT ![p] = FALSE]
    /\ inst' = [inst EXCEPT ![p] =
                  IF @.conTimer = "recovery"
                  THEN SendCon([@ EXCEPT !.conTimer = "off"], "ENABLE_REQUEST") ELSE @]
    /\ UNCHANGED <<dll, inbox, brk, sent, delivered, acked, faults, restarts, calls>>

\* Mutant of BreakTimerFires: the break only resets the state.
BreakTimerFiresStateOnly(p) ==
    /\ inst[p].breakOn /\ TimerMayFire
    /\ inst' = [inst EXCEPT ![p].breakOn = FALSE, ![p].conState = "DISCONNECTED"]
    /\ UNCHANGED <<dll, inbox, brk, wakeup, sent, delivered, acked, faults, restarts, calls>>

\* DBAL_breakProcessTimerCallback
BreakTimerFires(p) ==
    /\ inst[p].breakOn /\ TimerMayFire
    /\ LET i == [inst[p] EXCEPT !.breakOn = FALSE]
       IN  inst' = [inst EXCEPT ![p] =
             IF i.commState = "NOT_READY" \/ i.conState = "DISCONNECTING"
             THEN ToDisconnected(i) ELSE i]
    /\ UNCHANGED <<dll, inbox, brk, wakeup, sent, delivered, acked, faults, restarts, calls>>

\* An ECU restarts and loses everything: after a power failure, or when the
\* write through NULL of a confirmation is trapped.
Restart(p) ==
    /\ \/ restarts > 0 /\ restarts' = restarts - 1
       \/ /\ dll[p].stage = "sent" /\ WritesNull(p, dll[p].idx, dll[p].status)
          /\ UNCHANGED restarts
    /\ inst' = [inst EXCEPT ![p] = NewInstance(p = "client", Pings)]
    /\ dll' = [dll EXCEPT ![p] = NewDll]
    /\ inbox' = [inbox EXCEPT ![p] = <<>>]
    /\ brk' = [brk EXCEPT ![p] = FALSE]
    /\ wakeup' = [wakeup EXCEPT ![p] = FALSE]
    /\ UNCHANGED <<sent, delivered, acked, faults, calls>>

-----------------------------------------------------------------------------

AppCall == (\E p \in Nodes : Enable(p) \/ Disable(p)) \/ (\E e \in EventId : Send(e))

\* The link layer's and the timers' steps, which the scheduler keeps running.
Work(p) ==
    \/ StartTx(p)
    \/ \E outcome \in {Clean} \cup Faulty : Transmit(p, outcome)
    \/ \E outcome \in {Clean} \cup Faulty : TransmitUnconfirmed(p, outcome)
    \/ Confirm(p)
    \/ Receive(p)
    \/ BreakSeen(p) \/ NodeToBeWokenUp(p)

Timers(p) ==
    ConMsgTimerFires(p) \/ MsgTimerFires(p) \/ PingTimerFires(p) \/ BreakTimerFires(p)

Next == AppCall \/ (\E p \in Nodes : Work(p) \/ Timers(p) \/ Restart(p))

Spec == Init /\ [][Next]_vars

\* Each task and each timer of an ECU is served by its scheduler again and again.
Fairness ==
    \A p \in Nodes :
        /\ WF_vars(StartTx(p))
        /\ WF_vars(\E outcome \in {Clean} \cup Faulty : Transmit(p, outcome))
        /\ WF_vars(\E outcome \in {Clean} \cup Faulty : TransmitUnconfirmed(p, outcome))
        /\ WF_vars(Confirm(p))
        /\ WF_vars(Receive(p))
        /\ WF_vars(BreakSeen(p)) /\ WF_vars(NodeToBeWokenUp(p))
        /\ WF_vars(ConMsgTimerFires(p)) /\ WF_vars(MsgTimerFires(p))
        /\ WF_vars(PingTimerFires(p)) /\ WF_vars(BreakTimerFires(p))

FairSpec == Spec /\ Fairness

-----------------------------------------------------------------------------
(* Properties: safety for every schedule and fault.                        *)

\* Every variable holds a value of its kind; in particular no retry counter of
\* an instance passes the limit the code compares it with, and no DBal frame is
\* appended to a full TransmitBuffer.
TypeOK ==
    /\ inst \in [Nodes -> Instance]
    /\ dll \in [Nodes -> Dll]
    /\ inbox \in [Nodes -> Seq(Frame)]
    /\ \A p \in Nodes : Len(inbox[p]) <= RxBuffers
    /\ brk \in [Nodes -> BOOLEAN]
    /\ wakeup \in [Nodes -> BOOLEAN]
    /\ sent \subseteq EventId
    /\ delivered \subseteq EventId
    /\ acked \subseteq EventId
    /\ faults \in 0 .. MaxFaults
    /\ restarts \in 0 .. MaxRestarts
    /\ calls \in 0 .. MaxCalls

\* What the application may rely on: READY is reported exactly while the
\* connection is up or being closed (DBAL_getCommState against the state
\* machine), and the last callback never contradicts it.
CommStateCoherent ==
    \A p \in Nodes :
        /\ inst[p].commState = "READY" <=> inst[p].conState \in {"CONNECTED", "DISCONNECTING"}
        /\ inst[p].told = "READY" <=> inst[p].commState = "READY"

\* An event in the repeat queue is never forgotten: MsgTimer runs for it through
\* every repetition, rejected repetition, disconnection and reconnection
\* (DBAL_saveMsg2Repeat, DBAL_msgTimerAction, DBAL_organizeMsgs2Repeat).
OutstandingEventIsTimed ==
    \A p \in Nodes : inst[p].rep # NoEvent => inst[p].msgTimer

\* Only the client of an open connection has its ping timer running, so that no
\* timer of an earlier connection can close the next one or ping a closed one
\* (DBALCR_triggerPingReqTimer, DBALCR_stopPingReqTimer).
PingOnlyWhenReady ==
    \A p \in Nodes : inst[p].pingOn => inst[p].client /\ inst[p].commState = "READY"

Quiet ==
    /\ LinkIdle
    /\ \A p \in Nodes : /\ inst[p].conTimer = "off" /\ ~inst[p].msgTimer
                         /\ ~inst[p].pingOn /\ ~inst[p].breakOn

\* Nobody waits for an answer nobody will send: once nothing is under way and no
\* timer runs, no ECU is left within an enable or disable handshake.
QuietMeansSettled ==
    Quiet => \A p \in Nodes : inst[p].conState \in {"CONNECTED", "DISCONNECTED"}

-----------------------------------------------------------------------------
(* Properties of an undisturbed link.                                      *)

\* Both ends agree on whether the link is open once nothing is under way.
Agreement == Quiet => inst["client"].commState = inst["server"].commState

\* The sequence ids of an open link stay in step: the server's next frame will
\* not be ignored by the client (DBAL_isReceivedReqRespMsg2BeIgnored).
SequenceInStep ==
    LinkIdle /\ IsOpen(inst["client"]) /\ IsOpen(inst["server"])
        => ~IsIgnored(inst["client"], (inst["server"].seqSend + 1) % SeqMod)

-----------------------------------------------------------------------------
(* Liveness.                                                               *)

\* Every handshake ends, with the connection open or closed.
HandshakeEnds ==
    \A p \in Nodes : \A s \in {"CONNECTING", "DISCONNECTING"} :
        inst[p].conState = s ~> inst[p].conState # s

\* Pinging detects a server that restarted or closed the link alone: the client
\* does not stay READY for ever towards a server that is not.
ClientNotices ==
    []<>(inst["client"].commState = "READY" => inst["server"].commState = "READY")

\* A request to enable ends with both sides READY, whatever the bus does to
\* fewer frames than there are retries, if no application calls again and no
\* ECU loses its power.
EnableSucceeds ==
    [](calls + 1 >= MaxCalls /\ restarts = MaxRestarts) =>
        \A p \in Nodes :
            inst[p].conState = "CONNECTING" ~> \A q \in Nodes : inst[q].commState = "READY"

-----------------------------------------------------------------------------
(* Abstract specifications.                                                *)

Phase == [p \in Nodes |-> inst[p].conState]
Sessions == INSTANCE Handshake WITH Peers <- Nodes, phase <- Phase

\* On a link without faults, whose applications wait for each other, the
\* connection state machines implement the two-sided handshake, and every request
\* is answered.
ImplementsHandshake == Sessions!Spec /\ Sessions!Answered
Events == INSTANCE EventChannel WITH
    Events <- EventId, None <- NoEvent, pending <- inst["server"].rep

\* The repeat queue and the acknowledges implement a channel that loses no event
\* behind an acknowledge, never acknowledges an event nobody got, and gives up in
\* the end.
ImplementsEventChannel == Events!Spec /\ Events!Resolved
=============================================================================
