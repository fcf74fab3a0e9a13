-------------------------- MODULE CrossConnections --------------------------
(***************************************************************************)
(* The cross connections of one ECU share a connection and a response      *)
(* frame of the bus access layer, each with a pointer to the instance that *)
(* uses it, and the two queues of BshDBus2AppLayer_crossQueue.c hold the   *)
(* instances that wait.  Every instance runs the functions of DbalInstance *)
(* as a server without pings; its partner answers requests, acknowledges   *)
(* events and may ask for the connection itself.                           *)
(*                                                                         *)
(* The fields conInst, conFlag, rrInst and rrFlag of an instance are only  *)
(* used within a call, for what the call sees and asks of the frames.      *)
(***************************************************************************)
EXTENDS DbalInstance, FiniteSetsExt

CONSTANTS
    Count,      \* DBAL_CROSS_CONNECT_COUNT
    MaxFaults,  \* bound: frames, answers and acknowledges that are lost, and breaks
    MaxCalls    \* bound: calls of the application and of the partners

ASSUME CrossAssumption ==
    /\ Count \in Nat /\ Count > 1
    /\ MaxFaults \in Nat /\ MaxCalls \in Nat

Cross == 1 .. Count
NoInstance == 0

VARIABLES
    inst,       \* the instances
    con, rr,    \* the shared frames
    frame,      \* what the link layer sends
    asked,      \* asked[i]: the request the partner of i got and has not answered
    unacked,    \* unacked[i]: the events it got and has not acknowledged
    faults, calls,
    astray      \* the pointer of the connection frame went astray: it stayed with an
                \* instance whose wait for recovery was cut short, or it was moved on
                \* twice (a history variable, not part of the code)

partners == <<asked, unacked>>
vars == <<inst, con, rr, frame, partners, faults, calls, astray>>

Channel ==
    [user   : Cross \cup {NoInstance},  \* DBALCR_ConInst, DBALCR_ReqRespInst
     flag   : BOOLEAN,                  \* the transmit flag of the bus access layer
     target : Cross \cup {NoInstance},  \* ucTargetAddress of the transmit object
     queue  : Seq(Cross)]               \* DBALCQ_ConnectMsgs, DBALCQ_ReqRespMsgs

NewChannel == [user |-> NoInstance, flag |-> FALSE, target |-> NoInstance, queue |-> <<>>]
Waiting(c) == {c.queue[k] : k \in 1 .. Len(c.queue)}

\* The buffer of the link layer, which keeps the bytes of the last frame.
Frame == [busy : BOOLEAN, ch : {"none", "con", "rr"}, to : Cross \cup {NoInstance},
          msg : ConMsg \cup {"none"}, evts : SUBSET EventId]
NoFrame == [busy |-> FALSE, ch |-> "none", to |-> NoInstance, msg |-> "none", evts |-> {}]
Sends(ch) == frame.busy /\ frame.ch = ch
Request == {"ENABLE_REQUEST", "DISABLE_REQUEST"}

Init ==
    /\ inst = [i \in Cross |-> NewInstance(FALSE, FALSE)]
    /\ con = NewChannel /\ rr = NewChannel /\ frame = NoFrame
    /\ asked = [i \in Cross |-> "none"] /\ unacked = [i \in Cross |-> {}]
    /\ faults = MaxFaults /\ calls = MaxCalls /\ astray = FALSE

-----------------------------------------------------------------------------
(* The frames and their queues.                                            *)

\* Mutant of Enqueue: an instance that waits is queued again.
EnqueueAgain(c, i) == IF Len(c.queue) = Count THEN c ELSE [c EXCEPT !.queue = Append(@, i)]

\* DBALCQ_queueConnectMsg, DBALCQ_queueReqRespMsg.
Enqueue(c, i) ==
    IF i \in Waiting(c) \/ Len(c.queue) = Count THEN c
    ELSE [c EXCEPT !.queue = Append(@, i)]

\* DBAL_prepareTxEntry and BAL_vTransmitMessage.
Use(c, i) == [c EXCEPT !.user = i, !.flag = TRUE, !.target = i]

\* Mutant of Ask: a frame in use is left alone, the instance is not queued.
AskOnly(c, i) == IF c.user \in {NoInstance, i} THEN Use(c, i) ELSE c

\* DBAL_setCrMsgPtrs: the frame is used if it is free or in use by the same instance.
Ask(c, i) == IF c.user \in {NoInstance, i} THEN Use(c, i) ELSE Enqueue(c, i)

\* Mutant of NextCon: the next instance's message is not flagged.
NextConUnflagged(c) ==
    IF c.queue = <<>> THEN [c EXCEPT !.user = NoInstance]
    ELSE [c EXCEPT !.queue = Tail(@), !.user = Head(c.queue), !.target = Head(c.queue)]

\* DBALCQ_getConnectMsg and DBALCR_triggerNextConnectMsgInstanceTx of the user.
NextCon(c) ==
    IF c.queue = <<>> THEN [c EXCEPT !.user = NoInstance]
    ELSE Use([c EXCEPT !.queue = Tail(@)], Head(c.queue))

\* DBALCQ_getReqRespMsg and DBALCR_triggerNextReqRespMsgInstanceTx of the user:
\* instances whose connection is not open lose their place.
NextRr(c) ==
    LET open == {k \in 1 .. Len(c.queue) : IsOpen(inst[c.queue[k]])}
        k == Min(open)
    IN  IF open = {} THEN [c EXCEPT !.user = NoInstance, !.queue = <<>>]
        ELSE Use([c EXCEPT !.queue = SubSeq(@, k + 1, Len(@))], c.queue[k])

\* A call of instance i, whose result is n, ends its wait for recovery.
CutShort(i, n) == inst[i].conTimer = "recovery" /\ n.conTimer = "off"

\* What is left of n in the instance.  A response that has to wait for the frame is
\* not given its full number of attempts.
Left(i, n) ==
    LET m == [n EXCEPT !.conInst = FALSE, !.conFlag = FALSE, !.rrInst = FALSE, !.rrFlag = FALSE]
    IN  IF n.rrInst /\ rr.user \notin {NoInstance, i} THEN [m EXCEPT !.retryRr = inst[i].retryRr] ELSE m

\* What instance i sees of the frames when a function is called, and what the
\* function, whose result is n, asked of them.
Seen(i) == [inst[i] EXCEPT !.conInst = con.user = i, !.rrFlag = rr.flag]
Called(i, n) ==
    /\ inst' = [inst EXCEPT ![i] = Left(i, n)]
    /\ con' = IF n.conFlag THEN Ask(con, i) ELSE con
    /\ rr' = IF n.rrInst THEN Ask(rr, i) ELSE rr
    /\ astray' = (astray \/ (CutShort(i, n) /\ ~n.conFlag))

-----------------------------------------------------------------------------
(* The application, the partners and the timers.                           *)

Call == calls > 0 /\ calls' = calls - 1
Fault == faults > 0 /\ faults' = faults - 1

Enable(i) ==
    /\ Call /\ inst[i].commState = "NOT_READY" /\ inst[i].conState = "DISCONNECTED"
    /\ Called(i, [ConnectionSm(Seen(i), "ENABLE") EXCEPT !.told = "asked"])
    /\ UNCHANGED <<frame, partners, faults>>

Disable(i) ==
    /\ Call /\ IsOpen(inst[i])
    /\ Called(i, ConnectionSm(Seen(i), "DISABLE"))
    /\ UNCHANGED <<frame, partners, faults>>

Send(i, e) ==
    /\ Call /\ ~DisablePending(inst[i]) /\ inst[i].commState = "READY"
    /\ Called(i, SendEvent(Seen(i), e, 0))
    /\ UNCHANGED <<frame, partners, faults>>

\* A partner answers before it asks for something itself.
PartnerAsks(i, m) ==
    /\ Call /\ asked[i] = "none" /\ Called(i, HandleConMsg(Seen(i), m))
    /\ UNCHANGED <<frame, partners, faults>>

Answer == [m \in Request |-> IF m = "ENABLE_REQUEST" THEN "ENABLE_RESPONSE" ELSE "DISABLE_RESPONSE"]

PartnerAnswers(i) ==
    /\ asked[i] # "none" /\ asked' = [asked EXCEPT ![i] = "none"]
    /\ \/ Called(i, HandleConMsg(Seen(i), Answer[asked[i]])) /\ UNCHANGED faults
       \/ Fault /\ UNCHANGED <<inst, con, rr, astray>>
    /\ UNCHANGED <<frame, unacked, calls>>

\* The partner's sequence ids are in step; a frame that is ignored is dropped.
PartnerAcks(i) ==
    /\ unacked[i] # {} /\ unacked' = [unacked EXCEPT ![i] = {}]
    /\ \/ /\ LET s == (inst[i].seqRecv + 1) % SeqMod
             IN  \E e \in unacked[i] :
                     Called(i, IF IsIgnored(inst[i], s) THEN Seen(i)
                               ELSE ReceiveAcks(Seen(i), s, <<e>>))
          /\ UNCHANGED faults
       \/ Fault /\ UNCHANGED <<inst, con, rr, astray>>
    /\ UNCHANGED <<frame, asked, calls>>

\* DBAL_conMsgTimerCallback; an answer takes less time than the timer.
ConMsgTimerFires(i) ==
    /\ inst[i].conTimer # "off" /\ asked[i] = "none"
    /\ Called(i, SendCon([Seen(i) EXCEPT !.conTimer = "off"], inst[i].conBuf))
    /\ UNCHANGED <<frame, partners, faults, calls>>

\* DBAL_msgTimerCallback, also while the instance still waits for the frame.
MsgTimerFires(i) ==
    /\ inst[i].msgTimer
    /\ Called(i, MsgTimerAction([Seen(i) EXCEPT !.msgTimer = FALSE]))
    /\ UNCHANGED <<frame, partners, faults, calls>>

\* DBAL_breakProcessTimerCallback, after a wakeup break of another ECU.
BreakTimerFires(i) ==
    /\ Fault
    /\ inst[i].commState = "NOT_READY" \/ inst[i].conState = "DISCONNECTING"
    /\ Called(i, ToDisconnected(Seen(i)))
    /\ UNCHANGED <<frame, partners, calls>>

-----------------------------------------------------------------------------
(* Transmission.                                                           *)

\* What the transmit functions write; without an instance they write nothing, and
\* the bytes of the last frame go out, which read as anything if it was another.
ConContents ==
    CASE con.user # NoInstance -> {inst[con.user].conBuf}
      [] con.user = NoInstance /\ frame.ch = "con" -> {frame.msg}
      [] OTHER -> ConMsg \cup {"none"}
RrContents ==
    CASE rr.user # NoInstance -> {{inst[rr.user].tx[k] : k \in 1 .. Len(inst[rr.user].tx)}}
      [] rr.user = NoInstance /\ frame.ch = "rr" -> {frame.evts}
      [] OTHER -> SUBSET EventId

\* BAL_HandleTask: the connection frame has the lower index.
TakeCon ==
    /\ ~frame.busy /\ con.flag
    /\ con' = [con EXCEPT !.flag = FALSE]
    /\ \E m \in ConContents : frame' = [busy |-> TRUE, ch |-> "con", to |-> con.target,
                                        msg |-> m, evts |-> {}]
    /\ UNCHANGED <<inst, rr, partners, faults, calls, astray>>

TakeRr ==
    /\ ~frame.busy /\ rr.flag /\ ~con.flag
    /\ rr' = [rr EXCEPT !.flag = FALSE]
    /\ \E e \in RrContents : frame' = [busy |-> TRUE, ch |-> "rr", to |-> rr.target,
                                       msg |-> "none", evts |-> e]
    /\ UNCHANGED <<inst, con, partners, faults, calls, astray>>

\* The frame reached the partner.
Delivered ==
    /\ asked' = IF frame.msg \in Request THEN [asked EXCEPT ![frame.to] = frame.msg] ELSE asked
    /\ unacked' = [unacked EXCEPT ![frame.to] = @ \cup frame.evts]

Outcome == {"ok", "noack", "nak"}
OnBus(status) ==
    \/ status = "ok" /\ Delivered /\ UNCHANGED faults
    \/ status # "ok" /\ Fault /\ UNCHANGED partners
    \/ status = "noack" /\ Fault /\ Delivered  \* only the acknowledge is lost

\* DbalTransmitCrPost_appLayerConnection: when the last repetition goes unanswered
\* DBAL_handleConMsgTxFail has moved the pointer on, and it is moved again.
ConPosted ==
    IF con.user = NoInstance \/ con.flag THEN UNCHANGED <<inst, con, astray>>
    ELSE LET n == PostRepeatTrigger(Seen(con.user))
         IN  /\ inst' = [inst EXCEPT ![con.user] = [n EXCEPT !.conInst = FALSE, !.rrFlag = FALSE]]
             /\ con' = IF n.conInst THEN NextCon(con) ELSE NextCon(NextCon(con))
             /\ astray' = (astray \/ (~n.conInst /\ con.queue # <<>>))

\* DBAL_nonDeliverableMessage: the instance is found by the target address.
ConFailed(status) ==
    LET i == con.target
        n == ConNonDeliverable([Seen(i) EXCEPT !.conInst = TRUE], status)
    IN  /\ inst' = [inst EXCEPT ![i] = [n EXCEPT !.conInst = FALSE, !.conFlag = FALSE,
                                                 !.rrFlag = FALSE]]
        /\ con' = CASE n.conFlag -> [con EXCEPT !.flag = TRUE]
                    [] ~n.conInst /\ con.user = i -> NextCon(con)
                    [] OTHER -> con
        /\ UNCHANGED astray

ConfirmCon(status) ==
    /\ Sends("con") /\ frame' = [frame EXCEPT !.busy = FALSE] /\ OnBus(status)
    /\ IF status = "ok" THEN ConPosted ELSE ConFailed(status)
    /\ UNCHANGED <<rr, calls>>

\* DBALCR_reqRespTxPostAction.
RrPosted ==
    /\ IF rr.user = NoInstance \/ rr.flag THEN UNCHANGED <<inst, rr>>
       ELSE inst' = [inst EXCEPT ![rr.user] = ClearTx(@)] /\ rr' = NextRr(rr)
    /\ UNCHANGED astray

RrFailed(status) ==
    LET i == rr.target
        n == RrNonDeliverable([inst[i] EXCEPT !.rrInst = TRUE], status)
    IN  /\ inst' = [inst EXCEPT ![i] = [n EXCEPT !.rrInst = FALSE, !.rrFlag = FALSE]]
        /\ rr' = CASE n.rrFlag -> [rr EXCEPT !.flag = TRUE]
                   [] ~n.rrInst /\ rr.user = i -> NextRr(rr)
                   [] OTHER -> rr
        /\ astray' = (astray \/ CutShort(i, n))

ConfirmRr(status) ==
    /\ Sends("rr") /\ frame' = [frame EXCEPT !.busy = FALSE] /\ OnBus(status)
    /\ IF status = "ok" THEN RrPosted ELSE RrFailed(status)
    /\ UNCHANGED <<con, calls>>

-----------------------------------------------------------------------------
Application(i) == Enable(i) \/ Disable(i) \/ \E e \in EventId : Send(i, e)
Partners(i) == (\E m \in Request : PartnerAsks(i, m)) \/ PartnerAnswers(i) \/ PartnerAcks(i)
Timers(i) == ConMsgTimerFires(i) \/ MsgTimerFires(i) \/ BreakTimerFires(i)
Bus == TakeCon \/ TakeRr \/ \E s \in Outcome : ConfirmCon(s) \/ ConfirmRr(s)

Next == Bus \/ \E i \in Cross : Application(i) \/ Partners(i) \/ Timers(i)

Spec == Init /\ [][Next]_vars

\* The bus, the timers and the partners go on.
FairSpec ==
    /\ Spec /\ WF_vars(Bus)
    /\ \A i \in Cross : /\ WF_vars(PartnerAnswers(i)) /\ WF_vars(PartnerAcks(i))
                        /\ WF_vars(ConMsgTimerFires(i)) /\ WF_vars(MsgTimerFires(i))

-----------------------------------------------------------------------------
(* Properties.                                                             *)

TypeOK ==
    /\ inst \in [Cross -> Instance]
    /\ con \in Channel /\ rr \in Channel /\ frame \in Frame
    /\ asked \in [Cross -> Request \cup {"none"}] /\ unacked \in [Cross -> SUBSET EventId]
    /\ faults \in 0 .. MaxFaults /\ calls \in 0 .. MaxCalls
    /\ astray \in BOOLEAN

\* An instance waits in one place only, no place of the queue is missing, and
\* nobody waits for a frame that is free: the queues never overflow.
QueueSound(c) ==
    /\ \A j, k \in 1 .. Len(c.queue) : c.queue[j] = c.queue[k] => j = k
    /\ c.user \notin Waiting(c)
    /\ c.user = NoInstance => c.queue = <<>>
QueuesSound == QueueSound(con) /\ QueueSound(rr)

\* DbalTransmitCr_appLayerConnection and its siblings find an instance.
FlagHasInstance ==
    /\ con.flag => con.user # NoInstance
    /\ rr.flag => rr.user # NoInstance

\* An instance within a handshake has its request queued, on the bus or timed.
RequestUnderWay(i) ==
    \/ inst[i].conTimer # "off" \/ i \in Waiting(con)
    \/ con.user = i /\ (con.flag \/ Sends("con"))

\* Neither an instance nor a frame of the channels is left behind by the others
\* (DBALCQ_getConnectMsg, DBALCQ_getReqRespMsg and their callers), unless an
\* answer, a break or a failing event ended the wait of a request for its
\* recovery time.
NobodyForgotten ==
    /\ rr.user # NoInstance => rr.flag \/ Sends("rr")
    /\ astray \/ con.user = NoInstance \/ RequestUnderWay(con.user)
    /\ \A i \in Cross :
           inst[i].conState \in {"CONNECTING", "DISCONNECTING"} => astray \/ RequestUnderWay(i)

\* Every handshake ends, with whatever the other instances do.
HandshakeEnds ==
    \A i \in Cross : inst[i].conState \in {"CONNECTING", "DISCONNECTING"}
                         ~> inst[i].conState \in {"CONNECTED", "DISCONNECTED"} \/ astray

\* An event is acknowledged or given up, also when its frame loses its place in
\* the queue because the connection is not open.
EventEnds == \A i \in Cross : inst[i].rep # NoEvent ~> inst[i].rep = NoEvent
=============================================================================
