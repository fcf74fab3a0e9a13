-------------------------- MODULE DbalLink_proofs --------------------------
(***************************************************************************)
(* Type correctness of the link and the invariants of its instances, for   *)
(* every number of retries, faults, calls and events and either link       *)
(* layer.  The inductive invariant says of both instances that they are    *)
(* well formed (Good); all the steps change an instance only through the   *)
(* functions of DbalInstance, which keep it so.                            *)
(* Then: the repeat queue of the server implements the event channel.      *)
(***************************************************************************)
EXTENDS DbalLink, DbalInstance_proofs

InstOK == inst \in [Nodes -> Instance] /\ \A p \in Nodes : Good(inst[p])

LinkOK ==
    /\ dll \in [Nodes -> Dll]
    /\ inbox \in [Nodes -> Seq(Frame)]
    /\ \A p \in Nodes : Len(inbox[p]) <= RxBuffers

BreaksOK == brk \in [Nodes -> BOOLEAN] /\ wakeup \in [Nodes -> BOOLEAN]

HistoryOK == sent \subseteq EventId /\ delivered \subseteq EventId /\ acked \subseteq EventId

BudgetsOK == faults \in 0 .. MaxFaults /\ restarts \in 0 .. MaxRestarts /\ calls \in 0 .. MaxCalls

IInv == InstOK /\ LinkOK /\ BreaksOK /\ HistoryOK /\ BudgetsOK

-----------------------------------------------------------------------------

LEMMA PartnerIsNode == ASSUME NEW p \in Nodes PROVE Partner(p) \in Nodes
BY DEF Nodes, Partner

\* A step that replaces one instance by a well formed one.
LEMMA InstUpdated ==
    ASSUME InstOK, NEW p \in Nodes, NEW j, Good(j), inst' = [inst EXCEPT ![p] = j]
    PROVE  InstOK'
BY DEF InstOK, Good

\* What the link layer transmits is a frame, also when no instance is set.
LEMMA StaleConIsFrame ==
    ASSUME NEW p \in Nodes, NEW b \in Frame PROVE StaleCon(p, b) \in Frame
<1>1. CASE b.ch = "rr" /\ p = "server" /\ b.seq < 6
  <2>1. b.seq \in 0 .. 5
    BY <1>1 DEF Frame, SeqId
  <2>2. ConNumber[b.seq + 1] \in ConMsg
    BY <2>1 DEF ConNumber, ConMsg
  <2> QED BY <1>1, <2>2 DEF StaleCon, Frame
<1>2. CASE ~(b.ch = "rr" /\ p = "server" /\ b.seq < 6)
  BY <1>2 DEF StaleCon, Frame
<1> QED BY <1>1, <1>2

LEMMA StaleRrIsFrame ==
    ASSUME NEW p \in Nodes, NEW b \in Frame PROVE StaleRr(p, b) \in Frame
<1>1. ASSUME b.msg # "none" PROVE NumberOf(b.msg) % SeqMod \in SeqId
  <2>1. b.msg \in ConMsg
    BY <1>1 DEF Frame
  <2>2. \E k \in 0 .. 5 : ConNumber[k + 1] = b.msg
    BY <2>1 DEF ConMsg, ConNumber
  <2>3. NumberOf(b.msg) \in 0 .. 5
    BY <2>2 DEF NumberOf
  <2> QED BY <2>3, InstanceAssumption DEF SeqId
<1> QED BY <1>1 DEF StaleRr, Frame

LEMMA ConFrameIsFrame ==
    ASSUME InstOK, LinkOK, NEW p \in Nodes PROVE ConFrame(p) \in Frame
<1>1. dll[p].buf \in Frame /\ inst[p].conBuf \in ConMsg \cup {"none"}
  BY DEF InstOK, LinkOK, Dll, Instance
<1> QED BY <1>1, StaleConIsFrame DEF ConFrame, Frame

LEMMA RrFrameIsFrame ==
    ASSUME InstOK, LinkOK, NEW p \in Nodes PROVE RrFrame(p) \in Frame
<1>1. dll[p].buf \in Frame /\ inst[p].txSeq \in SeqId /\ inst[p].tx \in Frames
  BY DEF InstOK, LinkOK, Dll, Instance
<1> QED BY <1>1, StaleRrIsFrame DEF RrFrame, Frame

\* A step that takes at most one application call, bus fault or power failure.
LEMMA BudgetSpent ==
    \A max \in Nat : \A n \in 0 .. max : n > 0 => n - 1 \in 0 .. max
OBVIOUS

-----------------------------------------------------------------------------
(* The inductive invariant, action by action.                              *)

LEMMA InitIInv == Init => IInv
<1> SUFFICES ASSUME Init PROVE IInv
  OBVIOUS
<1>1. \A p \in Nodes : Good(NewInstance(p = "client", Pings))
  BY NewInstanceGood, LinkAssumption
<1>2. InstOK
  BY <1>1 DEF Init, InstOK, Good
<1>3. NewDll \in Dll
  BY Values, Enumerated DEF NewDll, Dll, Frame, Channel, Status
<1>4. LinkOK
  BY <1>3, LinkAssumption DEF Init, LinkOK
<1>5. BreaksOK /\ HistoryOK /\ BudgetsOK
  BY LinkAssumption DEF Init, BreaksOK, HistoryOK, BudgetsOK
<1> QED BY <1>2, <1>4, <1>5 DEF IInv

LEMMA EnableIInv == ASSUME IInv, NEW p \in Nodes, Enable(p) PROVE IInv'
<1> DEFINE i == ConnectionSm(inst[p], "ENABLE")
           j == [i EXCEPT !.told = "asked"]
<1>1. inst[p].conState = "DISCONNECTED" /\ inst[p].commState = "NOT_READY" /\ Good(inst[p])
  BY DEF Enable, IInv, InstOK
<1>2. Good(i)
  BY <1>1, ConnectionSmGood
<1>3. i.conState = "CONNECTING"
  <2> DEFINE k == [inst[p] EXCEPT !.conState = "CONNECTING"]
  <2>1. k \in Instance /\ k.conState = "CONNECTING"
    BY <1>1, Enumerated, Zenon DEF Good, Instance
  <2>2. SendCon(k, "ENABLE_REQUEST").conState = k.conState
    BY <2>1, SMT DEF SendCon, Instance
  <2>3. i = SendCon(k, "ENABLE_REQUEST")
    BY <1>1, Zenon DEF ConnectionSm, InDisconnected
  <2> QED BY <2>1, <2>2, <2>3
<1>4. j \in Instance
  BY <1>2, Enumerated, Zenon DEF Good, Instance
<1>5. Sound(j)
  BY <1>2, <1>3, SMT DEF Good, Sound, Coherent, Timed, Pinging, Instance
<1>6. InstOK'
  BY <1>4, <1>5, InstUpdated DEF Enable, IInv, Good
<1>7. LinkOK' /\ BreaksOK' /\ HistoryOK'
  BY DEF Enable, IInv, LinkOK, BreaksOK, HistoryOK
<1>8. BudgetsOK'
  BY LinkAssumption, BudgetSpent DEF Enable, Call, IInv, BudgetsOK
<1> QED BY <1>6, <1>7, <1>8 DEF IInv

LEMMA DisableIInv == ASSUME IInv, NEW p \in Nodes, Disable(p) PROVE IInv'
<1>1. Good(ConnectionSm(inst[p], "DISABLE"))
  BY ConnectionSmGood DEF IInv, InstOK
<1>2. InstOK'
  BY <1>1, InstUpdated DEF Disable, IInv
<1>3. LinkOK' /\ BreaksOK' /\ HistoryOK'
  BY DEF Disable, IInv, LinkOK, BreaksOK, HistoryOK
<1>4. BudgetsOK'
  BY LinkAssumption, BudgetSpent DEF Disable, Call, IInv, BudgetsOK
<1> QED BY <1>2, <1>3, <1>4 DEF IInv

LEMMA SendIInv == ASSUME IInv, NEW e \in EventId, Send(e) PROVE IInv'
<1>1. "server" \in Nodes
  BY DEF Nodes
<1>2. Good(SendEvent(inst["server"], e, 0))
  BY <1>1, SendEventGood DEF IInv, InstOK
<1>3. InstOK'
  BY <1>1, <1>2, InstUpdated DEF Send, IInv
<1>4. LinkOK' /\ BreaksOK' /\ HistoryOK'
  BY DEF Send, IInv, LinkOK, BreaksOK, HistoryOK
<1>5. BudgetsOK'
  BY LinkAssumption, BudgetSpent DEF Send, Call, IInv, BudgetsOK
<1> QED BY <1>3, <1>4, <1>5 DEF IInv

LEMMA StartTxIInv == ASSUME IInv, NEW p \in Nodes, StartTx(p) PROVE IInv'
<1> DEFINE c == [inst[p] EXCEPT !.conFlag = FALSE]
           r == [inst[p] EXCEPT !.rrFlag = FALSE]
<1>1. Good(c) /\ Good(r)
  BY FlagsGood DEF IInv, InstOK
<1>2. inst' = [inst EXCEPT ![p] = c] \/ inst' = [inst EXCEPT ![p] = r]
  BY Zenon DEF StartTx
<1>3. InstOK'
  BY <1>1, <1>2, InstUpdated DEF IInv
<1>4. ConFrame(p) \in Frame /\ RrFrame(p) \in Frame
  BY ConFrameIsFrame, RrFrameIsFrame DEF IInv
<1>5. LinkOK'
  <2> DEFINE d(x, f) == [stage |-> "loaded", idx |-> x, status |-> "ok", buf |-> f]
  <2>1. d("con", ConFrame(p)) \in Dll /\ d("rr", RrFrame(p)) \in Dll
    BY <1>4 DEF Dll, Channel, Status
  <2>2. dll' = [dll EXCEPT ![p] = d("con", ConFrame(p))] \/ dll' = [dll EXCEPT ![p] = d("rr", RrFrame(p))]
    BY Zenon DEF StartTx
  <2>3. dll' \in [Nodes -> Dll]
    BY <2>1, <2>2, Zenon DEF IInv, LinkOK
  <2> QED BY <2>3 DEF StartTx, IInv, LinkOK
<1>6. BreaksOK' /\ HistoryOK' /\ BudgetsOK'
  BY DEF StartTx, IInv, BreaksOK, HistoryOK, BudgetsOK
<1> QED BY <1>3, <1>5, <1>6 DEF IInv

\* A confirmation keeps the instance well formed, whatever it reports.
LEMMA ConfirmedGood ==
    ASSUME NEW i, Good(i), NEW x \in Channel, NEW s PROVE Good(Confirmed(i, x, s))
BY ConPostGood, RrPostGood, ConNonDeliverableGood, RrNonDeliverableGood DEF Confirmed, Channel

LEMMA ConfirmToOK ==
    ASSUME IInv, NEW p \in Nodes, NEW x \in Channel, NEW s, ConfirmTo(p, x, s)
    PROVE  InstOK' /\ brk' \in [Nodes -> BOOLEAN]
<1>1. Good(Confirmed(inst[p], x, s))
  BY ConfirmedGood DEF IInv, InstOK
<1>2. InstOK'
  BY <1>1, InstUpdated DEF ConfirmTo, IInv
<1>3. brk' \in [Nodes -> BOOLEAN]
  BY PartnerIsNode, Zenon DEF ConfirmTo, IInv, BreaksOK
<1> QED BY <1>2, <1>3

\* The bus puts frames into the partner's inbox, no more than it can hold.
LEMMA OnBusOK ==
    ASSUME IInv, NEW p \in Nodes, NEW o, OnBus(p, o)
    PROVE  /\ inbox' \in [Nodes -> Seq(Frame)]
           /\ \A q \in Nodes : Len(inbox'[q]) <= RxBuffers
           /\ faults' \in 0 .. MaxFaults
           /\ o[2] \in Status
<1> DEFINE q == Partner(p)
           more == [k \in 1 .. o[1] |-> dll[p].buf]
<1>1. o[1] \in Nat /\ o[2] \in Status
  BY DEF OnBus, Clean, Faulty, Status
<1>2. q \in Nodes
  BY PartnerIsNode
<1>3. dll[p].buf \in Frame
  BY DEF IInv, LinkOK, Dll
<1>4. more \in Seq(Frame) /\ Len(more) = o[1]
  BY <1>1, <1>3
<1>5. inbox[q] \in Seq(Frame) /\ inbox' = [inbox EXCEPT ![q] = inbox[q] \o more]
  BY <1>2, Zenon DEF OnBus, IInv, LinkOK
<1> HIDE DEF more, q
<1>6. inbox[q] \o more \in Seq(Frame) /\ Len(inbox[q] \o more) = Len(inbox[q]) + o[1]
  BY <1>4, <1>5
<1>7. Len(inbox[q]) + o[1] <= RxBuffers
  BY DEF OnBus, q
<1>8. inbox' \in [Nodes -> Seq(Frame)] /\ \A n \in Nodes : Len(inbox'[n]) <= RxBuffers
  BY <1>2, <1>5, <1>6, <1>7 DEF IInv, LinkOK
<1>9. faults' \in 0 .. MaxFaults
  BY LinkAssumption, BudgetSpent DEF OnBus, IInv, BudgetsOK
<1> QED BY <1>1, <1>8, <1>9

\* A step of the link layer's own state machine.
LEMMA StageUpdated ==
    ASSUME LinkOK, NEW p \in Nodes, NEW s \in {"idle", "loaded", "sent"}, NEW t \in Status
    PROVE  /\ [dll EXCEPT ![p].stage = s] \in [Nodes -> Dll]
           /\ [dll EXCEPT ![p].stage = s, ![p].status = t] \in [Nodes -> Dll]
BY DEF LinkOK, Dll

LEMMA TransmitIInv == ASSUME IInv, NEW p \in Nodes, NEW o, Transmit(p, o) PROVE IInv'
<1>1. dll[p].idx \in Channel
  BY DEF IInv, LinkOK, Dll
<1>2. InstOK' /\ BreaksOK'
  BY <1>1, ConfirmToOK DEF Transmit, IInv, BreaksOK
<1>3. dll' \in [Nodes -> Dll]
  BY StageUpdated DEF Transmit, IInv, Status
<1>4. LinkOK'
  BY <1>3, OnBusOK DEF Transmit, LinkOK
<1>5. HistoryOK' /\ BudgetsOK'
  BY OnBusOK DEF Transmit, IInv, HistoryOK, BudgetsOK
<1> QED BY <1>2, <1>4, <1>5 DEF IInv

LEMMA TransmitUnconfirmedIInv ==
    ASSUME IInv, NEW p \in Nodes, NEW o, TransmitUnconfirmed(p, o) PROVE IInv'
<1>1. o[2] \in Status
  BY OnBusOK DEF TransmitUnconfirmed
<1>2. dll' \in [Nodes -> Dll]
  BY <1>1, StageUpdated DEF TransmitUnconfirmed, IInv
<1>3. LinkOK'
  BY <1>2, OnBusOK DEF TransmitUnconfirmed, LinkOK
<1>4. InstOK'
  BY DEF TransmitUnconfirmed, IInv, InstOK
<1>5. BreaksOK' /\ HistoryOK' /\ BudgetsOK'
  BY OnBusOK DEF TransmitUnconfirmed, IInv, BreaksOK, HistoryOK, BudgetsOK
<1> QED BY <1>3, <1>4, <1>5 DEF IInv

LEMMA ConfirmIInv == ASSUME IInv, NEW p \in Nodes, Confirm(p) PROVE IInv'
<1>1. dll[p].idx \in Channel
  BY DEF IInv, LinkOK, Dll
<1>2. InstOK' /\ BreaksOK'
  BY <1>1, ConfirmToOK DEF Confirm, IInv, BreaksOK
<1>3. dll' \in [Nodes -> Dll]
  BY StageUpdated DEF Confirm, IInv, Status
<1>4. LinkOK' /\ HistoryOK' /\ BudgetsOK'
  BY <1>3 DEF Confirm, IInv, LinkOK, HistoryOK, BudgetsOK
<1> QED BY <1>2, <1>4 DEF IInv

\* A received frame keeps the instance well formed.
LEMMA ReceivedGood ==
    ASSUME NEW p, NEW i, Good(i), NEW f \in Frame PROVE Good(Received(p, i, f))
<1>1. f.seq \in SeqId /\ f.evts \in Frames
  BY DEF Frame
<1>2. CASE f.ch = "con"
  BY <1>2, HandleConMsgGood DEF Received
<1>3. CASE f.ch = "rr" /\ ~IsIgnored(i, f.seq) /\ p = "server"
  BY <1>1, <1>3, ReceiveAcksGood DEF Received
<1>4. CASE f.ch = "rr" /\ ~IsIgnored(i, f.seq) /\ p = "client"
  BY <1>1, <1>4, ReceiveEventsGood DEF Received
<1>5. CASE /\ f.ch # "con"
           /\ ~(f.ch = "rr" /\ ~IsIgnored(i, f.seq) /\ p = "server")
           /\ ~(f.ch = "rr" /\ ~IsIgnored(i, f.seq) /\ p = "client")
  BY <1>5, Zenon DEF Received
<1> QED BY <1>2, <1>3, <1>4, <1>5

LEMMA ReceiveIInv == ASSUME IInv, NEW p \in Nodes, Receive(p) PROVE IInv'
<1> DEFINE f == Head(inbox[p])
<1>1. inbox[p] \in Seq(Frame) /\ inbox[p] # <<>> /\ inbox' = [inbox EXCEPT ![p] = Tail(@)]
  BY DEF Receive, IInv, LinkOK
<1>2. f \in Frame /\ Tail(inbox[p]) \in Seq(Frame) /\ Len(Tail(inbox[p])) <= Len(inbox[p])
  BY <1>1
<1>3. Good(Received(p, inst[p], f))
  BY <1>2, ReceivedGood DEF IInv, InstOK
<1>4. inst' = [inst EXCEPT ![p] = Received(p, inst[p], f)]
  BY Zenon DEF Receive
<1>5. InstOK'
  BY <1>3, <1>4, InstUpdated DEF IInv
<1>6. LinkOK'
  <2>1. inbox' \in [Nodes -> Seq(Frame)] /\ dll' = dll
    BY <1>1, <1>2 DEF Receive, IInv, LinkOK
  <2>2. \A q \in Nodes : Len(inbox'[q]) <= RxBuffers
    BY <1>1, <1>2, LinkAssumption DEF IInv, LinkOK
  <2> QED BY <2>1, <2>2 DEF IInv, LinkOK
<1>7. HistoryOK'
  <2>1. {f.evts[k] : k \in 1 .. Len(f.evts)} \subseteq EventId
    BY <1>2 DEF Frame, Frames
  <2>2. inst[p].rep # NoEvent => inst[p].rep \in EventId
    BY DEF IInv, InstOK, Instance
  <2>3. sent' = sent /\ (acked' = acked \/ (acked' = acked \cup {inst[p].rep} /\ inst[p].rep # NoEvent))
    <3> DEFINE taken == f.ch = "rr" /\ ~IsIgnored(inst[p], f.seq)
               freed == taken /\ p = "server" /\ inst[p].rep # NoEvent /\ inst'[p].rep = NoEvent
    <3>1. acked' = IF freed THEN acked \cup {inst[p].rep} ELSE acked
      BY Zenon DEF Receive
    <3>2. freed => inst[p].rep # NoEvent
      OBVIOUS
    <3>3. sent' = sent
      BY DEF Receive
    <3> HIDE DEF freed
    <3> QED BY <3>1, <3>2, <3>3
  <2>4. delivered' = delivered \/ delivered' = delivered \cup {f.evts[k] : k \in 1 .. Len(f.evts)}
    BY Zenon DEF Receive
  <2> QED BY <2>1, <2>2, <2>3, <2>4 DEF IInv, HistoryOK
<1>8. BreaksOK' /\ BudgetsOK'
  BY DEF Receive, IInv, BreaksOK, BudgetsOK
<1> QED BY <1>5, <1>6, <1>7, <1>8 DEF IInv

LEMMA ConMsgTimerFiresIInv == ASSUME IInv, NEW p \in Nodes, ConMsgTimerFires(p) PROVE IInv'
<1> DEFINE i == [inst[p] EXCEPT !.conTimer = "off"]
<1>1. Good(i)
  BY ConTimerGood, Enumerated DEF IInv, InstOK
<1>2. inst[p].conBuf \in ConMsg \cup {"none"}
  BY DEF IInv, InstOK, Instance
<1>3. Good(SendCon(i, inst[p].conBuf))
  <2>1. SendCon(i, inst[p].conBuf) \in Instance
    BY <1>1, <1>2, Zenon DEF Good, SendCon, Instance
  <2>2. Sound(SendCon(i, inst[p].conBuf))
    BY <1>1, SMT DEF Good, SendCon, Sound, Coherent, Timed, Pinging, Instance
  <2> QED BY <2>1, <2>2 DEF Good
<1>4. inst' = [inst EXCEPT ![p] = SendCon(i, inst[p].conBuf)]
  BY Zenon DEF ConMsgTimerFires
<1>5. InstOK'
  BY <1>3, <1>4, InstUpdated DEF IInv
<1>6. LinkOK' /\ BreaksOK' /\ HistoryOK' /\ BudgetsOK'
  BY DEF ConMsgTimerFires, IInv, LinkOK, BreaksOK, HistoryOK, BudgetsOK
<1> QED BY <1>5, <1>6 DEF IInv

LEMMA MsgTimerFiresIInv == ASSUME IInv, NEW p \in Nodes, MsgTimerFires(p) PROVE IInv'
<1> DEFINE i == [inst[p] EXCEPT !.msgTimer = FALSE]
<1>1. i \in Instance
  <2>1. inst[p] \in Instance
    BY DEF IInv, InstOK
  <2> QED BY <2>1, Zenon DEF Instance
<1>2. Coherent(i) /\ Pinging(i)
  BY SMT DEF IInv, InstOK, Good, Sound, Coherent, Pinging, Instance
<1>3. Good(MsgTimerAction(i))
  BY <1>1, <1>2, MsgTimerActionGood
<1>4. inst' = [inst EXCEPT ![p] = MsgTimerAction(i)]
  BY Zenon DEF MsgTimerFires
<1>5. InstOK'
  BY <1>3, <1>4, InstUpdated DEF IInv
<1>6. LinkOK' /\ BreaksOK' /\ HistoryOK' /\ BudgetsOK'
  BY DEF MsgTimerFires, IInv, LinkOK, BreaksOK, HistoryOK, BudgetsOK
<1> QED BY <1>5, <1>6 DEF IInv

LEMMA PingTimerFiresIInv == ASSUME IInv, NEW p \in Nodes, PingTimerFires(p) PROVE IInv'
<1> DEFINE i == [inst[p] EXCEPT !.pingOn = FALSE]
           s == SendCon(i, "PING_REQUEST")
           again == [s EXCEPT !.pingOn = TRUE, !.pingRep = s.pingRep + 1]
           next == CASE ~IsOpen(i) -> i
                     [] IsOpen(i) /\ i.pingRep <= PingMaxRepeat -> again
                     [] OTHER -> ConnectionSm(i, "DISABLE_SILENT")
<1>1. Good(inst[p]) /\ inst[p] \in Instance /\ inst[p].pingOn
  BY DEF PingTimerFires, IInv, InstOK
<1>2. i \in Instance
  BY <1>1, Zenon DEF Instance
<1>3. Sound(i) /\ (i.commState = "READY" => i.client = TRUE)
  BY <1>1, SMT DEF Good, Sound, Coherent, Timed, Pinging, Instance
<1>4. Good(i)
  BY <1>2, <1>3 DEF Good
<1>5. Good(s)
  BY <1>4, SendConGood, Enumerated
<1>6. ASSUME IsOpen(i), i.pingRep <= PingMaxRepeat PROVE Good(again)
  <2>1. s.pingRep = i.pingRep /\ s.commState = i.commState /\ s.client = i.client
    BY <1>2, SMT DEF SendCon, Instance
  <2>2. i.pingRep \in PingCount
    BY <1>2, Zenon DEF Instance
  <2>3. s.pingRep + 1 \in PingCount
    BY <1>6, <2>1, <2>2, CountUp
  <2>4. again \in Instance
    BY <1>5, <2>3, Zenon DEF Good, Instance
  <2>5. s.commState = "READY" /\ s.client = TRUE
    BY <1>3, <1>6, <2>1 DEF IsOpen
  <2>6. Sound(again)
    BY <1>5, <2>5, SMT DEF Good, Sound, Coherent, Timed, Pinging, Instance
  <2> QED BY <2>4, <2>6 DEF Good
<1>7. Good(ConnectionSm(i, "DISABLE_SILENT"))
  BY <1>4, ConnectionSmGood
<1>8. Good(next)
  BY <1>4, <1>6, <1>7
<1>9. inst' = [inst EXCEPT ![p] = next]
  BY Zenon DEF PingTimerFires
<1> HIDE DEF next
<1>10. InstOK'
  BY <1>8, <1>9, InstUpdated DEF IInv
<1>11. LinkOK' /\ BreaksOK' /\ HistoryOK' /\ BudgetsOK'
  BY DEF PingTimerFires, IInv, LinkOK, BreaksOK, HistoryOK, BudgetsOK
<1> QED BY <1>10, <1>11 DEF IInv

LEMMA BreakSeenIInv == ASSUME IInv, NEW p \in Nodes, BreakSeen(p) PROVE IInv'
<1>1. Good([inst[p] EXCEPT !.breakOn = TRUE])
  BY BreakGood DEF IInv, InstOK
<1>2. InstOK'
  BY <1>1, InstUpdated DEF BreakSeen, IInv
<1>3. BreaksOK'
  BY PartnerIsNode DEF BreakSeen, IInv, BreaksOK
<1>4. LinkOK' /\ HistoryOK'
  BY DEF BreakSeen, IInv, LinkOK, HistoryOK
<1>5. BudgetsOK'
  BY LinkAssumption, BudgetSpent DEF BreakSeen, IInv, BudgetsOK
<1> QED BY <1>2, <1>3, <1>4, <1>5 DEF IInv

LEMMA NodeToBeWokenUpIInv == ASSUME IInv, NEW p \in Nodes, NodeToBeWokenUp(p) PROVE IInv'
<1> DEFINE i == [inst[p] EXCEPT !.conTimer = "off"]
           next == IF inst[p].conTimer = "recovery" THEN SendCon(i, "ENABLE_REQUEST") ELSE inst[p]
<1>1. Good(inst[p]) /\ Good(i)
  BY ConTimerGood, Enumerated DEF IInv, InstOK
<1>2. Good(next)
  BY <1>1, SendConGood, Enumerated
<1>3. inst' = [inst EXCEPT ![p] = next]
  BY Zenon DEF NodeToBeWokenUp
<1> HIDE DEF next
<1>4. InstOK'
  BY <1>2, <1>3, InstUpdated DEF IInv
<1>5. LinkOK' /\ BreaksOK' /\ HistoryOK' /\ BudgetsOK'
  BY DEF NodeToBeWokenUp, IInv, LinkOK, BreaksOK, HistoryOK, BudgetsOK
<1> QED BY <1>4, <1>5 DEF IInv

LEMMA BreakTimerFiresIInv == ASSUME IInv, NEW p \in Nodes, BreakTimerFires(p) PROVE IInv'
<1> DEFINE i == [inst[p] EXCEPT !.breakOn = FALSE]
           next == IF i.commState = "NOT_READY" \/ i.conState = "DISCONNECTING"
                   THEN ToDisconnected(i) ELSE i
<1>1. Good(i)
  BY BreakGood DEF IInv, InstOK
<1>2. Good(next)
  BY <1>1, ToDisconnectedGood DEF Good, Sound
<1>3. inst' = [inst EXCEPT ![p] = next]
  BY Zenon DEF BreakTimerFires
<1> HIDE DEF next
<1>4. InstOK'
  BY <1>2, <1>3, InstUpdated DEF IInv
<1>5. LinkOK' /\ BreaksOK' /\ HistoryOK' /\ BudgetsOK'
  BY DEF BreakTimerFires, IInv, LinkOK, BreaksOK, HistoryOK, BudgetsOK
<1> QED BY <1>4, <1>5 DEF IInv

LEMMA RestartIInv == ASSUME IInv, NEW p \in Nodes, Restart(p) PROVE IInv'
<1>1. Good(NewInstance(p = "client", Pings))
  BY NewInstanceGood, LinkAssumption
<1>2. InstOK'
  BY <1>1, InstUpdated DEF Restart, IInv
<1>3. NewDll \in Dll
  BY Values, Enumerated DEF NewDll, Dll, Frame, Channel, Status
<1>4. LinkOK'
  BY <1>3, LinkAssumption DEF Restart, IInv, LinkOK
<1>5. BreaksOK' /\ HistoryOK'
  BY DEF Restart, IInv, BreaksOK, HistoryOK
<1>6. BudgetsOK'
  BY LinkAssumption, BudgetSpent DEF Restart, IInv, BudgetsOK
<1> QED BY <1>2, <1>4, <1>5, <1>6 DEF IInv

LEMMA NextIInv == IInv /\ [Next]_vars => IInv'
<1> SUFFICES ASSUME IInv, [Next]_vars PROVE IInv'
  OBVIOUS
<1>1. CASE \E p \in Nodes : Enable(p) \/ Disable(p)
  BY <1>1, EnableIInv, DisableIInv
<1>2. CASE \E e \in EventId : Send(e)
  BY <1>2, SendIInv
<1>3. ASSUME NEW p \in Nodes, Work(p) PROVE IInv'
  BY <1>3, StartTxIInv, TransmitIInv, TransmitUnconfirmedIInv, ConfirmIInv, ReceiveIInv,
     BreakSeenIInv, NodeToBeWokenUpIInv DEF Work
<1>4. ASSUME NEW p \in Nodes, Timers(p) PROVE IInv'
  BY <1>4, ConMsgTimerFiresIInv, MsgTimerFiresIInv, PingTimerFiresIInv, BreakTimerFiresIInv
     DEF Timers
<1>5. ASSUME NEW p \in Nodes, Restart(p) PROVE IInv'
  BY <1>5, RestartIInv
<1>6. CASE UNCHANGED vars
  BY <1>6 DEF vars, IInv, InstOK, LinkOK, BreaksOK, HistoryOK, BudgetsOK
<1> QED BY <1>1, <1>2, <1>3, <1>4, <1>5, <1>6 DEF Next, AppCall

-----------------------------------------------------------------------------
(* Theorems.                                                               *)

\* Every reachable state satisfies the inductive invariant.
THEOREM Inductive == Spec => []IInv
BY InitIInv, NextIInv, PTL DEF Spec

\* Type correctness: every retry counter stays within the limit the code
\* compares it with and TransmitBuffer is never overfilled, whatever the limits.
THEOREM TypeCorrect == Spec => []TypeOK
<1>1. IInv => TypeOK
  BY DEF IInv, TypeOK, InstOK, LinkOK, BreaksOK, HistoryOK, BudgetsOK
<1> QED BY <1>1, Inductive, PTL

\* The application's view of the connection is that of the state machine
\* (DBAL_fireCommState, DBAL_connectionSm), whatever messages, faults and
\* restarts come in whatever order.
THEOREM Coherence == Spec => []CommStateCoherent
<1>1. IInv => CommStateCoherent
  BY DEF IInv, InstOK, Good, Sound, Coherent, CommStateCoherent
<1> QED BY <1>1, Inductive, PTL

\* No event in the repeat queue is left without its timer.
THEOREM OutstandingTimed == Spec => []OutstandingEventIsTimed
<1>1. IInv => OutstandingEventIsTimed
  BY DEF IInv, InstOK, Good, Sound, Timed, OutstandingEventIsTimed
<1> QED BY <1>1, Inductive, PTL

\* The ping timer runs on an open connection of a client only.
THEOREM PingOwned == Spec => []PingOnlyWhenReady
<1>1. IInv => PingOnlyWhenReady
  BY DEF IInv, InstOK, Good, Sound, Pinging, PingOnlyWhenReady
<1> QED BY <1>1, Inductive, PTL

-----------------------------------------------------------------------------
(* The event channel.  Whatever an ECU has queued, loaded into its link     *)
(* layer or put on the bus are events its application knows: the server's   *)
(* frames carry events it submitted, the client's acknowledges events that  *)
(* were delivered.  Lost, doubled and stale frames and restarts only remove *)
(* or repeat what is on its way.                                           *)

From(p) == IF p = "server" THEN sent ELSE delivered

FramesCarry(q, S) == \A n \in 1 .. Len(q) : q[n].evts \in Seq(S)

InstCarries == \A p \in Nodes : Carries(inst[p], From(p))
LinkCarries == \A p \in Nodes : dll[p].buf.evts \in Seq(From(p))
BusCarries == \A p \in Nodes : FramesCarry(inbox[Partner(p)], From(p))
SlotKnown == inst["client"].rep = NoEvent /\ inst["server"].rep \in sent \cup {NoEvent}

EventInv == InstCarries /\ LinkCarries /\ BusCarries /\ SlotKnown

LEMMA NodesOpposite ==
    /\ "client" \in Nodes /\ "server" \in Nodes /\ "client" # "server"
    /\ \A p \in Nodes : p = "client" \/ p = "server"
    /\ Partner("client") = "server" /\ Partner("server") = "client"
BY DEF Nodes, Partner

\* What the histories hold they keep.
HistoryGrows == sent \subseteq sent' /\ delivered \subseteq delivered'

LEMMA FromGrows == ASSUME HistoryGrows, NEW p \in Nodes PROVE From(p) \subseteq From(p)'
BY DEF HistoryGrows, From

LEMMA CarriesMore ==
    ASSUME NEW S, NEW T, S \subseteq T
    PROVE  /\ \A i : Carries(i, S) => Carries(i, T)
           /\ \A q : FramesCarry(q, S) => FramesCarry(q, T)
           /\ \A s : s \in Seq(S) => s \in Seq(T)
BY SeqGrows DEF Carries, FramesCarry

\* A step that replaces one instance.
LEMMA InstReplaced ==
    ASSUME IInv, EventInv, HistoryGrows, NEW p \in Nodes, NEW j,
           inst' = [inst EXCEPT ![p] = j], Carries(j, From(p)'),
           j.rep \in {inst[p].rep, NoEvent} \/ (p = "server" /\ j.rep \in sent')
    PROVE  InstCarries' /\ SlotKnown'
<1>1. inst \in [Nodes -> Instance]
  BY DEF IInv, InstOK
<1>2. ASSUME NEW q \in Nodes PROVE Carries(inst'[q], From(q)')
  <2>1. From(q) \subseteq From(q)' BY FromGrows
  <2>2. Carries(inst[q], From(q)')
    BY <2>1, CarriesMore DEF EventInv, InstCarries
  <2> QED BY <1>1, <2>2
<1>3. SlotKnown'
  <2>1. inst'["client"].rep = IF p = "client" THEN j.rep ELSE inst["client"].rep
    BY <1>1, NodesOpposite
  <2>2. inst'["server"].rep = IF p = "server" THEN j.rep ELSE inst["server"].rep
    BY <1>1, NodesOpposite
  <2> QED BY <2>1, <2>2, NodesOpposite DEF EventInv, SlotKnown, HistoryGrows
<1> QED BY <1>2, <1>3 DEF InstCarries

\* Link layers and bus that a step leaves alone.
LEMMA LinkKept ==
    ASSUME EventInv, HistoryGrows, \A p \in Nodes : dll'[p].buf = dll[p].buf
    PROVE  LinkCarries'
BY FromGrows, CarriesMore DEF EventInv, LinkCarries

LEMMA BusKept == ASSUME EventInv, HistoryGrows, inbox' = inbox PROVE BusCarries'
BY FromGrows, CarriesMore DEF EventInv, BusCarries

LEMMA InstHasQueues == ASSUME IInv, NEW p \in Nodes PROVE HasQueues(inst[p])
BY DEF IInv, InstOK, Instance, HasQueues

\* Such a step that brings in no event.
LEMMA InstFaded ==
    ASSUME IInv, EventInv, UNCHANGED <<sent, delivered>>, NEW p \in Nodes, NEW j,
           inst' = [inst EXCEPT ![p] = j], Fades(inst[p], j)
    PROVE  InstCarries' /\ SlotKnown'
<1>1. HistoryGrows BY DEF HistoryGrows
<1>2. Carries(j, From(p)')
  <2>1. Carries(j, From(p)) BY FadesCarries DEF EventInv, InstCarries
  <2> QED BY <1>1, <2>1, FromGrows, CarriesMore
<1> QED BY <1>1, <1>2, InstReplaced DEF Fades

\* Stale bytes keep the events of the frame they were.
LEMMA FrameCarries ==
    ASSUME IInv, EventInv, NEW p \in Nodes
    PROVE  ConFrame(p).evts \in Seq(From(p)) /\ RrFrame(p).evts \in Seq(From(p))
<1>1. dll[p].buf \in Frame /\ dll[p].buf.evts \in Seq(From(p)) /\ inst[p].tx \in Seq(From(p))
  BY DEF IInv, LinkOK, Dll, EventInv, LinkCarries, InstCarries, Carries
<1>2. ConFrame(p).evts = dll[p].buf.evts
  BY <1>1 DEF ConFrame, StaleCon, Frame
<1>3. RrFrame(p).evts = dll[p].buf.evts \/ RrFrame(p).evts = inst[p].tx
  BY <1>1 DEF RrFrame, StaleRr, Frame
<1> QED BY <1>1, <1>2, <1>3

\* The step the event channel sees.
EventStep == Events!Next \/ UNCHANGED <<inst["server"].rep, sent, delivered, acked>>

\* Freeing the slot without an acknowledge is giving the event up.
LEMMA FadedStep ==
    ASSUME IInv, NEW p \in Nodes, NEW j, inst' = [inst EXCEPT ![p] = j],
           j.rep \in {inst[p].rep, NoEvent}, UNCHANGED <<sent, delivered, acked>>
    PROVE  EventStep
<1>1. inst'["server"].rep \in {inst["server"].rep, NoEvent}
  BY NodesOpposite DEF IInv, InstOK
<1> QED BY <1>1 DEF EventStep, Events!Next, Events!GiveUp

\* Steps of the application, timers and wakeups that bring in no event.
LEMMA FadedEvents ==
    ASSUME IInv, EventInv, NEW p \in Nodes, NEW j, inst' = [inst EXCEPT ![p] = j],
           Fades(inst[p], j), UNCHANGED <<dll, inbox, sent, delivered, acked>>
    PROVE  EventInv' /\ EventStep
<1>1. HistoryGrows BY DEF HistoryGrows
<1> QED BY <1>1, InstFaded, LinkKept, BusKept, FadedStep DEF EventInv, Fades

LEMMA EnableEvents ==
    ASSUME IInv, EventInv, NEW p \in Nodes, Enable(p) PROVE EventInv' /\ EventStep
<1> DEFINE i == ConnectionSm(inst[p], "ENABLE")
           j == [i EXCEPT !.told = "asked"]
<1>1. Fades(inst[p], i) BY InstHasQueues, ConnectionSmFades
<1> HIDE DEF i
<1>2. Fades(inst[p], j) BY <1>1 DEF Fades, HasQueues
<1> QED BY <1>2, FadedEvents DEF Enable, i

LEMMA DisableEvents ==
    ASSUME IInv, EventInv, NEW p \in Nodes, Disable(p) PROVE EventInv' /\ EventStep
BY InstHasQueues, ConnectionSmFades, FadedEvents DEF Disable

LEMMA ConMsgTimerFiresEvents ==
    ASSUME IInv, EventInv, NEW p \in Nodes, ConMsgTimerFires(p) PROVE EventInv' /\ EventStep
<1> DEFINE i == [inst[p] EXCEPT !.conTimer = "off"]
           j == SendCon(i, inst[p].conBuf)
<1>1. Fades(inst[p], i) BY InstHasQueues DEF Fades, HasQueues
<1>2. Fades(inst[p], j)
  <2> HIDE DEF i
  <2> QED BY <1>1, SendConFades, FadesTrans DEF Fades
<1>3. inst' = [inst EXCEPT ![p] = j] BY Zenon DEF ConMsgTimerFires
<1> QED BY <1>2, <1>3, FadedEvents DEF ConMsgTimerFires

LEMMA PingTimerFiresEvents ==
    ASSUME IInv, EventInv, NEW p \in Nodes, PingTimerFires(p) PROVE EventInv' /\ EventStep
<1> DEFINE i == [inst[p] EXCEPT !.pingOn = FALSE]
           s == SendCon(i, "PING_REQUEST")
           again == [s EXCEPT !.pingOn = TRUE, !.pingRep = s.pingRep + 1]
           next == CASE ~IsOpen(i) -> i
                     [] IsOpen(i) /\ i.pingRep <= PingMaxRepeat -> again
                     [] OTHER -> ConnectionSm(i, "DISABLE_SILENT")
<1>1. Fades(inst[p], i) BY InstHasQueues DEF Fades, HasQueues
<1>2. Fades(i, s) /\ Fades(i, ConnectionSm(i, "DISABLE_SILENT"))
  BY <1>1, SendConFades, ConnectionSmFades DEF Fades
<1>3. Fades(s, again)
  <2> HIDE DEF s
  <2> QED BY <1>2 DEF Fades, HasQueues
<1>4. Fades(inst[p], next)
  <2> HIDE DEF i, s, again
  <2> QED BY <1>1, <1>2, <1>3, FadesTrans, Zenon DEF next
<1>5. inst' = [inst EXCEPT ![p] = next] BY Zenon DEF PingTimerFires
<1> HIDE DEF next
<1> QED BY <1>4, <1>5, FadedEvents DEF PingTimerFires

LEMMA BreakSeenEvents ==
    ASSUME IInv, EventInv, NEW p \in Nodes, BreakSeen(p) PROVE EventInv' /\ EventStep
<1>1. Fades(inst[p], [inst[p] EXCEPT !.breakOn = TRUE])
  BY InstHasQueues DEF Fades, HasQueues
<1> QED BY <1>1, FadedEvents DEF BreakSeen

LEMMA NodeToBeWokenUpEvents ==
    ASSUME IInv, EventInv, NEW p \in Nodes, NodeToBeWokenUp(p) PROVE EventInv' /\ EventStep
<1> DEFINE i == [inst[p] EXCEPT !.conTimer = "off"]
           next == IF inst[p].conTimer = "recovery" THEN SendCon(i, "ENABLE_REQUEST") ELSE inst[p]
<1>1. Fades(inst[p], inst[p]) /\ Fades(inst[p], i)
  BY InstHasQueues, ClearFades DEF Fades, HasQueues
<1>2. Fades(inst[p], next)
  <2> HIDE DEF i
  <2> QED BY <1>1, SendConFades, FadesTrans DEF Fades, next
<1>3. inst' = [inst EXCEPT ![p] = next] BY Zenon DEF NodeToBeWokenUp
<1> HIDE DEF next
<1> QED BY <1>2, <1>3, FadedEvents DEF NodeToBeWokenUp

LEMMA BreakTimerFiresEvents ==
    ASSUME IInv, EventInv, NEW p \in Nodes, BreakTimerFires(p) PROVE EventInv' /\ EventStep
<1> DEFINE i == [inst[p] EXCEPT !.breakOn = FALSE]
           next == IF i.commState = "NOT_READY" \/ i.conState = "DISCONNECTING"
                   THEN ToDisconnected(i) ELSE i
<1>1. Fades(inst[p], i) BY InstHasQueues DEF Fades, HasQueues
<1>2. Fades(inst[p], next)
  <2> HIDE DEF i
  <2> QED BY <1>1, ToDisconnectedFades, FadesTrans DEF Fades, next
<1>3. inst' = [inst EXCEPT ![p] = next] BY Zenon DEF BreakTimerFires
<1> HIDE DEF next
<1> QED BY <1>2, <1>3, FadedEvents DEF BreakTimerFires

\* A repetition queues the event the slot holds.
LEMMA MsgTimerFiresEvents ==
    ASSUME IInv, EventInv, NEW p \in Nodes, MsgTimerFires(p) PROVE EventInv' /\ EventStep
<1> DEFINE i == [inst[p] EXCEPT !.msgTimer = FALSE]
           j == MsgTimerAction(i)
<1>1. Carries(i, From(p)) /\ i.rep = inst[p].rep
  BY InstHasQueues DEF Carries, HasQueues, EventInv, InstCarries
<1>2. i.rep \in From(p) \cup {NoEvent}
  BY <1>1, NodesOpposite DEF EventInv, SlotKnown, From
<1> HIDE DEF i
<1>3. Carries(j, From(p)) /\ j.rep \in {inst[p].rep, NoEvent}
  BY <1>1, <1>2, MsgTimerActionCarries
<1>4. inst' = [inst EXCEPT ![p] = j] BY Zenon DEF MsgTimerFires, i
<1> HIDE DEF j
<1>5. UNCHANGED <<dll, inbox, sent, delivered, acked>> BY DEF MsgTimerFires
<1>6. HistoryGrows /\ From(p)' = From(p) BY <1>5 DEF HistoryGrows, From
<1>7. InstCarries' /\ SlotKnown' BY <1>3, <1>4, <1>6, InstReplaced
<1>8. LinkCarries' /\ BusCarries' BY <1>5, <1>6, LinkKept, BusKept
<1>9. EventStep BY <1>3, <1>4, <1>5, FadedStep
<1> QED BY <1>7, <1>8, <1>9 DEF EventInv

\* An accepted event is submitted.
LEMMA SendEvents ==
    ASSUME IInv, EventInv, NEW e \in EventId, Send(e) PROVE EventInv' /\ EventStep
<1> DEFINE i == inst["server"]
           j == SendEvent(i, e, 0)
           ok == SendAccepted(i, e, 0)
<1>1. /\ inst' = [inst EXCEPT !["server"] = j] /\ UNCHANGED <<dll, inbox, delivered, acked>>
      /\ sent' = IF ok THEN sent \cup {e} ELSE sent
  BY DEF Send
<1>2. HistoryGrows BY <1>1 DEF HistoryGrows
<1>3. From("server")' = sent' /\ Carries(i, From("server")')
  BY <1>2, FromGrows, CarriesMore, NodesOpposite DEF EventInv, InstCarries, From
<1>4. Carries(j, From("server")') /\ j.rep = IF ok THEN e ELSE i.rep
  <2>1. ok => e \in From("server")' BY <1>1, <1>3
  <2> QED BY <1>3, <2>1, SendEventCarries
<1>5. ok => i.rep = NoEvent
  BY DEF SendAccepted
<1> HIDE DEF ok, j
<1>6. j.rep \in {i.rep, NoEvent} \/ j.rep \in sent' BY <1>1, <1>4
<1>7. InstCarries' /\ SlotKnown'
  BY <1>1, <1>2, <1>4, <1>6, InstReplaced, NodesOpposite
<1>8. LinkCarries' /\ BusCarries' BY <1>1, <1>2, LinkKept, BusKept
<1>9. inst'["server"].rep = j.rep BY <1>1, NodesOpposite DEF IInv, InstOK
<1>10. EventStep
  BY <1>1, <1>4, <1>5, <1>9 DEF EventStep, Events!Next, Events!Submit
<1> QED BY <1>7, <1>8, <1>10 DEF EventInv

LEMMA StartTxEvents ==
    ASSUME IInv, EventInv, NEW p \in Nodes, StartTx(p) PROVE EventInv' /\ EventStep
<1> DEFINE c == [inst[p] EXCEPT !.conFlag = FALSE]
           r == [inst[p] EXCEPT !.rrFlag = FALSE]
           d(x, f) == [stage |-> "loaded", idx |-> x, status |-> "ok", buf |-> f]
<1>1. Fades(inst[p], c) /\ Fades(inst[p], r)
  BY InstHasQueues DEF Fades, HasQueues
<1>2. UNCHANGED <<inbox, sent, delivered, acked>> BY DEF StartTx
<1>3. HistoryGrows /\ \A q \in Nodes : From(q)' = From(q)
  BY <1>2 DEF HistoryGrows, From
<1>4. inst' = [inst EXCEPT ![p] = c] \/ inst' = [inst EXCEPT ![p] = r]
  BY Zenon DEF StartTx
<1> HIDE DEF c, r
<1>5. InstCarries' /\ SlotKnown' BY <1>1, <1>2, <1>4, InstFaded
<1>6. EventStep BY <1>1, <1>2, <1>4, FadedStep DEF Fades
<1>7. LinkCarries'
  <2>1. dll' = [dll EXCEPT ![p] = d("con", ConFrame(p))] \/ dll' = [dll EXCEPT ![p] = d("rr", RrFrame(p))]
    BY Zenon DEF StartTx
  <2>2. dll'[p].buf = ConFrame(p) \/ dll'[p].buf = RrFrame(p)
    BY <2>1 DEF IInv, LinkOK
  <2>3. \A q \in Nodes : q # p => dll'[q] = dll[q]
    BY <2>1 DEF IInv, LinkOK
  <2> QED BY <1>3, <2>2, <2>3, FrameCarries DEF EventInv, LinkCarries
<1>8. BusCarries' BY <1>2, <1>3, BusKept
<1> QED BY <1>5, <1>6, <1>7, <1>8 DEF EventInv

\* Every copy a bus delivers is the frame in the buffer.
LEMMA OnBusEvents ==
    ASSUME IInv, EventInv, NEW p \in Nodes, NEW o, OnBus(p, o), UNCHANGED <<sent, delivered>>
    PROVE  BusCarries'
<1> DEFINE q == Partner(p)
           more == [k \in 1 .. o[1] |-> dll[p].buf]
<1>1. o[1] \in Nat /\ q \in Nodes
  BY PartnerIsNode DEF OnBus, Clean, Faulty
<1>2. more \in Seq(Frame) /\ Len(more) = o[1] /\ \A n \in 1 .. o[1] : more[n] = dll[p].buf
  <2>1. dll[p].buf \in Frame BY DEF IInv, LinkOK, Dll
  <2> QED BY <1>1, <2>1
<1>3. inbox[q] \in Seq(Frame) /\ inbox' = [inbox EXCEPT ![q] = inbox[q] \o more]
  BY <1>1, Zenon DEF OnBus, IInv, LinkOK
<1> HIDE DEF more
<1>4. \A n \in 1 .. Len(inbox[q] \o more) :
          (inbox[q] \o more)[n] = dll[p].buf \/ \E m \in 1 .. Len(inbox[q]) : (inbox[q] \o more)[n] = inbox[q][m]
  BY <1>1, <1>2, <1>3
<1>5. FramesCarry(inbox[q], From(p)) /\ dll[p].buf.evts \in Seq(From(p))
  BY DEF EventInv, BusCarries, LinkCarries
<1>6. FramesCarry(inbox[q] \o more, From(p))
  BY <1>4, <1>5 DEF FramesCarry
<1>7. \A r \in Nodes : inbox'[Partner(r)] = IF r = p THEN inbox[q] \o more ELSE inbox[Partner(r)]
  BY <1>3, NodesOpposite DEF IInv, LinkOK
<1>8. \A r \in Nodes : From(r)' = From(r)
  BY DEF From
<1> QED BY <1>6, <1>7, <1>8 DEF EventInv, BusCarries

\* A confirmation brings in no event.
LEMMA ConfirmedFades ==
    ASSUME NEW i, HasQueues(i), NEW x \in Channel, NEW s PROVE Fades(i, Confirmed(i, x, s))
BY PostFades, ConNonDeliverableFades, RrNonDeliverableFades DEF Confirmed, Channel

LEMMA ConfirmToEvents ==
    ASSUME IInv, EventInv, NEW p \in Nodes, NEW s, ConfirmTo(p, dll[p].idx, s),
           UNCHANGED <<sent, delivered, acked>>
    PROVE  InstCarries' /\ SlotKnown' /\ EventStep
<1> DEFINE j == Confirmed(inst[p], dll[p].idx, s)
<1>1. dll[p].idx \in Channel BY DEF IInv, LinkOK, Dll
<1>2. Fades(inst[p], j) BY <1>1, InstHasQueues, ConfirmedFades
<1>3. inst' = [inst EXCEPT ![p] = j] BY DEF ConfirmTo
<1> HIDE DEF j
<1> QED BY <1>2, <1>3, InstFaded, FadedStep DEF Fades

LEMMA TransmitEvents ==
    ASSUME IInv, EventInv, NEW p \in Nodes, NEW o, Transmit(p, o) PROVE EventInv' /\ EventStep
<1>1. InstCarries' /\ SlotKnown' /\ EventStep BY ConfirmToEvents DEF Transmit
<1>2. BusCarries' BY OnBusEvents DEF Transmit
<1>3. LinkCarries'
  <2>1. \A q \in Nodes : dll'[q].buf = dll[q].buf BY DEF Transmit, IInv, LinkOK, Dll
  <2> QED BY <2>1, LinkKept DEF Transmit, HistoryGrows
<1> QED BY <1>1, <1>2, <1>3 DEF EventInv

LEMMA TransmitUnconfirmedEvents ==
    ASSUME IInv, EventInv, NEW p \in Nodes, NEW o, TransmitUnconfirmed(p, o)
    PROVE  EventInv' /\ EventStep
<1>1. UNCHANGED <<inst, sent, delivered, acked>> BY DEF TransmitUnconfirmed
<1>2. InstCarries' /\ SlotKnown' /\ EventStep
  BY <1>1 DEF EventInv, InstCarries, SlotKnown, EventStep, From
<1>3. BusCarries' BY OnBusEvents DEF TransmitUnconfirmed
<1>4. LinkCarries'
  <2>1. \A q \in Nodes : dll'[q].buf = dll[q].buf BY DEF TransmitUnconfirmed, IInv, LinkOK, Dll
  <2> QED BY <1>1, <2>1, LinkKept DEF HistoryGrows
<1> QED BY <1>2, <1>3, <1>4 DEF EventInv

LEMMA ConfirmEvents ==
    ASSUME IInv, EventInv, NEW p \in Nodes, Confirm(p) PROVE EventInv' /\ EventStep
<1>1. InstCarries' /\ SlotKnown' /\ EventStep BY ConfirmToEvents DEF Confirm
<1>2. HistoryGrows BY DEF Confirm, HistoryGrows
<1>3. BusCarries' BY <1>2, BusKept DEF Confirm
<1>4. LinkCarries'
  <2>1. \A q \in Nodes : dll'[q].buf = dll[q].buf BY DEF Confirm, IInv, LinkOK, Dll
  <2> QED BY <1>2, <2>1, LinkKept
<1> QED BY <1>1, <1>3, <1>4 DEF EventInv

\* Taking the oldest frame leaves frames that were there.
LEMMA TailCarries ==
    ASSUME NEW q \in Seq(Frame), q # <<>>, NEW S, FramesCarry(q, S)
    PROVE  FramesCarry(Tail(q), S) /\ Head(q).evts \in Seq(S)
<1>1. \A n \in 1 .. Len(Tail(q)) : Tail(q)[n] = q[n + 1] /\ n + 1 \in 1 .. Len(q)
  OBVIOUS
<1>2. Head(q) = q[1] /\ 1 \in 1 .. Len(q)
  OBVIOUS
<1> QED BY <1>1, <1>2 DEF FramesCarry

\* The client's application gets events that were sent, and acknowledges only those.
LEMMA ReceiveClientEvents ==
    ASSUME IInv, EventInv, Receive("client") PROVE EventInv' /\ EventStep
<1> DEFINE f == Head(inbox["client"])
           i == inst["client"]
           j == Received("client", i, f)
           taken == f.ch = "rr" /\ ~IsIgnored(i, f.seq)
           got == {f.evts[k] : k \in 1 .. Len(f.evts)}
<1>1. /\ inst' = [inst EXCEPT !["client"] = j]
      /\ inbox' = [inbox EXCEPT !["client"] = Tail(inbox["client"])]
      /\ delivered' = IF taken THEN delivered \cup got ELSE delivered
      /\ UNCHANGED <<dll, sent>>
  BY Zenon DEF Receive
<1>2. acked' = acked BY NodesOpposite, Zenon DEF Receive
<1>3. HistoryGrows BY <1>1 DEF HistoryGrows
<1>4. inbox["client"] \in Seq(Frame) /\ inbox["client"] # <<>> /\ FramesCarry(inbox["client"], sent)
  BY NodesOpposite DEF Receive, IInv, LinkOK, EventInv, BusCarries, From
<1>5. FramesCarry(Tail(inbox["client"]), sent) /\ f.evts \in Seq(sent)
  BY <1>4, TailCarries
<1>6. got \subseteq sent BY <1>5
<1>7. HasQueues(i) /\ Carries(i, From("client")')
  BY <1>3, FromGrows, CarriesMore, NodesOpposite, InstHasQueues DEF EventInv, InstCarries
<1>8. Carries(j, From("client")') /\ j.rep \in {i.rep, NoEvent}
  <2>1. CASE taken
    <3>1. f.evts \in Seq(got) BY <1>5
    <3>2. got \subseteq From("client")'
      BY <1>1, <2>1, NodesOpposite DEF From
    <3>3. f.evts \in Seq(From("client")')
      <4> HIDE DEF f, got
      <4> QED BY <3>1, <3>2, CarriesMore
    <3>4. j = ReceiveEvents(i, f.seq, f.evts)
      BY <2>1, NodesOpposite DEF Received
    <3> HIDE DEF f, i, j
    <3> QED BY <1>7, <3>3, <3>4, ReceiveEventsCarries
  <2>2. CASE ~taken
    <3>1. j = IF f.ch = "con" THEN HandleConMsg(i, f.msg) ELSE i
      BY <2>2, Zenon DEF Received
    <3>2. Fades(i, j)
      <4> HIDE DEF i, j
      <4> QED BY <1>7, <3>1, HandleConMsgFades, ClearFades
    <3> QED BY <1>7, <3>2, FadesCarries DEF Fades
  <2> QED BY <2>1, <2>2
<1> HIDE DEF j
<1>9. InstCarries' /\ SlotKnown'
  BY <1>1, <1>3, <1>8, InstReplaced, NodesOpposite
<1>10. LinkCarries' BY <1>1, <1>3, LinkKept
<1>11. BusCarries'
  <2>1. FramesCarry(inbox'["client"], From("server")')
    BY <1>1, <1>5, NodesOpposite DEF From, IInv, LinkOK
  <2>2. inbox'["server"] = inbox["server"]
    BY <1>1, NodesOpposite DEF IInv, LinkOK
  <2>3. FramesCarry(inbox'["server"], From("client")')
    BY <1>3, <2>2, FromGrows, CarriesMore, NodesOpposite DEF EventInv, BusCarries
  <2> QED BY <2>1, <2>3, NodesOpposite DEF BusCarries
<1>12. EventStep
  <2>1. inst'["server"] = inst["server"]
    BY <1>1, NodesOpposite DEF IInv, InstOK
  <2>2. \E g \in SUBSET sent : delivered' = delivered \cup g
    <3> DEFINE g == IF taken THEN got ELSE {}
    <3>1. g \in SUBSET sent /\ delivered' = delivered \cup g
      <4> HIDE DEF taken, got
      <4> QED BY <1>1, <1>6 DEF got
    <3> HIDE DEF g
    <3> QED BY <3>1
  <2> QED BY <1>1, <1>2, <2>1, <2>2 DEF EventStep, Events!Next, Events!Deliver
<1> QED BY <1>9, <1>10, <1>11, <1>12 DEF EventInv

\* With kinds of their own, only its own acknowledge frees the slot of an event.
LEMMA ReceiveServerEvents ==
    ASSUME ~SameKind, IInv, EventInv, Receive("server") PROVE EventInv' /\ EventStep
<1> DEFINE f == Head(inbox["server"])
           i == inst["server"]
           j == Received("server", i, f)
           taken == f.ch = "rr" /\ ~IsIgnored(i, f.seq)
<1>1. /\ inst' = [inst EXCEPT !["server"] = j]
      /\ inbox' = [inbox EXCEPT !["server"] = Tail(inbox["server"])]
      /\ UNCHANGED <<dll, sent>>
  BY Zenon DEF Receive
<1>2. delivered' = delivered BY NodesOpposite, Zenon DEF Receive
<1>3. inst'["server"] = j BY <1>1, NodesOpposite DEF IInv, InstOK
<1>4. acked' = IF taken /\ i.rep # NoEvent /\ j.rep = NoEvent THEN acked \cup {i.rep} ELSE acked
  BY <1>3, Zenon DEF Receive
<1>5. HistoryGrows BY <1>1, <1>2 DEF HistoryGrows
<1>6. inbox["server"] \in Seq(Frame) /\ inbox["server"] # <<>> /\ FramesCarry(inbox["server"], delivered)
  BY NodesOpposite DEF Receive, IInv, LinkOK, EventInv, BusCarries, From
<1>7. FramesCarry(Tail(inbox["server"]), delivered) /\ f.evts \in Seq(delivered)
  BY <1>6, TailCarries
<1>8. HasQueues(i) BY NodesOpposite, InstHasQueues
<1>9. Fades(i, j) /\ (taken /\ i.rep # NoEvent /\ j.rep = NoEvent => i.rep \in delivered)
  <2>1. CASE taken
    <3>1. j = ReceiveAcks(i, f.seq, f.evts)
      BY <2>1, NodesOpposite DEF Received
    <3>2. Fades(i, j)
      <4> HIDE DEF f, i, j
      <4> QED BY <1>8, <3>1, ReceiveAcksFades
    <3>3. ASSUME i.rep # NoEvent, j.rep = NoEvent PROVE i.rep \in delivered
      <4>1. \E k \in 1 .. Len(f.evts) : Kind(f.evts[k]) = Kind(i.rep)
        <5> HIDE DEF f, i, j
        <5> QED BY <1>8, <3>1, <3>3, ReceiveAcksFades
      <4>2. PICK k \in 1 .. Len(f.evts) : f.evts[k] = i.rep
        BY <4>1 DEF Kind
      <4> QED BY <1>7, <4>2
    <3> QED BY <3>2, <3>3
  <2>2. CASE ~taken
    <3>1. j = IF f.ch = "con" THEN HandleConMsg(i, f.msg) ELSE i
      BY <2>2, Zenon DEF Received
    <3>2. Fades(i, j)
      <4> HIDE DEF i, j
      <4> QED BY <1>8, <3>1, HandleConMsgFades, ClearFades
    <3> QED BY <2>2, <3>2
  <2> QED BY <2>1, <2>2
<1> HIDE DEF j, taken
<1>10. InstCarries' /\ SlotKnown'
  BY <1>1, <1>2, <1>9, InstFaded, NodesOpposite
<1>11. LinkCarries' BY <1>1, <1>5, LinkKept
<1>12. BusCarries'
  <2>1. FramesCarry(inbox'["server"], From("client")')
    BY <1>1, <1>2, <1>7, NodesOpposite DEF From, IInv, LinkOK
  <2>2. inbox'["client"] = inbox["client"]
    BY <1>1, NodesOpposite DEF IInv, LinkOK
  <2>3. FramesCarry(inbox'["client"], From("server")')
    BY <1>5, <2>2, FromGrows, CarriesMore, NodesOpposite DEF EventInv, BusCarries
  <2> QED BY <2>1, <2>3, NodesOpposite DEF BusCarries
<1>13. EventStep
  <2>1. CASE taken /\ i.rep # NoEvent /\ j.rep = NoEvent
    <3>1. i.rep \in delivered BY <1>9, <2>1
    <3>2. acked' = acked \cup {i.rep} BY <1>4, <2>1
    <3> QED BY <1>1, <1>2, <1>3, <2>1, <3>1, <3>2 DEF EventStep, Events!Next, Events!Acknowledge
  <2>2. CASE ~(taken /\ i.rep # NoEvent /\ j.rep = NoEvent)
    <3>1. acked' = acked BY <1>4, <2>2
    <3> QED BY <1>1, <1>2, <1>9, <3>1, FadedStep, NodesOpposite DEF Fades
  <2> QED BY <2>1, <2>2
<1> QED BY <1>10, <1>11, <1>12, <1>13 DEF EventInv

LEMMA RestartEvents ==
    ASSUME IInv, EventInv, NEW p \in Nodes, Restart(p) PROVE EventInv' /\ EventStep
<1> DEFINE j == NewInstance(p = "client", Pings)
<1>1. UNCHANGED <<sent, delivered, acked>> BY DEF Restart
<1>2. HistoryGrows /\ \A q \in Nodes : From(q)' = From(q) BY <1>1 DEF HistoryGrows, From
<1>3. HasQueues(j) /\ j.tx = <<>> /\ j.rep = NoEvent
  BY Enumerated DEF NewInstance, HasQueues
<1>4. inst' = [inst EXCEPT ![p] = j] BY DEF Restart
<1> HIDE DEF j
<1>5. Fades(inst[p], j) BY <1>3 DEF Fades
<1>6. InstCarries' /\ SlotKnown' BY <1>1, <1>4, <1>5, InstFaded
<1>7. EventStep BY <1>1, <1>4, <1>5, FadedStep DEF Fades
<1>8. LinkCarries'
  <2>1. \A q \in Nodes : dll'[q] = IF q = p THEN NewDll ELSE dll[q]
    BY DEF Restart, IInv, LinkOK
  <2>2. NewDll.buf.evts = <<>> /\ <<>> \in Seq(From(p)) BY DEF NewDll
  <2> QED BY <1>2, <2>1, <2>2 DEF EventInv, LinkCarries
<1>9. BusCarries'
  <2>1. \A q \in Nodes : inbox'[q] = IF q = p THEN <<>> ELSE inbox[q]
    BY DEF Restart, IInv, LinkOK
  <2>2. \A S : FramesCarry(<<>>, S) BY DEF FramesCarry
  <2> QED BY <1>2, <2>1, <2>2, PartnerIsNode DEF EventInv, BusCarries
<1> QED BY <1>6, <1>7, <1>8, <1>9 DEF EventInv

LEMMA InitEvents == Init => EventInv /\ Events!Init
<1> SUFFICES ASSUME Init PROVE EventInv /\ Events!Init
  OBVIOUS
<1>1. \A p \in Nodes : /\ inst[p].tx = <<>> /\ inst[p].rep = NoEvent /\ HasQueues(inst[p])
                       /\ dll[p] = NewDll /\ inbox[p] = <<>>
  BY Enumerated DEF Init, NewInstance, HasQueues
<1>2. \A S : FramesCarry(<<>>, S) /\ <<>> \in Seq(S) BY DEF FramesCarry
<1>3. NewDll.buf.evts = <<>> BY DEF NewDll
<1> QED BY <1>1, <1>2, <1>3, NodesOpposite, PartnerIsNode
  DEF Init, EventInv, InstCarries, LinkCarries, BusCarries, SlotKnown, Carries, Events!Init

LEMMA NextEvents ==
    ASSUME ~SameKind, IInv, EventInv, [Next]_vars PROVE EventInv' /\ EventStep
<1>1. CASE \E p \in Nodes : Enable(p) \/ Disable(p)
  BY <1>1, EnableEvents, DisableEvents
<1>2. CASE \E e \in EventId : Send(e)
  BY <1>2, SendEvents
<1>3. ASSUME NEW p \in Nodes, Work(p) PROVE EventInv' /\ EventStep
  BY <1>3, NodesOpposite, StartTxEvents, TransmitEvents, TransmitUnconfirmedEvents, ConfirmEvents,
     ReceiveClientEvents, ReceiveServerEvents, BreakSeenEvents, NodeToBeWokenUpEvents DEF Work
<1>4. ASSUME NEW p \in Nodes, Timers(p) PROVE EventInv' /\ EventStep
  BY <1>4, ConMsgTimerFiresEvents, MsgTimerFiresEvents, PingTimerFiresEvents,
     BreakTimerFiresEvents DEF Timers
<1>5. ASSUME NEW p \in Nodes, Restart(p) PROVE EventInv' /\ EventStep
  BY <1>5, RestartEvents
<1>6. CASE UNCHANGED vars
  BY <1>6 DEF vars, EventInv, InstCarries, LinkCarries, BusCarries, SlotKnown, From, EventStep
<1> QED BY <1>1, <1>2, <1>3, <1>4, <1>5, <1>6 DEF Next, AppCall

\* If no two events share their service and command id, the repeat queue and
\* the acknowledges implement the event channel, whatever frames, confirmations
\* and restarts do: an event leaves the queue only because the client's
\* application got it, or by being given up (DBAL_look4AckMsgReception,
\* DBAL_msgTimerAction, DBAL_look4MsgReception).
THEOREM EventChannelImplemented == ASSUME ~SameKind PROVE Spec => Events!Spec
<1>1. IInv /\ EventInv /\ [Next]_vars => EventInv' /\ [Events!Next]_<<inst["server"].rep, sent, delivered, acked>>
  BY NextEvents DEF EventStep
<1> QED BY <1>1, InitEvents, Inductive, PTL DEF Spec, Events!Spec, Events!chan
=============================================================================
