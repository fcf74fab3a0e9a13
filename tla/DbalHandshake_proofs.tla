------------------------ MODULE DbalHandshake_proofs ------------------------
(***************************************************************************)
(* The handshakes of a link.                                               *)
(*                                                                         *)
(* First, on every link: nobody waits within a handshake for an answer     *)
(* that nobody will send, for every number of retries, faults, power       *)
(* failures and calls, either link layer and timeouts of any length.  In   *)
(* CONNECTING and DISCONNECTING the connection message of an instance is a *)
(* request, and it is flagged, in the link layer, or its timer runs.       *)
(*                                                                         *)
(* Then, on an undisturbed link: both ends agree, their sequence ids stay  *)
(* in step, and the two connection state machines implement Handshake.     *)
(***************************************************************************)
EXTENDS DbalLink_proofs

Request == {"ENABLE_REQUEST", "DISABLE_REQUEST"}

\* The instance will hear of its request; busy: the link layer has a connection
\* message, whose confirmation is for the instance if the pointer is set.
Expecting(i, busy) ==
    Waits(i) => /\ i.conBuf \in Request
                /\ i.conTimer # "off" \/ (i.conInst = TRUE /\ (i.conFlag = TRUE \/ busy))

Busy(p) == dll[p].stage # "idle" /\ dll[p].idx = "con"

Hears(i, busy) == HasCon(i) /\ Expecting(i, busy)

WaitInv == \A p \in Nodes : Hears(inst[p], Busy(p))

-----------------------------------------------------------------------------
(* The functions that leave the handshake alone, see DbalInstance_proofs.  *)

LEMMA SameHears ==
    ASSUME NEW i, NEW j, NEW b, Hears(i, b), SameCon(i, j) PROVE Hears(j, b)
BY DEF Hears, SameCon, Expecting, Waits

-----------------------------------------------------------------------------
(* The connection state machine.                                           *)

\* What is sent is flagged, with the pointer set.
LEMMA SendConHears ==
    ASSUME NEW i, HasCon(i), NEW m, NEW b, Waits(i) => m \in Request
    PROVE  Hears(SendCon(i, m), b) /\ SendCon(i, m).conState = i.conState
BY DEF HasCon, Hears, Expecting, Waits, SendCon

\* Connected and disconnected instances wait for nothing.
LEMMA SettledHears ==
    ASSUME NEW i, HasCon(i), NEW b
    PROVE  Hears(ToConnected(i), b) /\ Hears(ToDisconnected(i), b)
<1> DEFINE j == [i EXCEPT !.conState = "CONNECTED", !.commState = "READY",
                          !.seqSend = SeqMod - 1, !.seqRecv = SeqMod - 1,
                          !.conTimer = "off", !.conRepeat = 0, !.told = "READY"]
<1>1. Hears(j, b) BY DEF HasCon, Hears, Expecting, Waits, ConState
<1>2. Hears(ToConnected(i), b)
  <2> HIDE DEF j
  <2>1. ToConnected(i) = TriggerPing(j) BY DEF ToConnected, j
  <2> QED BY <1>1, <2>1, ClearSame, SameHears DEF Hears
<1>3. Hears(ToDisconnected(i), b)
  BY DEF HasCon, Hears, Expecting, Waits, ToDisconnected, ConState
<1> QED BY <1>2, <1>3

LEMMA ConnectionSmHears ==
    ASSUME NEW i, NEW b, Hears(i, b), NEW e PROVE Hears(ConnectionSm(i, e), b)
<1>1. ASSUME NEW s \in {"CONNECTING", "DISCONNECTING"}, NEW m \in Request
      PROVE  Hears(SendCon([i EXCEPT !.conState = s], m), b)
  <2>1. HasCon([i EXCEPT !.conState = s]) BY <1>1 DEF Hears, HasCon, ConState
  <2> QED BY <2>1, SendConHears
<1>2. ASSUME ~Waits(i), NEW m
      PROVE  Hears(SendCon(i, m), b)
  BY <1>2, SendConHears DEF Hears
<1>3. CASE i.conState = "DISCONNECTED"
  <2> DEFINE c == ToConnected(SendCon(i, "ENABLE_RESPONSE"))
             d == [c EXCEPT !.breakOn = FALSE]
  <2>1. ~Waits(i) BY <1>3 DEF Waits
  <2>2. Hears(c, b) BY <1>2, <2>1, SettledHears DEF Hears
  <2>3. Hears(d, b)
    <3> HIDE DEF c
    <3> QED BY <2>2 DEF Hears, HasCon, Expecting, Waits
  <2> QED BY <1>1, <1>3, <2>3 DEF ConnectionSm, InDisconnected, Request
<1>4. CASE i.conState = "CONNECTING"
  <2>1. HasCon(SendCon(i, "ENABLE_RESPONSE")) BY DEF Hears, HasCon, SendCon
  <2>2. Hears([i EXCEPT !.conState = "DISCONNECTED"], b)
    BY DEF Hears, HasCon, Expecting, Waits, ConState
  <2> QED BY <1>4, <2>1, <2>2, SettledHears DEF ConnectionSm, InConnecting, Hears
<1>5. CASE i.conState = "CONNECTED"
  <2>1. HasCon(SendCon(i, "ENABLE_RESPONSE")) /\ HasCon(SendCon(i, "DISABLE_RESPONSE"))
    BY DEF Hears, HasCon, SendCon
  <2>2. HasCon(ToDisconnected(SendCon(i, "ENABLE_RESPONSE"))) BY <2>1, SettledHears DEF Hears
  <2> QED
    BY <1>1, <1>5, <2>1, <2>2, SettledHears DEF ConnectionSm, InConnected, Hears, Request
<1>6. CASE i.conState = "DISCONNECTING"
  BY <1>6, SettledHears DEF ConnectionSm, InDisconnecting, Hears
<1> QED BY <1>3, <1>4, <1>5, <1>6 DEF Hears, HasCon, ConState

\* A failed connection message ends the handshake it belongs to.
LEMMA ConTxFailHears ==
    ASSUME NEW i, NEW b, HasCon(i), Waits(i) => i.conBuf \in Request, NEW c
    PROVE  Hears(ConTxFail(i), c) /\ ~Waits(ConTxFail(i))
<1> DEFINE j == [i EXCEPT !.conInst = FALSE]
           k == ClearRetries(j)
           event == IF i.conBuf \in {"PING_REQUEST", "PING_RESPONSE"}
                    THEN "DISABLE_SILENT" ELSE "REJECT"
<1>1. HasCon(j) /\ j.conState = i.conState BY DEF HasCon
<1>2. HasCon(k) /\ k.conState = i.conState
  <2> HIDE DEF j
  <2> QED BY <1>1, ClearSame DEF SameCon
<1>3. Waits(i) => event = "REJECT" BY DEF Request
<1> HIDE DEF k, event
<1>4. ~Waits(ConnectionSm(k, event)) /\ HasCon(ConnectionSm(k, event))
  <2>1. ~Waits(ToDisconnected(k)) /\ HasCon(ToDisconnected(k))
    BY <1>2 DEF HasCon, Waits, ToDisconnected, ConState
  <2>2. ~Waits([k EXCEPT !.conState = "DISCONNECTED"]) /\ HasCon([k EXCEPT !.conState = "DISCONNECTED"])
    BY <1>2 DEF HasCon, Waits, ConState
  <2>3. event \in {"DISABLE_SILENT", "REJECT"} BY DEF event
  <2>4. CASE k.conState = "DISCONNECTED"
    BY <1>2, <2>3, <2>4 DEF ConnectionSm, InDisconnected, Waits
  <2>5. CASE k.conState = "CONNECTING"
    BY <1>2, <1>3, <2>2, <2>5 DEF ConnectionSm, InConnecting, Waits
  <2>6. CASE k.conState = "CONNECTED"
    BY <1>2, <2>1, <2>3, <2>6 DEF ConnectionSm, InConnected, Waits
  <2>7. CASE k.conState = "DISCONNECTING"
    BY <1>2, <1>3, <2>1, <2>7 DEF ConnectionSm, InDisconnecting, Waits
  <2> QED BY <1>2, <2>4, <2>5, <2>6, <2>7 DEF HasCon, ConState
<1>5. ConTxFail(i) = ConnectionSm(k, event) BY DEF ConTxFail, k, event
<1> QED BY <1>4, <1>5 DEF Hears, Expecting

-----------------------------------------------------------------------------
(* Confirmations, failures, receptions and the timer of the events.        *)

\* The link layer confirms, or fails to deliver, a connection message: the
\* instance goes on without it.
LEMMA ConPostHears ==
    ASSUME NEW i, Hears(i, TRUE) PROVE Hears(ConPost(i), FALSE)
<1> DEFINE t == [i EXCEPT !.conTimer = "response", !.conRepeat = @ + 1]
           done(j) == [j EXCEPT !.conInst = FALSE]
<1>1. CASE ~(i.conInst /\ ~i.conFlag)
  BY <1>1 DEF ConPost, Hears, Expecting
<1>2. CASE i.conInst /\ ~i.conFlag
  <2>1. Hears(done(t), FALSE)
    <3>1. HasCon(t) /\ t.conTimer = "response" /\ t.conBuf = i.conBuf /\ t.conState = i.conState
      BY DEF Hears, HasCon
    <3> HIDE DEF t
    <3> QED BY <3>1 DEF Hears, HasCon, Expecting, Waits
  <2>2. Hears(done(ConTxFail(i)), FALSE)
    <3>1. HasCon(ConTxFail(i)) /\ ~Waits(ConTxFail(i)) BY ConTxFailHears DEF Hears, Expecting
    <3>2. ASSUME NEW k, HasCon(k), ~Waits(k) PROVE Hears(done(k), FALSE)
      BY <3>2 DEF Hears, HasCon, Expecting, Waits
    <3> QED BY <3>1, <3>2
  <2>3. ~Waits(i) => Hears(done(i), FALSE)
    BY DEF Hears, HasCon, Expecting, Waits
  <2>4. Waits(i) => i.conBuf \in Request BY DEF Hears, Expecting
  <2>5. ConPost(i) = done(PostRepeatTrigger(i)) BY <1>2 DEF ConPost
  <2>6. PostRepeatTrigger(i) \in {t, ConTxFail(i)} \/ (PostRepeatTrigger(i) = i /\ ~Waits(i))
    BY <2>4 DEF PostRepeatTrigger, Request
  <2> HIDE DEF t, done
  <2> QED BY <2>1, <2>2, <2>3, <2>5, <2>6
<1> QED BY <1>1, <1>2

LEMMA ConNonDeliverableHears ==
    ASSUME NEW i, Hears(i, TRUE), NEW s PROVE Hears(ConNonDeliverable(i, s), FALSE)
<1> DEFINE j == [i EXCEPT !.retryCon = @ + 1]
<1>1. Hears(j, TRUE) /\ j.conBuf = i.conBuf BY DEF Hears, HasCon, Expecting, Waits
<1>2. Hears(ConTxFail(i), FALSE) BY ConTxFailHears DEF Hears, Expecting
<1>3. Hears(ConTxFail(j), FALSE)
  <2> HIDE DEF j
  <2> QED BY <1>1, ConTxFailHears DEF Hears, Expecting
<1>4. Hears([j EXCEPT !.conTimer = "recovery"], FALSE) /\ Hears([j EXCEPT !.conFlag = TRUE], FALSE)
  <2> HIDE DEF j
  <2> QED BY <1>1 DEF Hears, HasCon, Expecting, Waits
<1> QED BY <1>2, <1>3, <1>4 DEF ConNonDeliverable

LEMMA RrTxFailHears == ASSUME NEW i, NEW b, Hears(i, b) PROVE Hears(RrTxFail(i), b)
<1> DEFINE j == [i EXCEPT !.rrInst = FALSE]
<1>1. SameCon(i, j) BY DEF Hears, HasCon, SameCon
<1> HIDE DEF j
<1>2. SameCon(j, ClearMsgs(j)) BY <1>1, ClearSame DEF SameCon
<1>3. SameCon(ClearMsgs(j), ClearRetries(ClearMsgs(j))) BY <1>2, ClearSame DEF SameCon
<1>4. Hears(ClearRetries(ClearMsgs(j)), b) BY <1>1, <1>2, <1>3, SameTrans, SameHears
<1> QED BY <1>4, ConnectionSmHears DEF RrTxFail, j

LEMMA RrNonDeliverableHears ==
    ASSUME NEW i, NEW b, Hears(i, b), NEW s PROVE Hears(RrNonDeliverable(i, s), b)
<1> DEFINE j == [i EXCEPT !.retryRr = @ + 1]
<1>1. Hears(j, b) BY DEF Hears, HasCon, Expecting, Waits
<1>2. Hears(RrTxFail(j), b) /\ Hears([j EXCEPT !.rrFlag = TRUE], b)
  <2> HIDE DEF j
  <2> QED BY <1>1, RrTxFailHears DEF Hears, HasCon, Expecting, Waits
<1> QED BY <1>2, RrTxFailHears DEF RrNonDeliverable

LEMMA RrPostHears == ASSUME NEW i, NEW b, Hears(i, b) PROVE Hears(RrPost(i), b)
<1> DEFINE j == TriggerPing(ClearTx(i))
<1>1. SameCon(i, ClearTx(i)) BY ClearSame DEF Hears
<1>2. SameCon(ClearTx(i), j) BY <1>1, ClearSame DEF SameCon
<1>3. Hears(j, b) BY <1>1, <1>2, SameTrans, SameHears
<1>4. Hears([j EXCEPT !.rrInst = FALSE], b)
  <2> HIDE DEF j
  <2> QED BY <1>3 DEF Hears, HasCon, Expecting, Waits
<1> QED BY <1>4 DEF RrPost

LEMMA ConfirmedHears ==
    ASSUME NEW i, NEW x \in Channel, Hears(i, x = "con"), NEW s PROVE Hears(Confirmed(i, x, s), FALSE)
<1>1. CASE x = "con"
  <2>1. Hears(i, TRUE) BY <1>1 DEF Hears, Expecting
  <2> QED BY <1>1, <2>1, ConPostHears, ConNonDeliverableHears DEF Confirmed
<1>2. CASE x = "rr"
  <2>1. Hears(i, FALSE) BY <1>2 DEF Hears, Expecting
  <2> QED BY <1>2, <2>1, RrPostHears, RrNonDeliverableHears DEF Confirmed
<1> QED BY <1>1, <1>2 DEF Channel

LEMMA HandleConMsgHears ==
    ASSUME NEW i, NEW b, Hears(i, b), NEW m PROVE Hears(HandleConMsg(i, m), b)
<1> DEFINE x == ClearRetries(ClearTx(i))
           o == Organize(i)
           y == ClearRetries(ClearMsgs(o))
           z == ClearRetries(ClearMsgs(i))
<1>1. SameCon(i, i) /\ SameCon(i, ClearTx(i)) /\ SameCon(i, o) /\ SameCon(i, ClearMsgs(i))
  BY ClearSame DEF Hears
<1>2. SameCon(o, ClearMsgs(o)) BY <1>1, ClearSame DEF SameCon
<1>3. /\ SameCon(ClearTx(i), x) /\ SameCon(ClearMsgs(o), y) /\ SameCon(ClearMsgs(i), z)
  BY <1>1, <1>2, ClearSame DEF SameCon
<1>4. Hears(x, b) /\ Hears(o, b) /\ Hears(y, b) /\ Hears(z, b)
  BY <1>1, <1>2, <1>3, SameTrans, SameHears
<1>5. Hears([o EXCEPT !.disableReq = TRUE], b)
  <2> HIDE DEF o
  <2> QED BY <1>4 DEF Hears, HasCon, Expecting, Waits
<1>6. IsOpen(i) => Hears(SendCon(i, "PING_RESPONSE"), b)
  BY SendConHears DEF Hears, IsOpen, Waits
<1>7. Hears(TriggerPing(i), b) BY ClearSame, SameHears DEF Hears
<1> QED BY <1>4, <1>5, <1>6, <1>7, ConnectionSmHears DEF HandleConMsg

LEMMA ReceiveAcksHears ==
    ASSUME NEW i, NEW b, Hears(i, b), NEW s, NEW acks PROVE Hears(ReceiveAcks(i, s, acks), b)
<1> DEFINE hit == \E k \in 1 .. Len(acks) : i.rep # NoEvent /\ Kind(acks[k]) = Kind(i.rep)
           r == [i EXCEPT !.seqRecv = s, !.rep = IF hit THEN NoEvent ELSE @]
           o == Organize(r)
           y == ClearRetries(ClearMsgs(o))
<1>1. SameCon(i, r)
  <2> HIDE DEF hit
  <2> QED BY DEF Hears, HasCon, SameCon
<1> HIDE DEF r
<1>2. SameCon(r, o) BY <1>1, ClearSame DEF SameCon
<1>3. SameCon(o, ClearMsgs(o)) BY <1>2, ClearSame DEF SameCon
<1>4. SameCon(ClearMsgs(o), y) BY <1>3, ClearSame DEF SameCon
<1>5. Hears(o, b) BY <1>1, <1>2, SameTrans, SameHears
<1>6. Hears(y, b) BY <1>3, <1>4, <1>5, SameTrans, SameHears
<1> HIDE DEF o, y
<1>7. ReceiveAcks(i, s, acks) \in {o, ConnectionSm(y, "DISABLE_REQUEST")}
  BY Zenon DEF ReceiveAcks, o, y, r
<1> QED BY <1>5, <1>6, <1>7, ConnectionSmHears

LEMMA ReceivedHears ==
    ASSUME NEW p, NEW i, NEW b, Hears(i, b), NEW f PROVE Hears(Received(p, i, f), b)
<1>1. Hears(ReceiveEvents(i, f.seq, f.evts), b) BY ReceiveEventsSame, SameHears DEF Hears
<1> QED BY <1>1, HandleConMsgHears, ReceiveAcksHears, Zenon DEF Received

LEMMA MsgTimerActionHears ==
    ASSUME NEW i, NEW b, Hears(i, b) PROVE Hears(MsgTimerAction(i), b)
<1> DEFINE GiveUp(j) == ConnectionSm(ClearRetries(ClearMsgs(j)), "DISABLE_SILENT")
           again == [i EXCEPT !.repCnt = @ + 1, !.msgTimer = TRUE]
           t == SendEvent(again, i.rep, again.repCnt)
           next == CASE i.rep = NoEvent -> i
                     [] i.rep # NoEvent /\ i.repCnt >= RetryMax -> GiveUp(i)
                     [] OTHER -> IF SendAccepted(again, i.rep, again.repCnt) THEN t ELSE GiveUp(t)
<1>1. ASSUME NEW j, Hears(j, b) PROVE Hears(GiveUp(j), b)
  <2>1. SameCon(j, ClearMsgs(j)) BY <1>1, ClearSame DEF Hears
  <2>2. SameCon(ClearMsgs(j), ClearRetries(ClearMsgs(j))) BY <2>1, ClearSame DEF SameCon
  <2> QED BY <1>1, <2>1, <2>2, SameTrans, SameHears, ConnectionSmHears
<1>2. SameCon(i, again) BY DEF Hears, HasCon, SameCon
<1>3. SameCon(again, t)
  <2> HIDE DEF again
  <2> QED BY <1>2, SendEventSame DEF SameCon
<1>4. Hears(t, b) BY <1>2, <1>3, SameTrans, SameHears
<1> HIDE DEF t, GiveUp
<1>5. Hears(next, b) BY <1>1, <1>4
<1>6. MsgTimerAction(i) = Organize(next) BY Zenon DEF MsgTimerAction, t, GiveUp
<1> HIDE DEF next
<1> QED BY <1>5, <1>6, ClearSame, SameHears DEF Hears

-----------------------------------------------------------------------------
(* The steps.                                                              *)

LEMMA InitWait == Init => WaitInv
BY DEF Init, WaitInv, Hears, HasCon, Expecting, Waits, NewInstance, ConState

\* A step that replaces the instance of p, and perhaps what its link layer has.
LEMMA WaitUpdated ==
    ASSUME IInv, WaitInv, NEW p \in Nodes, NEW j, inst' = [inst EXCEPT ![p] = j],
           NEW d, dll' = [dll EXCEPT ![p] = d],
           Hears(j, d.stage # "idle" /\ d.idx = "con")
    PROVE  WaitInv'
BY DEF IInv, InstOK, LinkOK, WaitInv, Busy

LEMMA InstWait ==
    ASSUME IInv, WaitInv, NEW p \in Nodes, NEW j, inst' = [inst EXCEPT ![p] = j], dll' = dll,
           Hears(j, Busy(p))
    PROVE  WaitInv'
BY DEF IInv, InstOK, LinkOK, WaitInv, Busy

LEMMA EnableWait == ASSUME IInv, WaitInv, NEW p \in Nodes, Enable(p) PROVE WaitInv'
<1> DEFINE c == ConnectionSm(inst[p], "ENABLE")
<1>1. Hears(c, Busy(p)) BY ConnectionSmHears DEF WaitInv
<1>2. Hears([c EXCEPT !.told = "asked"], Busy(p))
  <2> HIDE DEF c
  <2> QED BY <1>1 DEF Hears, HasCon, Expecting, Waits
<1> QED BY <1>2, InstWait DEF Enable

LEMMA DisableWait == ASSUME IInv, WaitInv, NEW p \in Nodes, Disable(p) PROVE WaitInv'
<1>1. Hears(ConnectionSm(inst[p], "DISABLE"), Busy(p)) BY ConnectionSmHears DEF WaitInv
<1> QED BY <1>1, InstWait DEF Disable

LEMMA SendWait == ASSUME IInv, WaitInv, NEW e \in EventId, Send(e) PROVE WaitInv'
<1>1. "server" \in Nodes BY DEF Nodes
<1>2. Hears(SendEvent(inst["server"], e, 0), Busy("server"))
  BY <1>1, SendEventSame, SameHears DEF WaitInv, Hears
<1> QED BY <1>1, <1>2, InstWait DEF Send

LEMMA StartTxWait == ASSUME IInv, WaitInv, NEW p \in Nodes, StartTx(p) PROVE WaitInv'
<1>1. Hears(inst[p], Busy(p)) /\ ~Busy(p) BY DEF WaitInv, StartTx, Busy
<1>2. CASE inst[p].conFlag
  <2> DEFINE d == [stage |-> "loaded", idx |-> "con", status |-> "ok", buf |-> ConFrame(p)]
             j == [inst[p] EXCEPT !.conFlag = FALSE]
  <2>1. Hears(j, TRUE) BY <1>1 DEF Hears, HasCon, Expecting, Waits
  <2>2. dll' = [dll EXCEPT ![p] = d] /\ inst' = [inst EXCEPT ![p] = j]
    BY <1>2, Zenon DEF StartTx
  <2>3. d.stage # "idle" /\ d.idx = "con" OBVIOUS
  <2>4. Hears(j, d.stage # "idle" /\ d.idx = "con") BY <2>1, <2>3 DEF Hears, Expecting
  <2> HIDE DEF d, j
  <2> QED BY <2>2, <2>4, WaitUpdated
<1>3. CASE ~inst[p].conFlag
  <2> DEFINE d == [stage |-> "loaded", idx |-> "rr", status |-> "ok", buf |-> RrFrame(p)]
             j == [inst[p] EXCEPT !.rrFlag = FALSE]
  <2>1. Hears(j, FALSE) BY <1>1 DEF Hears, HasCon, Expecting, Waits
  <2>2. dll' = [dll EXCEPT ![p] = d] /\ inst' = [inst EXCEPT ![p] = j]
    BY <1>3, Zenon DEF StartTx
  <2>3. ~(d.stage # "idle" /\ d.idx = "con") OBVIOUS
  <2>4. Hears(j, d.stage # "idle" /\ d.idx = "con") BY <2>1, <2>3 DEF Hears, Expecting
  <2> HIDE DEF d, j
  <2> QED BY <2>2, <2>4, WaitUpdated
<1> QED BY <1>2, <1>3

\* The confirmation ends the transmission.
LEMMA ConfirmToWait ==
    ASSUME IInv, WaitInv, NEW p \in Nodes, NEW s, ConfirmTo(p, dll[p].idx, s),
           dll[p].stage # "idle", dll' = [dll EXCEPT ![p].stage = "idle"]
    PROVE  WaitInv'
<1> DEFINE j == Confirmed(inst[p], dll[p].idx, s)
           d == [dll[p] EXCEPT !.stage = "idle"]
<1>1. dll[p].idx \in Channel /\ dll[p] \in Dll BY DEF IInv, LinkOK, Dll
<1>2. Hears(inst[p], dll[p].idx = "con") BY DEF WaitInv, Busy, Hears, Expecting
<1>3. Hears(j, FALSE) BY <1>1, <1>2, ConfirmedHears
<1>4. d.stage = "idle" BY <1>1 DEF Dll
<1>5. inst' = [inst EXCEPT ![p] = j] BY Zenon DEF ConfirmTo
<1>6. dll' = [dll EXCEPT ![p] = d] OBVIOUS
<1> HIDE DEF d, j
<1>7. Hears(j, d.stage # "idle" /\ d.idx = "con") BY <1>3, <1>4 DEF Hears, Expecting
<1> QED BY <1>5, <1>6, <1>7, WaitUpdated

LEMMA TransmitUnconfirmedWait ==
    ASSUME IInv, WaitInv, NEW p \in Nodes, NEW o, TransmitUnconfirmed(p, o) PROVE WaitInv'
<1> DEFINE d == [dll[p] EXCEPT !.stage = "sent", !.status = o[2]]
<1>1. dll[p] \in Dll /\ inst' = inst /\ dll[p].stage = "loaded"
  BY DEF IInv, LinkOK, TransmitUnconfirmed
<1>2. dll' = [dll EXCEPT ![p] = d] BY Zenon DEF TransmitUnconfirmed
<1>3. d.stage = "sent" /\ d.idx = dll[p].idx BY <1>1 DEF Dll
<1> HIDE DEF d
<1>4. \A q \in Nodes : Busy(q)' = Busy(q) BY <1>1, <1>2, <1>3 DEF Busy, IInv, LinkOK
<1> QED BY <1>1, <1>4 DEF WaitInv, Hears, Expecting

LEMMA ReceiveWait == ASSUME IInv, WaitInv, NEW p \in Nodes, Receive(p) PROVE WaitInv'
<1>1. Hears(Received(p, inst[p], Head(inbox[p])), Busy(p)) BY ReceivedHears DEF WaitInv
<1>2. inst' = [inst EXCEPT ![p] = Received(p, inst[p], Head(inbox[p]))] /\ dll' = dll
  BY Zenon DEF Receive
<1> QED BY <1>1, <1>2, InstWait

LEMMA WakeupWait ==
    ASSUME IInv, WaitInv, NEW p \in Nodes, BreakSeen(p) \/ NodeToBeWokenUp(p) PROVE WaitInv'
<1> DEFINE i == inst[p]
           off == [i EXCEPT !.conTimer = "off"]
<1>1. Hears(i, Busy(p)) BY DEF WaitInv
<1>2. Hears([i EXCEPT !.breakOn = TRUE], Busy(p)) BY <1>1 DEF Hears, HasCon, Expecting, Waits
<1>3. HasCon(off) BY <1>1 DEF Hears, HasCon
<1>4. Hears(SendCon(off, "ENABLE_REQUEST"), Busy(p))
  <2> HIDE DEF off
  <2> QED BY <1>3, SendConHears DEF Request
<1>5. CASE BreakSeen(p)
  <2>1. inst' = [inst EXCEPT ![p] = [i EXCEPT !.breakOn = TRUE]] /\ dll' = dll
    BY <1>5, Zenon DEF BreakSeen
  <2> QED BY <1>2, <2>1, InstWait
<1>6. CASE NodeToBeWokenUp(p)
  <2> DEFINE j == IF i.conTimer = "recovery" THEN SendCon(off, "ENABLE_REQUEST") ELSE i
  <2>1. inst' = [inst EXCEPT ![p] = j] /\ dll' = dll
    BY <1>6, Zenon DEF NodeToBeWokenUp
  <2>2. Hears(j, Busy(p)) BY <1>1, <1>4
  <2> HIDE DEF j
  <2> QED BY <2>1, <2>2, InstWait
<1> QED BY <1>5, <1>6

LEMMA TimersWait == ASSUME IInv, WaitInv, NEW p \in Nodes, Timers(p) PROVE WaitInv'
<1> DEFINE i == inst[p]
<1>1. Hears(i, Busy(p)) BY DEF WaitInv
<1>2. CASE ConMsgTimerFires(p)
  <2> DEFINE off == [i EXCEPT !.conTimer = "off"]
  <2>1. HasCon(off) /\ (Waits(off) => i.conBuf \in Request)
    BY <1>1 DEF Hears, HasCon, Expecting, Waits
  <2>2. Hears(SendCon(off, i.conBuf), Busy(p))
    <3> HIDE DEF off
    <3> QED BY <2>1, SendConHears
  <2>3. inst' = [inst EXCEPT ![p] = SendCon(off, i.conBuf)] /\ dll' = dll
    BY <1>2, Zenon DEF ConMsgTimerFires
  <2> QED BY <2>2, <2>3, InstWait
<1>3. CASE MsgTimerFires(p)
  <2> DEFINE off == [i EXCEPT !.msgTimer = FALSE]
  <2>1. Hears(off, Busy(p)) BY <1>1 DEF Hears, HasCon, Expecting, Waits
  <2>2. Hears(MsgTimerAction(off), Busy(p))
    <3> HIDE DEF off
    <3> QED BY <2>1, MsgTimerActionHears
  <2>3. inst' = [inst EXCEPT ![p] = MsgTimerAction(off)] /\ dll' = dll
    BY <1>3, Zenon DEF MsgTimerFires
  <2> QED BY <2>2, <2>3, InstWait
<1>4. CASE PingTimerFires(p)
  <2> DEFINE off == [i EXCEPT !.pingOn = FALSE]
             s == SendCon(off, "PING_REQUEST")
             again == [s EXCEPT !.pingOn = TRUE, !.pingRep = @ + 1]
             j == CASE ~IsOpen(off) -> off
                    [] IsOpen(off) /\ off.pingRep <= PingMaxRepeat -> again
                    [] OTHER -> ConnectionSm(off, "DISABLE_SILENT")
  <2>1. Hears(off, Busy(p)) BY <1>1 DEF Hears, HasCon, Expecting, Waits
  <2>2. Hears(ConnectionSm(off, "DISABLE_SILENT"), Busy(p))
    <3> HIDE DEF off
    <3> QED BY <2>1, ConnectionSmHears
  <2>3. IsOpen(off) => Hears(s, Busy(p))
    <3> HIDE DEF off
    <3> QED BY <2>1, SendConHears DEF Hears, IsOpen, Waits
  <2>4. IsOpen(off) => Hears(again, Busy(p))
    <3> HIDE DEF s
    <3> QED BY <2>3 DEF Hears, HasCon, Expecting, Waits
  <2>5. inst' = [inst EXCEPT ![p] = j] /\ dll' = dll
    BY <1>4, Zenon DEF PingTimerFires
  <2> HIDE DEF off, again
  <2>6. Hears(j, Busy(p)) BY <2>1, <2>2, <2>4
  <2> HIDE DEF j
  <2> QED BY <2>5, <2>6, InstWait
<1>5. CASE BreakTimerFires(p)
  <2> DEFINE off == [i EXCEPT !.breakOn = FALSE]
             j == IF off.commState = "NOT_READY" \/ off.conState = "DISCONNECTING"
                  THEN ToDisconnected(off) ELSE off
  <2>1. Hears(off, Busy(p)) BY <1>1 DEF Hears, HasCon, Expecting, Waits
  <2>2. Hears(j, Busy(p))
    <3> HIDE DEF off
    <3> QED BY <2>1, SettledHears DEF Hears
  <2>3. inst' = [inst EXCEPT ![p] = j] /\ dll' = dll
    BY <1>5, Zenon DEF BreakTimerFires
  <2> HIDE DEF j
  <2> QED BY <2>2, <2>3, InstWait
<1> QED BY <1>2, <1>3, <1>4, <1>5 DEF Timers

LEMMA RestartWait == ASSUME IInv, WaitInv, NEW p \in Nodes, Restart(p) PROVE WaitInv'
<1> DEFINE j == NewInstance(p = "client", Pings)
<1>1. Hears(j, FALSE) BY DEF Hears, HasCon, Expecting, Waits, NewInstance, ConState
<1>2. NewDll.stage = "idle" BY DEF NewDll
<1>3. inst' = [inst EXCEPT ![p] = j] /\ dll' = [dll EXCEPT ![p] = NewDll] BY DEF Restart
<1> HIDE DEF j
<1>4. Hears(j, NewDll.stage # "idle" /\ NewDll.idx = "con") BY <1>1, <1>2 DEF Hears, Expecting
<1> QED BY <1>3, <1>4, WaitUpdated

LEMMA NextWait == ASSUME IInv, WaitInv, [Next]_vars PROVE WaitInv'
<1>1. CASE AppCall
  BY <1>1, EnableWait, DisableWait, SendWait DEF AppCall
<1>2. ASSUME NEW p \in Nodes, Work(p) PROVE WaitInv'
  <2>1. ASSUME NEW o, Transmit(p, o) PROVE WaitInv'
    BY <2>1, ConfirmToWait DEF Transmit
  <2>2. ASSUME Confirm(p) PROVE WaitInv'
    BY <2>2, ConfirmToWait DEF Confirm
  <2> QED BY <1>2, <2>1, <2>2, StartTxWait, TransmitUnconfirmedWait, ReceiveWait, WakeupWait DEF Work
<1>3. CASE UNCHANGED vars BY <1>3 DEF vars, WaitInv, Hears, HasCon, Expecting, Waits, Busy
<1> QED BY <1>1, <1>2, <1>3, TimersWait, RestartWait DEF Next

\* No ECU is left within an enable or disable handshake once nothing is under
\* way: the request is flagged, in the link layer or timed until the handshake
\* ends (DBAL_connectionSm, DBAL_conMsgTxPostRepeatTrigger,
\* DBAL_nonDeliverableMessage), whatever the bus, the schedule and the
\* applications do.
THEOREM QuietIsSettled == Spec => []QuietMeansSettled
<1>1. IInv /\ WaitInv => QuietMeansSettled
  <2> SUFFICES ASSUME IInv, WaitInv, Quiet, NEW p \in Nodes
               PROVE  inst[p].conState \in {"CONNECTED", "DISCONNECTED"}
    BY DEF QuietMeansSettled
  <2>1. ~Waits(inst[p]) BY DEF Quiet, LinkIdle, WaitInv, Hears, Expecting, Busy
  <2>2. inst[p].conState \in ConState BY DEF WaitInv, Hears, HasCon
  <2> QED BY <2>1, <2>2 DEF Waits, ConState
<1>2. IInv /\ WaitInv /\ [Next]_vars => WaitInv' BY NextWait
<1> QED BY <1>1, <1>2, InitWait, Inductive, PTL DEF Spec

-----------------------------------------------------------------------------
(* The undisturbed link.  No fault, no restart, applications that wait      *)
(* for the link to rest and timeouts longer than any exchange: then either  *)
(* the link rests, or one message is on its way, flagged, in the link layer *)
(* of its sender or in the inbox of its receiver, and the states of the two *)
(* instances are those the message is an answer to or asks for.             *)

Undisturbed ==
    ~ConfirmLag /\ Timely /\ Patient /\ MaxFaults = 0 /\ MaxRestarts = 0 /\ SeqMod >= 4

Succ(s) == (s + 1) % SeqMod

Place == {"flagged", "loaded", "arrived"}

\* What no step of an undisturbed link changes.
Plain(p) ==
    /\ inst[p].client = (p = "client")
    /\ inst[p].pings = Pings
    /\ inst[p].pingOn = TRUE => Pings
    /\ inst[p].disableReq = FALSE /\ inst[p].breakOn = FALSE
    /\ brk[p] = FALSE /\ wakeup[p] = FALSE

Unposted(i) == i.conFlag = FALSE /\ i.rrFlag = FALSE /\ i.tx = <<>>
Untimed(i) == i.conTimer = "off" /\ i.conRepeat = 0
Unowed(i) == i.rep = NoEvent /\ i.msgTimer = FALSE
Calm(i) == Unposted(i) /\ Untimed(i) /\ Unowed(i)

\* What q sends next is what p expects next.
InStep(p, q) == inst[p].seqSend = inst[q].seqRecv

BothIn(s) == \A p \in Nodes : inst[p].conState = s

ConIs(f, m) == f.ch = "con" /\ f.msg = m
RrIs(f, s, e) == f.ch = "rr" /\ f.seq = s /\ f.evts = <<e>>

\* Nothing is in the link layer of p or in its inbox.
Clear(p) == dll[p].stage = "idle" /\ inbox[p] = <<>>

\* The one message, from p, with OK(f) for its frame once there is one.
Flagged(p) == Clear(p) /\ Clear(Partner(p))
Loaded(p, x) ==
    /\ dll[p].stage = "loaded" /\ dll[p].idx = x
    /\ inbox[p] = <<>> /\ Clear(Partner(p))
Arrived(p) ==
    /\ Clear(p) /\ dll[Partner(p)].stage = "idle" /\ Len(inbox[Partner(p)]) = 1

Lane(p, at, x) ==
    CASE at = "flagged" -> Flagged(p)
      [] at = "loaded" -> Loaded(p, x)
      [] at = "arrived" -> Arrived(p)

\* The states of sender i and receiver j of a message m of the handshake.
Exchange(m, p) ==
    LET i == inst[p]  j == inst[Partner(p)] IN
    CASE m = "ENABLE_REQUEST" ->
             i.conState = "CONNECTING" /\ j.conState = "DISCONNECTED" /\ Untimed(j)
      [] m = "ENABLE_RESPONSE" ->
             /\ i.conState = "CONNECTED" /\ j.conState = "CONNECTING" /\ Untimed(i)
             /\ i.seqSend = SeqMod - 1 /\ i.seqRecv = SeqMod - 1
      [] m = "DISABLE_REQUEST" ->
             i.conState = "DISCONNECTING" /\ j.conState = "CONNECTED" /\ Untimed(j)
      [] m = "DISABLE_RESPONSE" ->
             i.conState = "DISCONNECTED" /\ j.conState = "DISCONNECTING" /\ Untimed(i)
      [] m \in {"PING_REQUEST", "PING_RESPONSE"} ->
             /\ BothIn("CONNECTED") /\ Untimed(i) /\ Untimed(j) /\ Pings
             /\ p = IF m = "PING_REQUEST" THEN "client" ELSE "server"
             /\ InStep(p, Partner(p)) /\ InStep(Partner(p), p)

\* A connection message m of p.
ConUnderWay(p, at, m) ==
    LET i == inst[p]  j == inst[Partner(p)] IN
    /\ Lane(p, at, "con") /\ Exchange(m, p)
    /\ at = "loaded" => ConIs(dll[p].buf, m)
    /\ at = "arrived" => ConIs(inbox[Partner(p)][1], m)
    /\ at # "arrived" => i.conBuf = m /\ i.conInst = TRUE /\ Untimed(i)
    /\ i.conFlag = (at = "flagged") /\ i.rrFlag = FALSE /\ i.tx = <<>>
    /\ Unposted(j) /\ Unowed(i) /\ Unowed(j)
    /\ inst["server"].pingRep = 0
    /\ m \notin {"PING_REQUEST", "PING_RESPONSE"} => inst["client"].pingRep = 0

\* An event e of the server, or the client's acknowledge of it.
EventUnderWay(p, at, e) ==
    LET i == inst[p]  j == inst[Partner(p)] IN
    /\ Lane(p, at, "rr") /\ BothIn("CONNECTED") /\ Untimed(i) /\ Untimed(j)
    /\ at = "loaded" => RrIs(dll[p].buf, i.seqSend, e)
    /\ at = "arrived" => RrIs(inbox[Partner(p)][1], i.seqSend, e)
    /\ at # "arrived" => i.tx = <<e>> /\ i.txSeq = i.seqSend /\ i.rrInst = TRUE
    /\ at = "arrived" => i.tx = <<>>
    /\ i.rrFlag = (at = "flagged") /\ i.conFlag = FALSE
    /\ Unposted(j)
    /\ inst["server"].rep = e /\ Unowed(inst["client"])
    /\ i.seqSend = Succ(j.seqRecv) /\ InStep(Partner(p), p)
    /\ \A q \in Nodes : inst[q].pingRep = 0

AtRest ==
    /\ \A p \in Nodes : Clear(p) /\ Calm(inst[p]) /\ inst[p].pingRep = 0
    /\ \/ BothIn("DISCONNECTED")
       \/ BothIn("CONNECTED") /\ \A p \in Nodes : InStep(p, Partner(p))

UInv ==
    /\ faults = 0 /\ restarts = 0
    /\ \A p \in Nodes : Plain(p)
    /\ \/ AtRest
       \/ \E p \in Nodes, at \in Place, m \in ConMsg : ConUnderWay(p, at, m)
       \/ \E p \in Nodes, at \in Place, e \in EventId : EventUnderWay(p, at, e)

-----------------------------------------------------------------------------
(* What each function does to an instance in the states of an undisturbed   *)
(* link, field by field.                                                    *)

\* The fields no handshake sets, or only to their values at rest.
Tame(i, j) ==
    /\ j.client = i.client /\ j.pings = i.pings
    /\ i.disableReq = FALSE => j.disableReq = FALSE
    /\ i.breakOn = FALSE => j.breakOn = FALSE
    /\ j.pingOn = TRUE => i.pingOn = TRUE \/ i.pings = TRUE
    /\ j.rrFlag = i.rrFlag
    /\ i.tx = <<>> => j.tx = <<>>
    /\ Unowed(i) => Unowed(j)
    /\ i.pingRep = 0 => j.pingRep = 0

Posts(j, m) == j.conBuf = m /\ j.conInst = TRUE /\ j.conFlag = TRUE

Fresh(j) == j.seqSend = SeqMod - 1 /\ j.seqRecv = SeqMod - 1

SameSeq(i, j) == j.seqSend = i.seqSend /\ j.seqRecv = i.seqRecv
SameTimer(i, j) == j.conTimer = i.conTimer /\ j.conRepeat = i.conRepeat

\* DBAL_enableByInstance, DBAL_disableByInstance
LEMMA AskEffect ==
    ASSUME NEW i \in Instance, NEW s, NEW m
    PROVE  LET j == SendCon([i EXCEPT !.conState = s], m)
           IN  Tame(i, j) /\ Posts(j, m) /\ SameTimer(i, j) /\ SameSeq(i, j) /\ j.conState = s
BY SMT DEF Instance, SendCon, Tame, Posts, SameTimer, SameSeq, Unowed

LEMMA SendConEffect ==
    ASSUME NEW i \in Instance, NEW m
    PROVE  LET j == SendCon(i, m)
           IN  Tame(i, j) /\ Posts(j, m) /\ SameTimer(i, j) /\ SameSeq(i, j) /\ j.conState = i.conState
BY SMT DEF Instance, SendCon, Tame, Posts, SameTimer, SameSeq, Unowed

LEMMA ClearEffect ==
    ASSUME NEW i \in Instance
    PROVE  /\ LET j == ClearRetries(ClearTx(i))
              IN  Tame(i, j) /\ j.conState = i.conState /\ j.conFlag = i.conFlag
           /\ LET j == ClearRetries(ClearMsgs(i))
              IN  Tame(i, j) /\ j.conState = i.conState /\ j.conFlag = i.conFlag
           /\ LET j == Organize(i)
              IN  Tame(i, j) /\ j.conState = i.conState /\ j.conFlag = i.conFlag /\ j.rep = i.rep
BY SMT DEF Instance, ClearRetries, ClearTx, ClearMsgs, Organize, Tame, Unowed

LEMMA TriggerEffect ==
    ASSUME NEW i \in Instance
    PROVE  LET j == TriggerPing(i)
           IN  /\ Tame(i, j) /\ SameTimer(i, j) /\ SameSeq(i, j) /\ j.conState = i.conState
               /\ j.conFlag = i.conFlag /\ j.conInst = i.conInst /\ j.conBuf = i.conBuf
               /\ j.tx = i.tx /\ j.rep = i.rep /\ j.commState = i.commState
               /\ j.disableReq = i.disableReq /\ j.breakOn = i.breakOn
               /\ i.client = TRUE /\ i.pings = TRUE /\ IsOpen(i) => j.pingRep = 0
BY SMT DEF Instance, TriggerPing, IsOpen, Tame, SameTimer, SameSeq, Unowed

LEMMA ToConnectedEffect ==
    ASSUME NEW i \in Instance
    PROVE  LET j == ToConnected(i)
           IN  /\ Tame(i, j) /\ Untimed(j) /\ Fresh(j) /\ j.conState = "CONNECTED"
               /\ j.conFlag = i.conFlag /\ j.conInst = i.conInst /\ j.conBuf = i.conBuf
BY SMT DEF Instance, ToConnected, TriggerPing, Tame, Untimed, Fresh, Unowed

LEMMA ToDisconnectedEffect ==
    ASSUME NEW i \in Instance
    PROVE  LET j == ToDisconnected(i)
           IN  /\ Tame(i, j) /\ Untimed(j) /\ j.conState = "DISCONNECTED"
               /\ j.conFlag = i.conFlag /\ j.conInst = i.conInst /\ j.conBuf = i.conBuf
BY SMT DEF Instance, ToDisconnected, Tame, Untimed, Unowed

LEMMA TameTrans ==
    ASSUME NEW i, NEW j, NEW k, Tame(i, j), Tame(j, k) PROVE Tame(i, k)
BY DEF Tame

\* DBAL_handleConMsg, one lemma for each message of the handshake.
LEMMA GrantEffect ==
    ASSUME NEW i, Good(i), i.conState = "DISCONNECTED"
    PROVE  LET j == HandleConMsg(i, "ENABLE_REQUEST")
           IN  Tame(i, j) /\ Posts(j, "ENABLE_RESPONSE") /\ Untimed(j) /\ Fresh(j)
               /\ j.conState = "CONNECTED"
<1> DEFINE k == ClearRetries(ClearTx(i))
           s == SendCon(k, "ENABLE_RESPONSE")
           c == ToConnected(s)
           j == [c EXCEPT !.breakOn = FALSE]
<1>1. Good(k) BY ClearTxGood, ClearRetriesGood
<1>2. Tame(i, k) /\ k.conState = "DISCONNECTED" BY ClearEffect DEF Good
<1> HIDE DEF k
<1>3. Tame(k, s) /\ Posts(s, "ENABLE_RESPONSE") BY <1>1, SendConEffect DEF Good
<1>4. Good(s) BY <1>1, SendConGood, Enumerated
<1> HIDE DEF s
<1>5. /\ Tame(s, c) /\ Untimed(c) /\ Fresh(c) /\ c.conState = "CONNECTED"
      /\ Posts(c, "ENABLE_RESPONSE")
  BY <1>3, <1>4, ToConnectedEffect DEF Good, Posts
<1>6. Good(c) BY <1>4, ToConnectedGood DEF Good, Sound
<1> HIDE DEF c
<1>7. /\ Tame(c, j) /\ Untimed(j) /\ Fresh(j) /\ j.conState = "CONNECTED"
      /\ Posts(j, "ENABLE_RESPONSE")
  BY <1>5, <1>6, SMT DEF Good, Instance, Tame, Untimed, Fresh, Posts, Unowed
<1>8. HandleConMsg(i, "ENABLE_REQUEST") = j
  BY <1>2, Zenon DEF HandleConMsg, ConnectionSm, InDisconnected, k, s, c
<1>9. Tame(i, j) BY <1>2, <1>3, <1>5, <1>7, TameTrans
<1> QED BY <1>7, <1>8, <1>9

LEMMA AcceptEffect ==
    ASSUME NEW i, Good(i), i.conState = "CONNECTING"
    PROVE  LET j == HandleConMsg(i, "ENABLE_RESPONSE")
           IN  Tame(i, j) /\ Untimed(j) /\ Fresh(j) /\ j.conFlag = i.conFlag
               /\ j.conState = "CONNECTED"
<1> DEFINE k == ClearRetries(ClearTx(i))
<1>1. Good(k) BY ClearTxGood, ClearRetriesGood
<1>2. Tame(i, k) /\ k.conState = "CONNECTING" /\ k.conFlag = i.conFlag BY ClearEffect DEF Good
<1>3. HandleConMsg(i, "ENABLE_RESPONSE") = ToConnected(k)
  BY <1>2, Zenon DEF HandleConMsg, ConnectionSm, InConnecting
<1> HIDE DEF k
<1> QED BY <1>1, <1>2, <1>3, ToConnectedEffect, TameTrans DEF Good

LEMMA ReleaseEffect ==
    ASSUME NEW i, Good(i), i.conState = "CONNECTED", i.rep = NoEvent
    PROVE  LET j == HandleConMsg(i, "DISABLE_REQUEST")
           IN  Tame(i, j) /\ Posts(j, "DISABLE_RESPONSE") /\ Untimed(j)
               /\ j.conState = "DISCONNECTED"
<1> DEFINE o == Organize(i)
           k == ClearRetries(ClearMsgs(o))
           s == SendCon(k, "DISABLE_RESPONSE")
<1>1. Good(o) BY OrganizeGood
<1>2. Tame(i, o) /\ o.conState = "CONNECTED" /\ o.rep = NoEvent BY ClearEffect DEF Good
<1> HIDE DEF o
<1>3. Good(k) BY <1>1, ClearMsgsGood, ClearRetriesGood DEF Good, Sound
<1>4. Tame(o, k) /\ k.conState = "CONNECTED" BY <1>1, <1>2, ClearEffect DEF Good
<1> HIDE DEF k
<1>5. Tame(k, s) /\ Posts(s, "DISABLE_RESPONSE") BY <1>3, SendConEffect DEF Good
<1>6. Good(s) BY <1>3, SendConGood, Enumerated
<1>7. HandleConMsg(i, "DISABLE_REQUEST") = ToDisconnected(s)
  BY <1>2, <1>4, Zenon DEF HandleConMsg, ConnectionSm, InConnected, k, s, o
<1> HIDE DEF s
<1>8. /\ Tame(s, ToDisconnected(s)) /\ Untimed(ToDisconnected(s))
      /\ Posts(ToDisconnected(s), "DISABLE_RESPONSE")
      /\ ToDisconnected(s).conState = "DISCONNECTED"
  BY <1>5, <1>6, ToDisconnectedEffect DEF Good, Posts
<1> QED BY <1>2, <1>4, <1>5, <1>7, <1>8, TameTrans

LEMMA ReleasedEffect ==
    ASSUME NEW i, Good(i), i.conState = "DISCONNECTING"
    PROVE  LET j == HandleConMsg(i, "DISABLE_RESPONSE")
           IN  Tame(i, j) /\ Untimed(j) /\ j.conFlag = i.conFlag /\ j.conState = "DISCONNECTED"
<1> DEFINE k == ClearRetries(ClearMsgs(i))
<1>1. Good(k) BY ClearMsgsGood, ClearRetriesGood DEF Good, Sound
<1>2. Tame(i, k) /\ k.conState = "DISCONNECTING" /\ k.conFlag = i.conFlag BY ClearEffect DEF Good
<1>3. HandleConMsg(i, "DISABLE_RESPONSE") = ToDisconnected(k)
  BY <1>2, Zenon DEF HandleConMsg, ConnectionSm, InDisconnecting
<1> HIDE DEF k
<1> QED BY <1>1, <1>2, <1>3, ToDisconnectedEffect, TameTrans DEF Good

LEMMA PingedEffect ==
    ASSUME NEW i, Good(i), i.conState = "CONNECTED"
    PROVE  /\ LET j == HandleConMsg(i, "PING_REQUEST")
              IN  Tame(i, j) /\ Posts(j, "PING_RESPONSE") /\ SameTimer(i, j) /\ SameSeq(i, j)
                  /\ j.conState = "CONNECTED"
           /\ LET j == HandleConMsg(i, "PING_RESPONSE")
              IN  Tame(i, j) /\ SameTimer(i, j) /\ SameSeq(i, j) /\ j.conFlag = i.conFlag
                  /\ j.conState = "CONNECTED"
                  /\ (i.client = TRUE /\ i.pings = TRUE => j.pingRep = 0)
<1>1. IsOpen(i) BY DEF Good, Sound, Coherent, IsOpen
<1>2. HandleConMsg(i, "PING_REQUEST") = SendCon(i, "PING_RESPONSE")
  BY <1>1, Zenon DEF HandleConMsg
<1>3. HandleConMsg(i, "PING_RESPONSE") = TriggerPing(i)
  BY Zenon DEF HandleConMsg
<1>4. i \in Instance BY DEF Good
<1>5. LET j == SendCon(i, "PING_RESPONSE")
      IN  Tame(i, j) /\ Posts(j, "PING_RESPONSE") /\ SameTimer(i, j) /\ SameSeq(i, j)
          /\ j.conState = "CONNECTED"
  BY <1>4, SendConEffect
<1>6. LET j == TriggerPing(i)
      IN  Tame(i, j) /\ SameTimer(i, j) /\ SameSeq(i, j) /\ j.conFlag = i.conFlag
          /\ j.conState = "CONNECTED" /\ (i.client = TRUE /\ i.pings = TRUE => j.pingRep = 0)
  BY <1>1, <1>4, TriggerEffect
<1> QED BY <1>2, <1>3, <1>5, <1>6, Zenon

\* DbalTransmitCrPost_appLayerConnection, after the first transmission of a request.
LEMMA ConPostEffect ==
    ASSUME NEW i, Good(i), i.conRepeat = 0, i.conFlag = FALSE
    PROVE  LET j == ConPost(i)
           IN  /\ Tame(i, j) /\ SameSeq(i, j) /\ j.conState = i.conState /\ j.conFlag = FALSE
               /\ j.tx = i.tx /\ j.pingRep = i.pingRep
               /\ i.conBuf \notin {"ENABLE_REQUEST", "DISABLE_REQUEST"} => SameTimer(i, j)
<1> DEFINE k == [i EXCEPT !.conTimer = "response", !.conRepeat = i.conRepeat + 1]
           p == PostRepeatTrigger(i)
           asks == i.conBuf \in {"ENABLE_REQUEST", "DISABLE_REQUEST"}
<1>1. i.conRepeat < RetryMax BY InstanceAssumption
<1>2. p = IF asks THEN k ELSE i
  BY <1>1, Zenon DEF PostRepeatTrigger
<1>3. ConPost(i) = IF i.conInst THEN [p EXCEPT !.conInst = FALSE] ELSE i
  BY Zenon DEF ConPost
<1>4. [k EXCEPT !.conInst = FALSE] = [i EXCEPT !.conTimer = "response", !.conRepeat = i.conRepeat + 1, !.conInst = FALSE]
  OBVIOUS
<1>5. LET j == [i EXCEPT !.conTimer = "response", !.conRepeat = i.conRepeat + 1, !.conInst = FALSE]
      IN  /\ Tame(i, j) /\ SameSeq(i, j) /\ j.conState = i.conState /\ j.conFlag = FALSE
          /\ j.tx = i.tx /\ j.pingRep = i.pingRep
  BY SMT DEF Good, Instance, Tame, SameSeq, Unowed
<1>6. LET j == [i EXCEPT !.conInst = FALSE]
      IN  /\ Tame(i, j) /\ SameSeq(i, j) /\ SameTimer(i, j) /\ j.conState = i.conState
          /\ j.conFlag = FALSE /\ j.tx = i.tx /\ j.pingRep = i.pingRep
  BY SMT DEF Good, Instance, Tame, SameSeq, SameTimer, Unowed
<1>7. Tame(i, i) /\ SameSeq(i, i) /\ SameTimer(i, i)
  BY DEF Tame, SameSeq, SameTimer
<1> HIDE DEF k, p, asks
<1>8. CASE asks
  BY <1>2, <1>3, <1>4, <1>5, <1>7, <1>8 DEF asks
<1>9. CASE ~asks
  BY <1>2, <1>3, <1>6, <1>7, <1>9
<1> QED BY <1>8, <1>9

\* DbalTransmitCrPost_appLayerResponse
LEMMA RrPostEffect ==
    ASSUME NEW i, Good(i), i.rrInst = TRUE, i.rrFlag = FALSE
    PROVE  LET j == RrPost(i)
           IN  /\ j.client = i.client /\ j.pings = i.pings /\ j.disableReq = i.disableReq
               /\ j.breakOn = i.breakOn /\ j.rrFlag = FALSE /\ j.conFlag = i.conFlag /\ j.tx = <<>>
               /\ (j.pingOn = TRUE => i.pingOn = TRUE \/ i.pings = TRUE)
               /\ SameTimer(i, j) /\ SameSeq(i, j) /\ j.conState = i.conState
               /\ j.rep = i.rep /\ j.msgTimer = i.msgTimer
               /\ (i.pingRep = 0 => j.pingRep = 0)
BY SMT DEF Good, Instance, RrPost, TriggerPing, ClearTx, SameTimer, SameSeq

\* What is left alone when a frame is queued, sent or received.
Steady(i, j) ==
    /\ j.client = i.client /\ j.pings = i.pings /\ j.disableReq = i.disableReq
    /\ j.breakOn = i.breakOn
    /\ (j.pingOn = TRUE => i.pingOn = TRUE \/ i.pings = TRUE)
    /\ SameTimer(i, j) /\ j.conState = i.conState /\ j.conFlag = i.conFlag
    /\ (i.pingRep = 0 => j.pingRep = 0)

Queued(j, e) == j.tx = <<e>> /\ j.txSeq = j.seqSend /\ j.rrInst = TRUE /\ j.rrFlag = TRUE

LEMMA SteadyTrans ==
    ASSUME NEW i, NEW j, NEW k, Steady(i, j), Steady(j, k) PROVE Steady(i, k)
BY DEF Steady, SameTimer

\* A frame with a sequence id of its own is queued in an empty buffer.
LEMMA QueueEffect ==
    ASSUME NEW i \in Instance, i.tx = <<>>, NEW e \in EventId
    PROVE  LET h == PrepareHeader(i, 0)  j == QueueFrame(h, e)
           IN  /\ Steady(i, j) /\ Queued(j, e) /\ j.seqSend = Succ(i.seqSend)
               /\ j.seqRecv = i.seqRecv /\ j.rep = i.rep /\ j.msgTimer = i.msgTimer
<1> DEFINE s == Succ(i.seqSend)
           h == [i EXCEPT !.seqSend = s, !.txSeq = s]
<1>1. PrepareHeader(i, 0) = h BY DEF PrepareHeader, Succ
<1>2. /\ Steady(i, h) /\ h.tx = <<>> /\ h.txSeq = s /\ h.seqSend = s /\ h.seqRecv = i.seqRecv
      /\ h.rep = i.rep /\ h.msgTimer = i.msgTimer
      /\ {"tx", "rrInst", "rrFlag", "retryRr"} \subseteq DOMAIN h
  <2> HIDE DEF s
  <2> QED BY SMT DEF Instance, Steady, SameTimer
<1>3. LET j == QueueFrame(h, e)
      IN  /\ Steady(h, j) /\ j.tx = Append(<<>>, e) /\ j.rrInst = TRUE /\ j.rrFlag = TRUE
          /\ j.txSeq = h.txSeq /\ j.seqSend = h.seqSend /\ j.seqRecv = h.seqRecv
          /\ j.rep = h.rep /\ j.msgTimer = h.msgTimer
  <2> HIDE DEF h
  <2> QED BY <1>2, SMT DEF QueueFrame, Steady, SameTimer
<1>4. Append(<<>>, e) = <<e>> OBVIOUS
<1> HIDE DEF h
<1> QED BY <1>1, <1>2, <1>3, <1>4, SteadyTrans DEF Queued, s

\* DBALCR_sendEvent on a link at rest
LEMMA SendEffect ==
    ASSUME NEW i, Good(i), i.commState = "READY", i.tx = <<>>, i.rep = NoEvent, NEW e \in EventId
    PROVE  LET j == SendEvent(i, e, 0)
           IN  /\ SendAccepted(i, e, 0)
               /\ Steady(i, j) /\ Queued(j, e) /\ j.rep = e
               /\ j.seqSend = Succ(i.seqSend) /\ j.seqRecv = i.seqRecv
<1> DEFINE s == Succ(i.seqSend)
           h == [i EXCEPT !.seqSend = s, !.txSeq = s]
           k == [h EXCEPT !.rep = e, !.repCnt = 0, !.msgTimer = TRUE]
           j == QueueFrame(k, e)
<1>1. i.rep # e /\ Len(<<>>) = 0 /\ Append(<<>>, e) = <<e>>
  BY DEF NoEvent, EventId
<1>2. SendAccepted(i, e, 0)
  BY <1>1, InstanceAssumption DEF SendAccepted, HasRoom
<1>3. PrepareHeader(i, 0) = h BY DEF PrepareHeader, Succ
<1>4. SendEvent(i, e, 0) = j
  BY <1>1, <1>2, <1>3, Zenon DEF SendEvent
<1>5. /\ Steady(i, h) /\ h.tx = <<>> /\ h.txSeq = s /\ h.seqSend = s /\ h.seqRecv = i.seqRecv
      /\ {"rep", "repCnt", "msgTimer", "tx", "rrInst", "rrFlag", "retryRr"} \subseteq DOMAIN h
  <2> HIDE DEF s
  <2> QED BY SMT DEF Good, Instance, Steady, SameTimer
<1>6. /\ Steady(h, j) /\ j.tx = Append(<<>>, e) /\ j.rrInst = TRUE /\ j.rrFlag = TRUE
      /\ j.txSeq = h.txSeq /\ j.seqSend = h.seqSend /\ j.seqRecv = h.seqRecv /\ j.rep = e
  <2> HIDE DEF h
  <2>1. /\ Steady(h, k) /\ k.tx = <<>> /\ k.txSeq = h.txSeq /\ k.seqSend = h.seqSend
        /\ k.seqRecv = h.seqRecv /\ k.rep = e
        /\ {"tx", "rrInst", "rrFlag", "retryRr"} \subseteq DOMAIN k
    BY <1>5, SMT DEF Steady, SameTimer
  <2> HIDE DEF k
  <2>2. /\ Steady(k, j) /\ j.tx = Append(<<>>, e) /\ j.rrInst = TRUE /\ j.rrFlag = TRUE
        /\ j.txSeq = k.txSeq /\ j.seqSend = k.seqSend /\ j.seqRecv = k.seqRecv /\ j.rep = k.rep
    BY <2>1, SMT DEF QueueFrame, Steady, SameTimer
  <2> QED BY <2>1, <2>2, SteadyTrans
<1> HIDE DEF h, j, k
<1> QED BY <1>1, <1>2, <1>4, <1>5, <1>6, SteadyTrans DEF Queued, s

\* The client acknowledges the one event it received.
LEMMA DeliverEffect ==
    ASSUME NEW i, Good(i), i.conState = "CONNECTED", Unposted(i), Unowed(i),
           NEW s \in SeqId, NEW e \in EventId
    PROVE  LET j == ReceiveEvents(i, s, <<e>>)
           IN  /\ Steady(i, j) /\ Queued(j, e) /\ Unowed(j)
               /\ j.seqSend = Succ(i.seqSend) /\ j.seqRecv = s
<1> DEFINE k == [i EXCEPT !.seqRecv = s]
           t == TriggerPing(k)
           j == QueueFrame(PrepareHeader(t, 0), e)
<1>1. k \in Instance BY Zenon DEF Good, Instance
<1>2. /\ Steady(i, k) /\ Unowed(k) /\ k.seqRecv = s /\ k.seqSend = i.seqSend
      /\ k.tx = <<>> /\ k.commState = "READY"
  BY SMT DEF Good, Sound, Coherent, Instance, Steady, SameTimer, Unowed, Unposted
<1>3. Good(k)
  <2>1. Sound(k) BY SMT DEF Good, Sound, Coherent, Timed, Pinging, Instance
  <2> QED BY <1>1, <2>1 DEF Good
<1> HIDE DEF k
<1>4. Good(t) BY <1>3, TriggerPingGood
<1>5. /\ Steady(k, t) /\ Unowed(t) /\ t.seqRecv = s /\ t.seqSend = i.seqSend
      /\ t.tx = <<>> /\ t.commState = "READY"
  <2>1. /\ Tame(k, t) /\ SameTimer(k, t) /\ SameSeq(k, t) /\ t.conState = k.conState
        /\ t.conFlag = k.conFlag /\ t.tx = k.tx /\ t.commState = k.commState
        /\ t.disableReq = k.disableReq /\ t.breakOn = k.breakOn
    BY <1>1, TriggerEffect
  <2> QED BY <1>2, <2>1 DEF Steady, SameSeq, Tame
<1> HIDE DEF t
<1>6. SendAck(t, e) = j
  BY <1>5, InstanceAssumption DEF SendAck, HasRoom
<1>7. ReceiveEvents(i, s, <<e>>) = j
  <2>1. TakeEvent(k, <<e>>, 1) = j
    <3>1. Len(<<e>>) = 1 /\ <<e>>[1] = e /\ ~(1 > 1) /\ 1 <= 1 /\ NeedsAck(<<e>>, 1)
      BY DEF NeedsAck
    <3> QED BY <1>6, <3>1, Zenon DEF TakeEvent, t
  <2>2. TakeEvent(j, <<e>>, 2) = j
    <3>1. Len(<<e>>) = 1 /\ 2 > 1 OBVIOUS
    <3> HIDE DEF j
    <3> QED BY <3>1 DEF TakeEvent
  <2> QED BY <2>1, <2>2, Zenon DEF ReceiveEvents, k
<1>8. /\ Steady(t, j) /\ Queued(j, e) /\ j.seqSend = Succ(t.seqSend)
      /\ j.seqRecv = t.seqRecv /\ Unowed(j)
  BY <1>4, <1>5, QueueEffect DEF Good, Unowed
<1> HIDE DEF j
<1> QED BY <1>2, <1>5, <1>7, <1>8, SteadyTrans

\* The acknowledge frees the slot of its event.
LEMMA AckEffect ==
    ASSUME NEW i, Good(i), i.disableReq = FALSE, NEW s \in SeqId, NEW e \in EventId, i.rep = e
    PROVE  LET j == ReceiveAcks(i, s, <<e>>)
           IN  /\ Steady(i, j) /\ Unowed(j) /\ j.rrFlag = i.rrFlag /\ j.tx = i.tx
               /\ j.seqSend = i.seqSend /\ j.seqRecv = s
<1> DEFINE hit == \E k \in 1 .. Len(<<e>>) : i.rep # NoEvent /\ Kind(<<e>>[k]) = Kind(i.rep)
           r == IF hit THEN NoEvent ELSE i.rep
           k == [i EXCEPT !.seqRecv = s, !.rep = r]
           o == Organize(k)
<1>1. r = NoEvent
  <2>1. 1 \in 1 .. Len(<<e>>) /\ <<e>>[1] = i.rep /\ i.rep # NoEvent BY DEF EventId, NoEvent
  <2>2. hit BY <2>1
  <2> QED BY <2>2
<1>2. /\ Steady(i, o) /\ Unowed(o) /\ o.rrFlag = i.rrFlag /\ o.tx = i.tx
      /\ o.seqSend = i.seqSend /\ o.seqRecv = s /\ o.disableReq = FALSE
  <2> HIDE DEF r
  <2> QED BY <1>1, SMT DEF Good, Instance, Organize, Steady, SameTimer, Unowed
<1>3. ReceiveAcks(i, s, <<e>>) = IF o.rep = NoEvent /\ o.disableReq
        THEN ConnectionSm(ClearRetries(ClearMsgs(o)), "DISABLE_REQUEST") ELSE o
  BY Zenon DEF ReceiveAcks
<1> HIDE DEF o
<1> QED BY <1>2, <1>3

LEMMA ModSmall == ASSUME NEW m \in Nat \ {0}, NEW x \in 0 .. m - 1 PROVE x % m = x
OBVIOUS

LEMMA ModOnce == ASSUME NEW m \in Nat \ {0}, NEW x \in m .. 2 * m - 1 PROVE x % m = x - m
OBVIOUS

\* The sequence id after the last one received is taken, those ids being enough.
LEMMA SuccTaken ==
    ASSUME NEW i, Good(i), i.conState = "CONNECTED", SeqMod >= 4
    PROVE  ~IsIgnored(i, Succ(i.seqRecv)) /\ Succ(i.seqRecv) \in SeqId
<1>1. i.seqRecv \in 0 .. SeqMod - 1 /\ i.commState = "READY" /\ SeqMod \in Nat
  BY InstanceAssumption DEF Good, Sound, Coherent, Instance, SeqId
<1> DEFINE r == i.seqRecv
<1>2. (Succ(r) + SeqMod - r) % SeqMod = 1
  <2>1. CASE r + 1 < SeqMod
    <3>1. Succ(r) = r + 1 BY <1>1, <2>1, ModSmall DEF Succ
    <3>2. Succ(r) + SeqMod - r = SeqMod + 1 BY <1>1, <3>1
    <3> QED BY <1>1, <3>2, ModOnce
  <2>2. CASE r + 1 = SeqMod
    <3>1. Succ(r) = 0 BY <1>1, <2>2, ModOnce DEF Succ
    <3>2. Succ(r) + SeqMod - r = 1 BY <1>1, <2>2, <3>1
    <3> QED BY <1>1, <3>2, ModSmall
  <2> QED BY <1>1, <2>1, <2>2
<1>3. (SeqMod \div 2) - 1 >= 1 BY <1>1
<1>4. Succ(r) \in SeqId BY <1>1, NextSeqId DEF Succ, SeqId
<1> QED BY <1>1, <1>2, <1>3, <1>4 DEF IsIgnored

-----------------------------------------------------------------------------
(* The steps of an undisturbed link.                                        *)

PhaseStep == Sessions!Next \/ Phase' = Phase

LEMMA Sides ==
    ASSUME NEW p \in Nodes
    PROVE  /\ Partner(p) \in Nodes /\ Partner(p) # p /\ Partner(Partner(p)) = p
           /\ \A r \in Nodes : r = p \/ r = Partner(p)
           /\ Sessions!Other(p) = Partner(p)
<1>1. \E r \in Nodes : r # p BY DEF Nodes
<1>2. Sessions!Other(p) \in Nodes /\ Sessions!Other(p) # p BY <1>1 DEF Sessions!Other
<1> QED BY <1>2 DEF Nodes, Partner

\* A step that replaces one instance moves one side of the session.
LEMMA SideMoved ==
    ASSUME IInv, NEW p \in Nodes, NEW j, inst' = [inst EXCEPT ![p] = j]
    PROVE  /\ Sessions!Move(p, j.conState)
           /\ j.conState = inst[p].conState => Phase' = Phase
           /\ inst'[p] = j /\ inst'[Partner(p)] = inst[Partner(p)]
<1>1. inst \in [Nodes -> Instance] BY DEF IInv, InstOK
<1>2. inst'[p] = j /\ inst'[Partner(p)] = inst[Partner(p)] BY <1>1, Sides
<1>3. Phase' = [Phase EXCEPT ![p] = j.conState]
  BY <1>1, <1>2 DEF Phase
<1> QED BY <1>2, <1>3 DEF Sessions!Move, Phase

LEMMA PlainTame ==
    ASSUME NEW r \in Nodes, Plain(r), Tame(inst[r], inst'[r]), brk' = brk, wakeup' = wakeup
    PROVE  Plain(r)'
BY DEF Plain, Tame

LEMMA PlainSteady ==
    ASSUME NEW r \in Nodes, Plain(r), Steady(inst[r], inst'[r]), brk' = brk, wakeup' = wakeup
    PROVE  Plain(r)'
BY DEF Plain, Steady

LEMMA TameSelf == \A i : Tame(i, i) /\ Steady(i, i)
BY DEF Tame, Steady, SameTimer

\* Both ends stay plain when one is changed tamely.
LEMMA PlainKept ==
    ASSUME UInv, NEW p \in Nodes, inst'[Partner(p)] = inst[Partner(p)],
           Tame(inst[p], inst'[p]) \/ Steady(inst[p], inst'[p]),
           UNCHANGED <<brk, wakeup, faults, restarts>>
    PROVE  (\A r \in Nodes : Plain(r)') /\ faults' = 0 /\ restarts' = 0
BY Sides, PlainTame, PlainSteady, TameSelf DEF UInv

\* The link layers and the inboxes while the message is passed on.
LEMMA LaneStart ==
    ASSUME IInv, NEW p \in Nodes, Flagged(p), NEW x, NEW f,
           dll' = [dll EXCEPT ![p] = [stage |-> "loaded", idx |-> x, status |-> "ok", buf |-> f]],
           inbox' = inbox
    PROVE  Loaded(p, x)' /\ dll'[p].buf = f
BY Sides DEF IInv, LinkOK, Flagged, Loaded, Clear

LEMMA LaneTransmit ==
    ASSUME IInv, NEW p \in Nodes, NEW x, Loaded(p, x), Transmit(p, Clean)
    PROVE  Arrived(p)' /\ inbox'[Partner(p)][1] = dll[p].buf
<1> DEFINE q == Partner(p)
           f == dll[p].buf
           more == [k \in 1 .. Clean[1] |-> f]
<1>1. more = <<f>> BY DEF Clean
<1>2. inbox[q] = <<>> /\ inbox[p] = <<>> /\ dll[q].stage = "idle" BY DEF Loaded, Clear
<1>3. inbox' = [inbox EXCEPT ![q] = inbox[q] \o more]
  BY Zenon DEF Transmit, OnBus
<1>4. inbox[q] \o more = <<f>> BY <1>1, <1>2
<1>5. inbox'[q] = <<f>> /\ inbox'[p] = <<>>
  BY <1>2, <1>3, <1>4, Sides DEF IInv, LinkOK
<1>6. dll'[p].stage = "idle" /\ dll'[q].stage = "idle"
  BY <1>2, Sides DEF Transmit, IInv, LinkOK, Dll
<1> QED BY <1>5, <1>6 DEF Arrived, Clear

LEMMA LaneReceive ==
    ASSUME IInv, NEW p \in Nodes, Arrived(p), Receive(Partner(p))
    PROVE  Clear(p)' /\ Clear(Partner(p))' /\ Head(inbox[Partner(p)]) = inbox[Partner(p)][1]
<1> DEFINE q == Partner(p)
<1>1. inbox[q] \in Seq(Frame) /\ Len(inbox[q]) = 1
  BY Sides DEF IInv, LinkOK, Arrived
<1>2. Tail(inbox[q]) = <<>> /\ Head(inbox[q]) = inbox[q][1]
  <2> DEFINE t == Tail(inbox[q])
  <2>1. t \in Seq(Frame) /\ Len(t) = 0 /\ Head(inbox[q]) = inbox[q][1] BY <1>1
  <2> HIDE DEF t
  <2>2. t = <<>> BY <2>1
  <2> QED BY <2>1, <2>2 DEF t
<1>3. inbox' = [inbox EXCEPT ![q] = Tail(inbox[q])] /\ dll' = dll BY DEF Receive
<1>4. inbox'[q] = <<>> /\ inbox'[p] = inbox[p] BY <1>2, <1>3, Sides DEF IInv, LinkOK
<1> QED BY <1>2, <1>3, <1>4 DEF Arrived, Clear

\* What may happen at rest, and while a message is on its way.
LEMMA StepsAtRest ==
    ASSUME Undisturbed, IInv, UInv, AtRest, Next
    PROVE  \/ \E p \in Nodes : Enable(p) \/ Disable(p)
           \/ \E e \in EventId : Send(e)
           \/ PingTimerFires("client")
<1>1. ASSUME NEW p \in Nodes, Work(p) PROVE FALSE
  <2>1. /\ dll[p].stage = "idle" /\ inbox[p] = <<>> /\ inst[p].conFlag = FALSE
        /\ inst[p].rrFlag = FALSE /\ brk[p] = FALSE /\ wakeup[p] = FALSE
    BY DEF AtRest, Clear, Calm, Unposted, UInv, Plain
  <2> QED BY <1>1, <2>1 DEF Work, StartTx, Transmit, TransmitUnconfirmed, Confirm, Receive,
        BreakSeen, NodeToBeWokenUp
<1>2. ASSUME NEW p \in Nodes, Timers(p) PROVE PingTimerFires("client")
  <2>1. inst[p].conTimer = "off" /\ inst[p].msgTimer = FALSE /\ inst[p].breakOn = FALSE
    BY DEF AtRest, Calm, Untimed, Unowed, UInv, Plain
  <2>2. PingTimerFires(p)
    BY <1>2, <2>1 DEF Timers, ConMsgTimerFires, MsgTimerFires, BreakTimerFires
  <2>3. p = "client"
    BY <2>2 DEF PingTimerFires, IInv, InstOK, Good, Sound, Pinging, Instance, UInv, Plain
  <2> QED BY <2>2, <2>3
<1>3. ASSUME NEW p \in Nodes, Restart(p) PROVE FALSE
  BY <1>3 DEF Restart, UInv, AtRest, Clear
<1> QED BY <1>1, <1>2, <1>3 DEF Next, AppCall

OnItsWay(p, at, x) ==
    /\ Lane(p, at, x)
    /\ inst[p].conFlag = (x = "con" /\ at = "flagged")
    /\ inst[p].rrFlag = (x = "rr" /\ at = "flagged")
    /\ Unposted(inst[Partner(p)])
    /\ at = "loaded" /\ x = "rr" => inst[p].rrInst = TRUE

LEMMA StepsUnderWay ==
    ASSUME Undisturbed, IInv, UInv, NEW p \in Nodes, NEW at \in Place, NEW x \in Channel,
           OnItsWay(p, at, x), Next
    PROVE  \/ at = "flagged" /\ StartTx(p)
           \/ at = "loaded" /\ Transmit(p, Clean)
           \/ at = "arrived" /\ Receive(Partner(p))
<1> DEFINE q == Partner(p)
<1>1. /\ at = "flagged" => Flagged(p)
      /\ at = "loaded" => Loaded(p, x)
      /\ at = "arrived" => Arrived(p)
  BY DEF OnItsWay, Lane
<1>2. ~LinkIdle
  <2>1. CASE at = "flagged"
    BY <2>1 DEF OnItsWay, LinkIdle, Channel
  <2>2. CASE at = "loaded"
    BY <1>1, <2>2 DEF LinkIdle, Loaded
  <2>3. CASE at = "arrived"
    <3>1. Len(inbox[q]) = 1 /\ q \in Nodes BY <1>1, <2>3, Sides DEF Arrived
    <3>2. Len(<<>>) = 0 OBVIOUS
    <3> QED BY <3>1, <3>2 DEF LinkIdle
  <2> QED BY <2>1, <2>2, <2>3 DEF Place
<1>3. ~AppCall
  BY <1>2 DEF AppCall, Enable, Disable, Send, Call, Undisturbed
<1>4. ASSUME NEW r \in Nodes PROVE ~Timers(r)
  BY <1>2 DEF Timers, ConMsgTimerFires, MsgTimerFires, PingTimerFires, BreakTimerFires,
     TimerMayFire, Undisturbed
<1>5. \A r \in Nodes : dll[r].stage # "sent"
  BY <1>1, Sides DEF Flagged, Loaded, Arrived, Clear, Place
<1>6. ASSUME NEW r \in Nodes PROVE ~Restart(r) /\ ~Confirm(r)
  BY <1>5 DEF Restart, Confirm, UInv
<1>7. ASSUME NEW r \in Nodes PROVE ~BreakSeen(r) /\ ~NodeToBeWokenUp(r)
  BY DEF BreakSeen, NodeToBeWokenUp, UInv, Plain
<1>8. ASSUME NEW r \in Nodes, StartTx(r) PROVE at = "flagged" /\ StartTx(p)
  BY <1>1, <1>8, Sides DEF StartTx, OnItsWay, Loaded, Unposted, Place
<1>9. ASSUME NEW r \in Nodes, dll[r].stage = "loaded"
      PROVE  at = "loaded" /\ r = p /\ dll[p].idx = x
  BY <1>1, <1>9, Sides DEF Flagged, Loaded, Arrived, Clear, Place
<1>10. ASSUME NEW r \in Nodes, NEW o, OnBus(r, o) PROVE o = Clean
  BY <1>10 DEF OnBus, UInv
<1>11. ASSUME NEW r \in Nodes, NEW o, Transmit(r, o) PROVE at = "loaded" /\ Transmit(p, Clean)
  BY <1>9, <1>10, <1>11 DEF Transmit
<1>12. ASSUME NEW r \in Nodes, NEW o PROVE ~TransmitUnconfirmed(r, o)
  BY <1>9 DEF TransmitUnconfirmed, WritesNull, OnItsWay, Undisturbed
<1>13. ASSUME NEW r \in Nodes, Receive(r) PROVE at = "arrived" /\ Receive(q)
  <2>1. inbox[r] # <<>> /\ (r = p \/ r = q) BY <1>13, Sides DEF Receive
  <2>2. at # "arrived" => inbox[p] = <<>> /\ inbox[q] = <<>>
    BY <1>1 DEF Flagged, Loaded, Clear, Place
  <2>3. at = "arrived" => inbox[p] = <<>> BY <1>1 DEF Arrived, Clear
  <2> QED BY <1>13, <2>1, <2>2, <2>3
<1>14. ASSUME NEW r \in Nodes, Work(r)
       PROVE  \/ at = "flagged" /\ StartTx(p)
              \/ at = "loaded" /\ Transmit(p, Clean)
              \/ at = "arrived" /\ Receive(q)
  BY <1>6, <1>7, <1>8, <1>11, <1>12, <1>13, <1>14 DEF Work
<1> QED BY <1>3, <1>4, <1>6, <1>14 DEF Next

\* A connection message is passed on: nothing but the sender's flag, timer and
\* pointer change.
LEMMA ExchangeKept ==
    ASSUME NEW p \in Nodes, NEW m \in ConMsg, Exchange(m, p), inst'[Partner(p)] = inst[Partner(p)],
           inst'[p].conState = inst[p].conState, SameSeq(inst[p], inst'[p]),
           m \notin {"ENABLE_REQUEST", "DISABLE_REQUEST"} => SameTimer(inst[p], inst'[p])
    PROVE  Exchange(m, p)'
<1> USE Sides
<1>1. CASE m = "ENABLE_REQUEST" BY <1>1 DEF Exchange, Untimed
<1>2. CASE m = "ENABLE_RESPONSE" BY <1>2 DEF Exchange, Untimed, SameSeq, SameTimer
<1>3. CASE m = "DISABLE_REQUEST" BY <1>3 DEF Exchange, Untimed
<1>4. CASE m = "DISABLE_RESPONSE" BY <1>4 DEF Exchange, Untimed, SameTimer
<1>5. CASE m \in {"PING_REQUEST", "PING_RESPONSE"}
  <2>1. BothIn("CONNECTED") /\ InStep(p, Partner(p)) /\ InStep(Partner(p), p)
        /\ Untimed(inst[p]) /\ Untimed(inst[Partner(p)]) /\ Pings
        /\ p = IF m = "PING_REQUEST" THEN "client" ELSE "server"
    BY <1>5 DEF Exchange
  <2>2. BothIn("CONNECTED")' BY <2>1 DEF BothIn
  <2>3. InStep(p, Partner(p))' /\ InStep(Partner(p), p)' BY <2>1 DEF InStep, SameSeq
  <2>4. Untimed(inst'[p]) /\ Untimed(inst'[Partner(p)]) BY <1>5, <2>1 DEF Untimed, SameTimer
  <2> QED BY <1>5, <2>1, <2>2, <2>3, <2>4 DEF Exchange
<1> QED BY <1>1, <1>2, <1>3, <1>4, <1>5 DEF ConMsg

LEMMA ConStart ==
    ASSUME IInv, UInv, NEW p \in Nodes, NEW m \in ConMsg, ConUnderWay(p, "flagged", m), StartTx(p)
    PROVE  UInv' /\ PhaseStep
<1> DEFINE i == inst[p]
           q == Partner(p)
           c == [i EXCEPT !.conFlag = FALSE]
           d == [stage |-> "loaded", idx |-> "con", status |-> "ok", buf |-> ConFrame(p)]
<1>1. /\ Lane(p, "flagged", "con") /\ Exchange(m, p) /\ i.conBuf = m /\ i.conInst = TRUE
      /\ Untimed(i) /\ i.conFlag = TRUE /\ i.rrFlag = FALSE /\ i.tx = <<>>
      /\ Unposted(inst[q]) /\ Unowed(i) /\ Unowed(inst[q]) /\ inst["server"].pingRep = 0
      /\ m \notin {"PING_REQUEST", "PING_RESPONSE"} => inst["client"].pingRep = 0
  BY Zenon DEF ConUnderWay
<1>2. inst' = [inst EXCEPT ![p] = c] /\ dll' = [dll EXCEPT ![p] = d]
  BY <1>1 DEF StartTx
<1>3. UNCHANGED <<inbox, brk, wakeup, faults, restarts>> BY DEF StartTx
<1>4. /\ Tame(i, c) /\ SameTimer(i, c) /\ SameSeq(i, c) /\ c.conState = i.conState
      /\ c.conBuf = i.conBuf /\ c.conInst = i.conInst /\ c.conFlag = FALSE
      /\ c.pingRep = i.pingRep /\ c.tx = i.tx
  BY SMT DEF IInv, InstOK, Instance, Tame, SameTimer, SameSeq, Unowed
<1>5. inst'[p] = c /\ inst'[q] = inst[q] /\ Phase' = Phase
  <2> HIDE DEF c
  <2> QED BY <1>2, <1>4, SideMoved
<1> HIDE DEF c
<1>6. ConIs(ConFrame(p), m)
  BY <1>1 DEF ConFrame, ConIs, IInv, LinkOK, Dll, Frame
<1> HIDE DEF d
<1>7. Loaded(p, "con")' /\ dll'[p].buf = ConFrame(p)
  BY <1>1, <1>2, <1>3, LaneStart DEF d, Lane
<1>8. (\A r \in Nodes : Plain(r)') /\ faults' = 0 /\ restarts' = 0
  BY <1>3, <1>4, <1>5, PlainKept
<1>9. Exchange(m, p)' BY <1>1, <1>4, <1>5, ExchangeKept
<1>10. ConUnderWay(p, "loaded", m)'
  <2>1. Lane(p, "loaded", "con")' BY <1>7 DEF Lane
  <2>2. inst'["server"].pingRep = inst["server"].pingRep /\ inst'["client"].pingRep = inst["client"].pingRep
    BY <1>4, <1>5, Sides, NodesOpposite
  <2>3. Untimed(inst'[p]) /\ Unowed(inst'[p]) BY <1>1, <1>4, <1>5 DEF Untimed, SameTimer, Tame
  <2> QED BY <1>1, <1>4, <1>5, <1>6, <1>7, <1>9, <2>1, <2>2, <2>3 DEF ConUnderWay, Tame
<1> QED BY <1>5, <1>8, <1>10 DEF UInv, PhaseStep, Place

LEMMA ConTransmit ==
    ASSUME IInv, UInv, NEW p \in Nodes, NEW m \in ConMsg, ConUnderWay(p, "loaded", m),
           Transmit(p, Clean)
    PROVE  UInv' /\ PhaseStep
<1> DEFINE i == inst[p]
           q == Partner(p)
           c == ConPost(i)
<1>1. /\ Lane(p, "loaded", "con") /\ Exchange(m, p) /\ ConIs(dll[p].buf, m)
      /\ i.conBuf = m /\ Untimed(i) /\ i.conFlag = FALSE /\ i.rrFlag = FALSE /\ i.tx = <<>>
      /\ Unposted(inst[q]) /\ Unowed(i) /\ Unowed(inst[q]) /\ inst["server"].pingRep = 0
      /\ m \notin {"PING_REQUEST", "PING_RESPONSE"} => inst["client"].pingRep = 0
  BY Zenon DEF ConUnderWay
<1>2. dll[p].idx = "con" /\ Loaded(p, "con") BY <1>1 DEF Lane, Loaded
<1>3. inst' = [inst EXCEPT ![p] = c]
  BY <1>2 DEF Transmit, ConfirmTo, Confirmed, Clean
<1>4. brk' = brk
  BY Sides, <1>2 DEF Transmit, ConfirmTo, SendsBreak, Clean, IInv, BreaksOK
<1>5. UNCHANGED <<wakeup, faults, restarts>> BY DEF Transmit, OnBus
<1>6. /\ Tame(i, c) /\ SameSeq(i, c) /\ c.conState = i.conState /\ c.conFlag = FALSE
      /\ c.tx = i.tx /\ c.pingRep = i.pingRep
      /\ m \notin {"ENABLE_REQUEST", "DISABLE_REQUEST"} => SameTimer(i, c)
  BY <1>1, ConPostEffect DEF IInv, InstOK, Untimed
<1> HIDE DEF c
<1>7. inst'[p] = c /\ inst'[q] = inst[q] /\ Phase' = Phase
  BY <1>3, <1>6, SideMoved
<1>8. Arrived(p)' /\ inbox'[q][1] = dll[p].buf
  BY <1>2, LaneTransmit
<1>9. (\A r \in Nodes : Plain(r)') /\ faults' = 0 /\ restarts' = 0
  BY <1>4, <1>5, <1>6, <1>7, PlainKept
<1>10. Exchange(m, p)' BY <1>1, <1>6, <1>7, ExchangeKept
<1>11. ConUnderWay(p, "arrived", m)'
  <2>1. Lane(p, "arrived", "con")' BY <1>8 DEF Lane
  <2>2. inst'["server"].pingRep = inst["server"].pingRep /\ inst'["client"].pingRep = inst["client"].pingRep
    BY <1>6, <1>7, Sides, NodesOpposite
  <2>3. Unowed(inst'[p]) /\ inst'[p].rrFlag = FALSE BY <1>1, <1>6, <1>7 DEF Tame
  <2> QED BY <1>1, <1>6, <1>7, <1>8, <1>10, <2>1, <2>2, <2>3 DEF ConUnderWay
<1> QED BY <1>7, <1>9, <1>11 DEF UInv, PhaseStep, Place

\* A connection message is taken by its receiver.
LEMMA ConTaken ==
    ASSUME IInv, UInv, NEW p \in Nodes, NEW m \in ConMsg, ConUnderWay(p, "arrived", m),
           Receive(Partner(p)), NEW j, j = HandleConMsg(inst[Partner(p)], m),
           Tame(inst[Partner(p)], j)
    PROVE  /\ Clear(p)' /\ Clear(Partner(p))'
           /\ inst'[Partner(p)] = j /\ inst'[p] = inst[p]
           /\ Sessions!Move(Partner(p), j.conState)
           /\ j.conState = inst[Partner(p)].conState => Phase' = Phase
           /\ (\A r \in Nodes : Plain(r)') /\ faults' = 0 /\ restarts' = 0
<1> DEFINE q == Partner(p)
<1>1. Arrived(p) /\ ConIs(inbox[q][1], m) BY DEF ConUnderWay, Lane
<1>2. Clear(p)' /\ Clear(q)' /\ Head(inbox[q]) = inbox[q][1] BY <1>1, LaneReceive
<1>3. inst' = [inst EXCEPT ![q] = j]
  BY <1>1, <1>2 DEF Receive, Received, ConIs
<1>4. /\ Sessions!Move(q, j.conState) /\ inst'[q] = j /\ inst'[p] = inst[p]
      /\ j.conState = inst[q].conState => Phase' = Phase
  <2>1. q \in Nodes /\ Partner(q) = p BY Sides
  <2>2. /\ Sessions!Move(q, j.conState) /\ inst'[q] = j /\ inst'[Partner(q)] = inst[Partner(q)]
        /\ j.conState = inst[q].conState => Phase' = Phase
    BY <1>3, <2>1, SideMoved, Zenon
  <2> QED BY <2>1, <2>2
<1>5. UNCHANGED <<brk, wakeup, faults, restarts>> BY DEF Receive
<1>6. (\A r \in Nodes : Plain(r)') /\ faults' = 0 /\ restarts' = 0
  BY <1>4, <1>5, Sides, PlainKept
<1> QED BY <1>2, <1>4, <1>6

\* What is known of the two instances when it is.
LEMMA ConSides ==
    ASSUME IInv, UInv, NEW p \in Nodes, NEW m \in ConMsg, ConUnderWay(p, "arrived", m)
    PROVE  /\ Good(inst[p]) /\ Good(inst[Partner(p)])
           /\ Exchange(m, p) /\ Unposted(inst[p]) /\ Unposted(inst[Partner(p)])
           /\ Unowed(inst[p]) /\ Unowed(inst[Partner(p)])
           /\ inst["server"].pingRep = 0
           /\ m \notin {"PING_REQUEST", "PING_RESPONSE"} => inst["client"].pingRep = 0
BY Sides DEF ConUnderWay, IInv, InstOK, Unposted

\* Both sides have zero pings to answer when neither did and one changed tamely.
LEMMA PingsKept ==
    ASSUME NEW q \in Nodes, NEW r \in Nodes, inst[r].pingRep = 0,
           Tame(inst[q], inst'[q]), inst'[Partner(q)] = inst[Partner(q)]
    PROVE  inst'[r].pingRep = 0
BY Sides DEF Tame

\* ENABLE_REQUEST is answered by a side that is open before the answer is sent.
LEMMA EnableRequestTaken ==
    ASSUME IInv, UInv, NEW p \in Nodes, ConUnderWay(p, "arrived", "ENABLE_REQUEST"),
           Receive(Partner(p))
    PROVE  UInv' /\ PhaseStep
<1> DEFINE m == "ENABLE_REQUEST"
           q == Partner(p)
           j == HandleConMsg(inst[q], m)
<1>0. m \in ConMsg /\ "ENABLE_RESPONSE" \in ConMsg BY DEF ConMsg
<1>1. /\ Good(inst[p]) /\ Good(inst[q]) /\ Unposted(inst[p]) /\ Unposted(inst[q])
      /\ Unowed(inst[p]) /\ Unowed(inst[q])
      /\ inst["server"].pingRep = 0 /\ inst["client"].pingRep = 0
      /\ inst[p].conState = "CONNECTING" /\ inst[q].conState = "DISCONNECTED"
  BY <1>0, ConSides DEF Exchange
<1>2. /\ Tame(inst[q], j) /\ Posts(j, "ENABLE_RESPONSE") /\ Untimed(j) /\ Fresh(j)
      /\ j.conState = "CONNECTED"
  BY <1>1, GrantEffect
<1>3. /\ Clear(p)' /\ Clear(q)' /\ inst'[q] = j /\ inst'[p] = inst[p]
      /\ Sessions!Move(q, "CONNECTED")
      /\ (\A r \in Nodes : Plain(r)') /\ faults' = 0 /\ restarts' = 0
  <2> HIDE DEF j
  <2> QED BY <1>0, <1>2, ConTaken DEF j
<1> HIDE DEF j
<1>4. Sessions!Grant(q)
  BY <1>1, <1>3, Sides DEF Sessions!Grant, Phase
<1>5. Exchange("ENABLE_RESPONSE", q)'
  BY <1>1, <1>2, <1>3, Sides DEF Exchange, Fresh
<1>6. ConUnderWay(q, "flagged", "ENABLE_RESPONSE")'
  <2>1. Lane(q, "flagged", "con")' BY <1>3, Sides DEF Lane, Flagged
  <2>2. inst'["server"].pingRep = 0 /\ inst'["client"].pingRep = 0
    BY <1>1, <1>2, <1>3, Sides, PingsKept DEF Nodes
  <2>3. Unowed(inst'[q]) /\ j.rrFlag = FALSE /\ j.tx = <<>>
    BY <1>1, <1>2, <1>3 DEF Tame, Unposted
  <2> QED BY <1>1, <1>2, <1>3, <1>5, <2>1, <2>2, <2>3, Sides DEF ConUnderWay, Posts, Unposted
<1> QED BY <1>0, <1>3, <1>4, <1>6, Sides DEF UInv, PhaseStep, Sessions!Next, Place

\* ENABLE_RESPONSE opens the other side.
LEMMA EnableResponseTaken ==
    ASSUME IInv, UInv, NEW p \in Nodes, ConUnderWay(p, "arrived", "ENABLE_RESPONSE"),
           Receive(Partner(p))
    PROVE  UInv' /\ PhaseStep
<1> DEFINE m == "ENABLE_RESPONSE"
           q == Partner(p)
           j == HandleConMsg(inst[q], m)
<1>0. m \in ConMsg BY DEF ConMsg
<1>1. /\ Good(inst[p]) /\ Good(inst[q]) /\ Unposted(inst[p]) /\ Unposted(inst[q])
      /\ Unowed(inst[p]) /\ Unowed(inst[q]) /\ Untimed(inst[p]) /\ Fresh(inst[p])
      /\ inst["server"].pingRep = 0 /\ inst["client"].pingRep = 0
      /\ inst[p].conState = "CONNECTED" /\ inst[q].conState = "CONNECTING"
  BY <1>0, ConSides DEF Exchange, Fresh
<1>2. /\ Tame(inst[q], j) /\ Untimed(j) /\ Fresh(j) /\ j.conFlag = inst[q].conFlag
      /\ j.conState = "CONNECTED"
  BY <1>1, AcceptEffect
<1>3. /\ Clear(p)' /\ Clear(q)' /\ inst'[q] = j /\ inst'[p] = inst[p]
      /\ Sessions!Move(q, "CONNECTED")
      /\ (\A r \in Nodes : Plain(r)') /\ faults' = 0 /\ restarts' = 0
  <2> HIDE DEF j
  <2> QED BY <1>0, <1>2, ConTaken DEF j
<1> HIDE DEF j
<1>4. Sessions!Complete(q)
  BY <1>1, <1>3, Sides DEF Sessions!Complete, Phase
<1>5. AtRest'
  <2>1. inst'["server"].pingRep = 0 /\ inst'["client"].pingRep = 0
    BY <1>1, <1>2, <1>3, Sides, PingsKept DEF Nodes
  <2>2. Calm(inst'[q]) /\ Calm(inst'[p])
    BY <1>1, <1>2, <1>3 DEF Calm, Tame, Unposted
  <2>3. BothIn("CONNECTED")' BY <1>1, <1>2, <1>3, Sides DEF BothIn
  <2>4. \A r \in Nodes : InStep(r, Partner(r))'
    BY <1>1, <1>2, <1>3, Sides DEF InStep, Fresh
  <2> QED BY <1>3, <2>1, <2>2, <2>3, <2>4, Sides DEF AtRest, Nodes
<1> QED BY <1>3, <1>4, <1>5, Sides DEF UInv, PhaseStep, Sessions!Next

\* DISABLE_REQUEST is answered by a side that closes before the answer is sent.
LEMMA DisableRequestTaken ==
    ASSUME IInv, UInv, NEW p \in Nodes, ConUnderWay(p, "arrived", "DISABLE_REQUEST"),
           Receive(Partner(p))
    PROVE  UInv' /\ PhaseStep
<1> DEFINE m == "DISABLE_REQUEST"
           q == Partner(p)
           j == HandleConMsg(inst[q], m)
<1>0. m \in ConMsg /\ "DISABLE_RESPONSE" \in ConMsg BY DEF ConMsg
<1>1. /\ Good(inst[p]) /\ Good(inst[q]) /\ Unposted(inst[p]) /\ Unposted(inst[q])
      /\ Unowed(inst[p]) /\ Unowed(inst[q])
      /\ inst["server"].pingRep = 0 /\ inst["client"].pingRep = 0
      /\ inst[p].conState = "DISCONNECTING" /\ inst[q].conState = "CONNECTED"
  BY <1>0, ConSides DEF Exchange
<1>2. /\ Tame(inst[q], j) /\ Posts(j, "DISABLE_RESPONSE") /\ Untimed(j)
      /\ j.conState = "DISCONNECTED"
  BY <1>1, ReleaseEffect DEF Unowed
<1>3. /\ Clear(p)' /\ Clear(q)' /\ inst'[q] = j /\ inst'[p] = inst[p]
      /\ Sessions!Move(q, "DISCONNECTED")
      /\ (\A r \in Nodes : Plain(r)') /\ faults' = 0 /\ restarts' = 0
  <2> HIDE DEF j
  <2> QED BY <1>0, <1>2, ConTaken DEF j
<1> HIDE DEF j
<1>4. Sessions!Release(q)
  BY <1>1, <1>3, Sides DEF Sessions!Release, Phase
<1>5. Exchange("DISABLE_RESPONSE", q)'
  BY <1>1, <1>2, <1>3, Sides DEF Exchange
<1>6. ConUnderWay(q, "flagged", "DISABLE_RESPONSE")'
  <2>1. Lane(q, "flagged", "con")' BY <1>3, Sides DEF Lane, Flagged
  <2>2. inst'["server"].pingRep = 0 /\ inst'["client"].pingRep = 0
    BY <1>1, <1>2, <1>3, Sides, PingsKept DEF Nodes
  <2>3. Unowed(inst'[q]) /\ j.rrFlag = FALSE /\ j.tx = <<>>
    BY <1>1, <1>2, <1>3 DEF Tame, Unposted
  <2> QED BY <1>1, <1>2, <1>3, <1>5, <2>1, <2>2, <2>3, Sides DEF ConUnderWay, Posts, Unposted
<1> QED BY <1>0, <1>3, <1>4, <1>6, Sides DEF UInv, PhaseStep, Sessions!Next, Place

\* DISABLE_RESPONSE closes the other side.
LEMMA DisableResponseTaken ==
    ASSUME IInv, UInv, NEW p \in Nodes, ConUnderWay(p, "arrived", "DISABLE_RESPONSE"),
           Receive(Partner(p))
    PROVE  UInv' /\ PhaseStep
<1> DEFINE m == "DISABLE_RESPONSE"
           q == Partner(p)
           j == HandleConMsg(inst[q], m)
<1>0. m \in ConMsg BY DEF ConMsg
<1>1. /\ Good(inst[p]) /\ Good(inst[q]) /\ Unposted(inst[p]) /\ Unposted(inst[q])
      /\ Unowed(inst[p]) /\ Unowed(inst[q]) /\ Untimed(inst[p])
      /\ inst["server"].pingRep = 0 /\ inst["client"].pingRep = 0
      /\ inst[p].conState = "DISCONNECTED" /\ inst[q].conState = "DISCONNECTING"
  BY <1>0, ConSides DEF Exchange
<1>2. /\ Tame(inst[q], j) /\ Untimed(j) /\ j.conFlag = inst[q].conFlag
      /\ j.conState = "DISCONNECTED"
  BY <1>1, ReleasedEffect
<1>3. /\ Clear(p)' /\ Clear(q)' /\ inst'[q] = j /\ inst'[p] = inst[p]
      /\ Sessions!Move(q, "DISCONNECTED")
      /\ (\A r \in Nodes : Plain(r)') /\ faults' = 0 /\ restarts' = 0
  <2> HIDE DEF j
  <2> QED BY <1>0, <1>2, ConTaken DEF j
<1> HIDE DEF j
<1>4. Sessions!CompleteClose(q)
  BY <1>1, <1>3, Sides DEF Sessions!CompleteClose, Phase
<1>5. AtRest'
  <2>1. inst'["server"].pingRep = 0 /\ inst'["client"].pingRep = 0
    BY <1>1, <1>2, <1>3, Sides, PingsKept DEF Nodes
  <2>2. Calm(inst'[q]) /\ Calm(inst'[p])
    BY <1>1, <1>2, <1>3 DEF Calm, Tame, Unposted
  <2>3. BothIn("DISCONNECTED")' BY <1>1, <1>2, <1>3, Sides DEF BothIn
  <2> QED BY <1>3, <2>1, <2>2, <2>3, Sides DEF AtRest, Nodes
<1> QED BY <1>3, <1>4, <1>5, Sides DEF UInv, PhaseStep, Sessions!Next

\* A ping is answered, and the answer ends the count of unanswered ones.
LEMMA PingTaken ==
    ASSUME IInv, UInv, NEW p \in Nodes, NEW m \in {"PING_REQUEST", "PING_RESPONSE"},
           ConUnderWay(p, "arrived", m), Receive(Partner(p))
    PROVE  UInv' /\ PhaseStep
<1> DEFINE q == Partner(p)
           j == HandleConMsg(inst[q], m)
<1>0. m \in ConMsg /\ "PING_RESPONSE" \in ConMsg BY DEF ConMsg
<1>1. /\ Good(inst[p]) /\ Good(inst[q]) /\ Unposted(inst[p]) /\ Unposted(inst[q])
      /\ Unowed(inst[p]) /\ Unowed(inst[q])
      /\ inst["server"].pingRep = 0 /\ Exchange(m, p)
  BY <1>0, ConSides
<1>2. /\ BothIn("CONNECTED") /\ Untimed(inst[p]) /\ Untimed(inst[q]) /\ Pings
      /\ p = IF m = "PING_REQUEST" THEN "client" ELSE "server"
      /\ InStep(p, q) /\ InStep(q, p)
  BY <1>1 DEF Exchange
<1>3. inst[p].conState = "CONNECTED" /\ inst[q].conState = "CONNECTED"
  BY <1>2, Sides DEF BothIn
<1>4. /\ Tame(inst[q], j) /\ SameTimer(inst[q], j) /\ SameSeq(inst[q], j)
      /\ j.conState = "CONNECTED"
      /\ m = "PING_REQUEST" => Posts(j, "PING_RESPONSE")
      /\ m = "PING_RESPONSE" => j.conFlag = inst[q].conFlag
      /\ m = "PING_RESPONSE" /\ inst[q].client = TRUE /\ inst[q].pings = TRUE => j.pingRep = 0
  <2>1. CASE m = "PING_REQUEST" BY <1>1, <1>3, <2>1, PingedEffect
  <2>2. CASE m = "PING_RESPONSE" BY <1>1, <1>3, <2>2, PingedEffect
  <2> QED BY <2>1, <2>2
<1>5. /\ Clear(p)' /\ Clear(q)' /\ inst'[q] = j /\ inst'[p] = inst[p] /\ Phase' = Phase
      /\ (\A r \in Nodes : Plain(r)') /\ faults' = 0 /\ restarts' = 0
  <2> HIDE DEF j
  <2> QED BY <1>0, <1>3, <1>4, ConTaken DEF j
<1> HIDE DEF j
<1>6. /\ BothIn("CONNECTED")' /\ InStep(p, q)' /\ InStep(q, p)'
      /\ Untimed(inst'[p]) /\ Untimed(inst'[q]) /\ Unowed(inst'[p]) /\ Unowed(inst'[q])
      /\ j.rrFlag = FALSE /\ j.tx = <<>> /\ inst'["server"].pingRep = 0
  <2>1. BothIn("CONNECTED")' BY <1>3, <1>4, <1>5, Sides DEF BothIn
  <2>2. InStep(p, q)' /\ InStep(q, p)' BY <1>2, <1>4, <1>5, Sides DEF InStep, SameSeq
  <2>3. /\ Untimed(inst'[p]) /\ Untimed(inst'[q]) /\ Unowed(inst'[p]) /\ Unowed(inst'[q])
        /\ j.rrFlag = FALSE /\ j.tx = <<>>
    BY <1>1, <1>2, <1>4, <1>5 DEF Untimed, SameTimer, Tame, Unposted
  <2>4. inst'["server"].pingRep = 0 BY <1>1, <1>4, <1>5, Sides, PingsKept DEF Nodes
  <2> QED BY <2>1, <2>2, <2>3, <2>4
<1>7. CASE m = "PING_REQUEST"
  <2>1. q = "server" /\ p = "client" BY <1>2, <1>7 DEF Partner
  <2>2. Lane(q, "flagged", "con")' BY <1>5, Sides DEF Lane, Flagged
  <2>3. Exchange("PING_RESPONSE", q)'
    BY <1>2, <1>6, <2>1, Sides DEF Exchange
  <2>4. ConUnderWay(q, "flagged", "PING_RESPONSE")'
    <3>1. Posts(inst'[q], "PING_RESPONSE") /\ Partner(q) = p BY <1>4, <1>5, <1>7, Sides
    <3>2. Unposted(inst'[p]) /\ inst'[q].rrFlag = FALSE /\ inst'[q].tx = <<>>
      BY <1>1, <1>5, <1>6
    <3> QED BY <1>6, <2>2, <2>3, <3>1, <3>2 DEF ConUnderWay, Posts
  <2> QED BY <1>0, <1>5, <2>4, Sides DEF UInv, PhaseStep, Place
<1>8. CASE m = "PING_RESPONSE"
  <2>1. q = "client" /\ p = "server" BY <1>2, <1>8 DEF Partner
  <2>2. inst[q].client = TRUE /\ inst[q].pings = TRUE
    BY <1>2, <2>1, Sides DEF UInv, Plain
  <2>3. Calm(inst'[q]) /\ Calm(inst'[p])
    BY <1>1, <1>4, <1>5, <1>6, <1>8 DEF Calm, Unposted
  <2>4. AtRest'
    BY <1>4, <1>5, <1>6, <1>8, <2>1, <2>2, <2>3, Sides DEF AtRest, Nodes
  <2> QED BY <1>5, <2>4 DEF UInv, PhaseStep
<1> QED BY <1>7, <1>8

-----------------------------------------------------------------------------
(* An event and its acknowledge.                                            *)

\* The facts of EventUnderWay that only the two ends of the exchange change.
LEMMA EventKept ==
    ASSUME IInv, UInv, NEW p \in Nodes, NEW e \in EventId, NEW at, EventUnderWay(p, at, e),
           inst'[Partner(p)] = inst[Partner(p)],
           Steady(inst[p], inst'[p]), SameSeq(inst[p], inst'[p]),
           inst'[p].rep = inst[p].rep, inst'[p].msgTimer = inst[p].msgTimer
    PROVE  /\ BothIn("CONNECTED")' /\ Untimed(inst'[p]) /\ Untimed(inst'[Partner(p)])
           /\ inst'[p].conFlag = FALSE /\ Unposted(inst'[Partner(p)])
           /\ inst'["server"].rep = e /\ Unowed(inst'["client"])
           /\ inst'[p].seqSend = Succ(inst'[Partner(p)].seqRecv) /\ InStep(Partner(p), p)'
           /\ \A q \in Nodes : inst'[q].pingRep = 0
<1> DEFINE q == Partner(p)
<1>1. /\ BothIn("CONNECTED") /\ Untimed(inst[p]) /\ Untimed(inst[q])
      /\ inst[p].conFlag = FALSE /\ Unposted(inst[q])
      /\ inst["server"].rep = e /\ Unowed(inst["client"])
      /\ inst[p].seqSend = Succ(inst[q].seqRecv) /\ InStep(q, p)
      /\ \A r \in Nodes : inst[r].pingRep = 0
  BY Zenon DEF EventUnderWay
<1>2. BothIn("CONNECTED")' /\ (\A r \in Nodes : inst'[r].pingRep = 0)
  BY <1>1, Sides DEF BothIn, Steady
<1>3. Untimed(inst'[p]) /\ inst'[p].conFlag = FALSE
  BY <1>1 DEF Untimed, Steady, SameTimer
<1>4. inst'["server"].rep = e /\ Unowed(inst'["client"])
  <2>1. CASE p = "server" BY <1>1, <2>1, NodesOpposite DEF Partner
  <2>2. CASE p = "client" BY <1>1, <2>2 DEF Unowed, Partner
  <2> QED BY <2>1, <2>2 DEF Nodes
<1>5. inst'[p].seqSend = Succ(inst'[q].seqRecv) /\ InStep(q, p)'
  BY <1>1 DEF SameSeq, InStep
<1> QED BY <1>1, <1>2, <1>3, <1>4, <1>5

LEMMA EventStart ==
    ASSUME IInv, UInv, NEW p \in Nodes, NEW e \in EventId, EventUnderWay(p, "flagged", e),
           StartTx(p)
    PROVE  UInv' /\ PhaseStep
<1> DEFINE i == inst[p]
           q == Partner(p)
           c == [i EXCEPT !.rrFlag = FALSE]
           d == [stage |-> "loaded", idx |-> "rr", status |-> "ok", buf |-> RrFrame(p)]
<1>1. /\ Lane(p, "flagged", "rr") /\ i.tx = <<e>> /\ i.txSeq = i.seqSend /\ i.rrInst = TRUE
      /\ i.rrFlag = TRUE /\ i.conFlag = FALSE
  BY Zenon DEF EventUnderWay
<1>2. inst' = [inst EXCEPT ![p] = c] /\ dll' = [dll EXCEPT ![p] = d]
  BY <1>1 DEF StartTx
<1>3. UNCHANGED <<inbox, brk, wakeup, faults, restarts>> BY DEF StartTx
<1>4. /\ Steady(i, c) /\ SameSeq(i, c) /\ c.conState = i.conState /\ c.rrFlag = FALSE
      /\ c.tx = i.tx /\ c.txSeq = i.txSeq /\ c.rrInst = i.rrInst
      /\ c.rep = i.rep /\ c.msgTimer = i.msgTimer
  BY SMT DEF IInv, InstOK, Instance, Steady, SameTimer, SameSeq
<1>5. inst'[p] = c /\ inst'[q] = inst[q] /\ Phase' = Phase
  <2> HIDE DEF c
  <2> QED BY <1>2, <1>4, SideMoved
<1> HIDE DEF c
<1>6. RrIs(RrFrame(p), i.seqSend, e)
  <2>1. i.tx # <<>> BY <1>1
  <2> QED BY <1>1, <2>1 DEF RrFrame, RrIs, IInv, LinkOK, Dll, Frame
<1> HIDE DEF d
<1>7. Loaded(p, "rr")' /\ dll'[p].buf = RrFrame(p)
  BY <1>1, <1>2, <1>3, LaneStart DEF d, Lane
<1>8. (\A r \in Nodes : Plain(r)') /\ faults' = 0 /\ restarts' = 0
  BY <1>3, <1>4, <1>5, PlainKept
<1>9. /\ BothIn("CONNECTED")' /\ Untimed(inst'[p]) /\ Untimed(inst'[q])
      /\ inst'[p].conFlag = FALSE /\ Unposted(inst'[q])
      /\ inst'["server"].rep = e /\ Unowed(inst'["client"])
      /\ inst'[p].seqSend = Succ(inst'[q].seqRecv) /\ InStep(q, p)'
      /\ \A r \in Nodes : inst'[r].pingRep = 0
  BY <1>4, <1>5, EventKept
<1>10. EventUnderWay(p, "loaded", e)'
  <2>1. Lane(p, "loaded", "rr")' BY <1>7 DEF Lane
  <2>2. RrIs(dll'[p].buf, inst'[p].seqSend, e) BY <1>4, <1>5, <1>6, <1>7 DEF SameSeq
  <2>3. inst'[p].tx = <<e>> /\ inst'[p].txSeq = inst'[p].seqSend /\ inst'[p].rrInst = TRUE
        /\ inst'[p].rrFlag = FALSE
    BY <1>1, <1>4, <1>5 DEF SameSeq
  <2> QED BY <1>9, <2>1, <2>2, <2>3 DEF EventUnderWay
<1> QED BY <1>5, <1>8, <1>10 DEF UInv, PhaseStep, Place

LEMMA EventTransmit ==
    ASSUME IInv, UInv, NEW p \in Nodes, NEW e \in EventId, EventUnderWay(p, "loaded", e),
           Transmit(p, Clean)
    PROVE  UInv' /\ PhaseStep
<1> DEFINE i == inst[p]
           q == Partner(p)
           c == RrPost(i)
<1>1. /\ Lane(p, "loaded", "rr") /\ RrIs(dll[p].buf, i.seqSend, e) /\ i.rrInst = TRUE
      /\ i.rrFlag = FALSE /\ i.conFlag = FALSE
  BY Zenon DEF EventUnderWay
<1>2. dll[p].idx = "rr" /\ Loaded(p, "rr") BY <1>1 DEF Lane, Loaded
<1>3. inst' = [inst EXCEPT ![p] = c]
  BY <1>2 DEF Transmit, ConfirmTo, Confirmed, Clean
<1>4. brk' = brk
  BY Sides, <1>2 DEF Transmit, ConfirmTo, Clean, IInv, BreaksOK
<1>5. UNCHANGED <<wakeup, faults, restarts>> BY DEF Transmit, OnBus
<1>6. /\ Steady(i, c) /\ SameSeq(i, c) /\ c.conState = i.conState /\ c.rrFlag = FALSE
      /\ c.tx = <<>> /\ c.rep = i.rep /\ c.msgTimer = i.msgTimer
  BY <1>1, RrPostEffect DEF IInv, InstOK, Steady
<1> HIDE DEF c
<1>7. inst'[p] = c /\ inst'[q] = inst[q] /\ Phase' = Phase
  BY <1>3, <1>6, SideMoved
<1>8. Arrived(p)' /\ inbox'[q][1] = dll[p].buf
  BY <1>2, LaneTransmit
<1>9. (\A r \in Nodes : Plain(r)') /\ faults' = 0 /\ restarts' = 0
  BY <1>4, <1>5, <1>6, <1>7, PlainKept
<1>10. /\ BothIn("CONNECTED")' /\ Untimed(inst'[p]) /\ Untimed(inst'[q])
       /\ inst'[p].conFlag = FALSE /\ Unposted(inst'[q])
       /\ inst'["server"].rep = e /\ Unowed(inst'["client"])
       /\ inst'[p].seqSend = Succ(inst'[q].seqRecv) /\ InStep(q, p)'
       /\ \A r \in Nodes : inst'[r].pingRep = 0
  BY <1>6, <1>7, EventKept
<1>11. EventUnderWay(p, "arrived", e)'
  <2>1. Lane(p, "arrived", "rr")' BY <1>8 DEF Lane
  <2>2. RrIs(inbox'[q][1], inst'[p].seqSend, e) BY <1>1, <1>6, <1>7, <1>8 DEF SameSeq
  <2> QED BY <1>6, <1>7, <1>10, <2>1, <2>2 DEF EventUnderWay
<1> QED BY <1>7, <1>9, <1>11 DEF UInv, PhaseStep, Place

\* The frame of an event is never ignored: its sequence id is the next one.
LEMMA EventTaken ==
    ASSUME SeqMod >= 4, IInv, UInv, NEW p \in Nodes, NEW e \in EventId,
           EventUnderWay(p, "arrived", e), Receive(Partner(p))
    PROVE  LET q == Partner(p)  s == inst[p].seqSend
               j == IF q = "server" THEN ReceiveAcks(inst[q], s, <<e>>)
                    ELSE ReceiveEvents(inst[q], s, <<e>>)
           IN  /\ s \in SeqId /\ inst' = [inst EXCEPT ![q] = j]
               /\ Clear(p)' /\ Clear(q)'
<1> DEFINE q == Partner(p)
           s == inst[p].seqSend
           f == inbox[q][1]
<1>1. Arrived(p) /\ RrIs(f, s, e) /\ s = Succ(inst[q].seqRecv) /\ BothIn("CONNECTED")
  BY DEF EventUnderWay, Lane
<1>2. Clear(p)' /\ Clear(q)' /\ Head(inbox[q]) = f BY <1>1, LaneReceive
<1>3. ~IsIgnored(inst[q], s) /\ s \in SeqId
  BY <1>1, Sides, SuccTaken DEF IInv, InstOK, BothIn
<1>4. inst' = [inst EXCEPT ![q] = Received(q, inst[q], f)]
  BY <1>2, Zenon DEF Receive
<1>5. Received(q, inst[q], f) = IF q = "server" THEN ReceiveAcks(inst[q], s, <<e>>)
                                ELSE ReceiveEvents(inst[q], s, <<e>>)
  <2>1. q = "server" \/ q = "client" BY Sides DEF Nodes
  <2> QED BY <1>1, <1>3, <2>1 DEF Received, RrIs
<1> QED BY <1>2, <1>3, <1>4, <1>5

LEMMA EventDelivered ==
    ASSUME SeqMod >= 4, IInv, UInv, NEW e \in EventId, EventUnderWay("server", "arrived", e),
           Receive("client")
    PROVE  UInv' /\ PhaseStep
<1> DEFINE s == inst["server"].seqSend
           i == inst["client"]
           j == ReceiveEvents(i, s, <<e>>)
<1>0. "server" \in Nodes /\ "client" \in Nodes /\ Partner("server") = "client"
      /\ Partner("client") = "server"
  BY DEF Nodes, Partner
<1>1. /\ inst["server"].conFlag = FALSE /\ inst["server"].rrFlag = FALSE
      /\ inst["server"].tx = <<>>
      /\ Untimed(inst["server"]) /\ Untimed(i) /\ BothIn("CONNECTED") /\ Unposted(i)
      /\ inst["server"].rep = e /\ Unowed(i) /\ InStep("client", "server")
      /\ \A r \in Nodes : inst[r].pingRep = 0
  BY <1>0 DEF EventUnderWay
<1>2. /\ s \in SeqId /\ inst' = [inst EXCEPT !["client"] = j]
      /\ Clear("server")' /\ Clear("client")'
  BY <1>0, EventTaken
<1>3. /\ Steady(i, j) /\ Queued(j, e) /\ Unowed(j) /\ j.seqSend = Succ(i.seqSend) /\ j.seqRecv = s
  BY <1>0, <1>1, <1>2, DeliverEffect DEF IInv, InstOK, BothIn
<1> HIDE DEF j
<1>4. inst'["client"] = j /\ inst'["server"] = inst["server"] /\ Phase' = Phase
  BY <1>0, <1>2, <1>3, SideMoved DEF Steady
<1>5. (\A r \in Nodes : Plain(r)') /\ faults' = 0 /\ restarts' = 0
  BY <1>0, <1>3, <1>4, PlainKept DEF Receive
<1>6. EventUnderWay("client", "flagged", e)'
  <2>1. Lane("client", "flagged", "rr")' BY <1>0, <1>2 DEF Lane, Flagged
  <2>2. BothIn("CONNECTED")' /\ (\A r \in Nodes : inst'[r].pingRep = 0)
    BY <1>0, <1>1, <1>3, <1>4 DEF BothIn, Steady, Nodes
  <2>3. Untimed(inst'["client"]) /\ Untimed(inst'["server"]) /\ Unposted(inst'["server"])
        /\ inst'["client"].conFlag = FALSE
    BY <1>1, <1>3, <1>4 DEF Untimed, Steady, SameTimer, Unposted
  <2>4. inst'["client"].seqSend = Succ(inst'["server"].seqRecv) /\ InStep("server", "client")'
    BY <1>1, <1>3, <1>4 DEF InStep
  <2>5. Queued(inst'["client"], e) /\ inst'["server"].rep = e /\ Unowed(inst'["client"])
    BY <1>1, <1>3, <1>4
  <2> QED BY <1>0, <2>1, <2>2, <2>3, <2>4, <2>5 DEF EventUnderWay, Queued
<1> QED BY <1>0, <1>4, <1>5, <1>6 DEF UInv, PhaseStep, Place

LEMMA EventAcked ==
    ASSUME SeqMod >= 4, IInv, UInv, NEW e \in EventId, EventUnderWay("client", "arrived", e),
           Receive("server")
    PROVE  UInv' /\ PhaseStep
<1> DEFINE s == inst["client"].seqSend
           i == inst["server"]
           j == ReceiveAcks(i, s, <<e>>)
<1>0. "server" \in Nodes /\ "client" \in Nodes /\ Partner("server") = "client"
      /\ Partner("client") = "server"
  BY DEF Nodes, Partner
<1>1. /\ inst["client"].conFlag = FALSE /\ inst["client"].rrFlag = FALSE
      /\ inst["client"].tx = <<>>
      /\ Untimed(inst["client"]) /\ Untimed(i) /\ BothIn("CONNECTED") /\ Unposted(i)
      /\ i.rep = e /\ Unowed(inst["client"]) /\ InStep("server", "client")
      /\ \A r \in Nodes : inst[r].pingRep = 0
  BY <1>0 DEF EventUnderWay
<1>2. /\ s \in SeqId /\ inst' = [inst EXCEPT !["server"] = j]
      /\ Clear("server")' /\ Clear("client")'
  BY <1>0, EventTaken
<1>3. /\ Steady(i, j) /\ Unowed(j) /\ j.rrFlag = i.rrFlag /\ j.tx = i.tx
      /\ j.seqSend = i.seqSend /\ j.seqRecv = s
  <2>1. Good(i) /\ i.disableReq = FALSE BY <1>0 DEF IInv, InstOK, UInv, Plain
  <2> QED BY <1>1, <1>2, <2>1, AckEffect
<1> HIDE DEF j
<1>4. inst'["server"] = j /\ inst'["client"] = inst["client"] /\ Phase' = Phase
  BY <1>0, <1>2, <1>3, SideMoved DEF Steady
<1>5. (\A r \in Nodes : Plain(r)') /\ faults' = 0 /\ restarts' = 0
  BY <1>0, <1>3, <1>4, PlainKept DEF Receive
<1>6. AtRest'
  <2>1. BothIn("CONNECTED")' /\ (\A r \in Nodes : inst'[r].pingRep = 0)
    BY <1>0, <1>1, <1>3, <1>4 DEF BothIn, Steady, Nodes
  <2>2. Calm(inst'["client"]) /\ Calm(inst'["server"])
    BY <1>1, <1>3, <1>4 DEF Calm, Untimed, Steady, SameTimer, Unposted
  <2>3. InStep("client", "server")' /\ InStep("server", "client")'
    BY <1>1, <1>3, <1>4 DEF InStep
  <2> QED BY <1>0, <1>2, <2>1, <2>2, <2>3 DEF AtRest, Nodes
<1> QED BY <1>4, <1>5, <1>6 DEF UInv, PhaseStep

-----------------------------------------------------------------------------
(* The steps from a link at rest.                                           *)

\* A request at rest: the asking side moves, its message is flagged.
LEMMA RequestUnderWay ==
    ASSUME IInv, UInv, AtRest, NEW p \in Nodes, NEW m \in {"ENABLE_REQUEST", "DISABLE_REQUEST"},
           inst[Partner(p)].conState =
               IF m = "ENABLE_REQUEST" THEN "DISCONNECTED" ELSE "CONNECTED",
           NEW j, inst' = [inst EXCEPT ![p] = j],
           Tame(inst[p], j), Posts(j, m), SameTimer(inst[p], j),
           j.conState = IF m = "ENABLE_REQUEST" THEN "CONNECTING" ELSE "DISCONNECTING",
           UNCHANGED <<dll, inbox, brk, wakeup, faults, restarts>>
    PROVE  UInv' /\ Sessions!Move(p, j.conState)
<1> DEFINE q == Partner(p)
<1>1. Sessions!Move(p, j.conState) /\ inst'[p] = j /\ inst'[q] = inst[q]
  BY SideMoved, Zenon
<1>2. /\ Clear(p) /\ Clear(q) /\ Calm(inst[p]) /\ Calm(inst[q])
      /\ inst["server"].pingRep = 0 /\ inst["client"].pingRep = 0
  BY Sides DEF AtRest, Nodes
<1>3. (\A r \in Nodes : Plain(r)') /\ faults' = 0 /\ restarts' = 0
  BY <1>1, PlainKept
<1>4. Lane(p, "flagged", "con")' BY <1>2 DEF Lane, Flagged, Clear
<1>5. Exchange(m, p)'
  BY <1>1, <1>2 DEF Exchange, Calm
<1>6. inst'["server"].pingRep = 0 /\ inst'["client"].pingRep = 0
  BY <1>1, <1>2, PingsKept DEF Nodes
<1>7. Unowed(j) /\ j.rrFlag = FALSE /\ j.tx = <<>> /\ Untimed(j)
  BY <1>2 DEF Tame, Calm, Unposted, SameTimer, Untimed
<1>8. ConUnderWay(p, "flagged", m)'
  BY <1>1, <1>2, <1>4, <1>5, <1>6, <1>7 DEF ConUnderWay, Posts, Calm, Unposted
<1> QED BY <1>1, <1>3, <1>8 DEF UInv, Place, ConMsg

LEMMA EnableFromRest ==
    ASSUME IInv, UInv, AtRest, NEW p \in Nodes, Enable(p) PROVE UInv' /\ PhaseStep
<1> DEFINE i == inst[p]
           a == SendCon([i EXCEPT !.conState = "CONNECTING"], "ENABLE_REQUEST")
           j == [a EXCEPT !.told = "asked"]
<1>1. i.conState = "DISCONNECTED" /\ i \in Instance BY DEF Enable, IInv, InstOK
<1>2. BothIn("DISCONNECTED") BY <1>1 DEF AtRest, BothIn
<1>3. Tame(i, a) /\ Posts(a, "ENABLE_REQUEST") /\ SameTimer(i, a) /\ a.conState = "CONNECTING"
  BY <1>1, AskEffect
<1>4. Tame(i, j) /\ Posts(j, "ENABLE_REQUEST") /\ SameTimer(i, j) /\ j.conState = "CONNECTING"
  <2>1. a \in [DOMAIN i -> {a[f] : f \in DOMAIN i}] BY <1>1 DEF SendCon, Instance
  <2> HIDE DEF a
  <2> QED BY <1>3 DEF Tame, Posts, SameTimer, Unowed
<1>5. inst' = [inst EXCEPT ![p] = j]
  BY <1>1, Zenon DEF Enable, ConnectionSm, InDisconnected
<1> HIDE DEF j
<1>6. UInv' /\ Sessions!Move(p, "CONNECTING")
  <2>1. inst[Partner(p)].conState = "DISCONNECTED" BY <1>2, Sides DEF BothIn
  <2>2. UNCHANGED <<dll, inbox, brk, wakeup, faults, restarts>> BY DEF Enable
  <2> QED BY <1>4, <1>5, <2>1, <2>2, RequestUnderWay
<1>7. Sessions!Ask(p) BY <1>2, <1>6 DEF Sessions!Ask, Sessions!All, Phase, BothIn
<1> QED BY <1>6, <1>7 DEF PhaseStep, Sessions!Next

LEMMA DisableFromRest ==
    ASSUME IInv, UInv, AtRest, NEW p \in Nodes, Disable(p) PROVE UInv' /\ PhaseStep
<1> DEFINE i == inst[p]
           j == SendCon([i EXCEPT !.conState = "DISCONNECTING"], "DISABLE_REQUEST")
<1>1. i.conState = "CONNECTED" /\ i \in Instance BY DEF Disable, IsOpen, IInv, InstOK
<1>2. BothIn("CONNECTED") BY <1>1 DEF AtRest, BothIn
<1>3. Tame(i, j) /\ Posts(j, "DISABLE_REQUEST") /\ SameTimer(i, j) /\ j.conState = "DISCONNECTING"
  BY <1>1, AskEffect
<1>4. inst' = [inst EXCEPT ![p] = j]
  BY <1>1, Zenon DEF Disable, ConnectionSm, InConnected
<1> HIDE DEF j
<1>5. UInv' /\ Sessions!Move(p, "DISCONNECTING")
  <2>1. inst[Partner(p)].conState = "CONNECTED" BY <1>2, Sides DEF BothIn
  <2>2. UNCHANGED <<dll, inbox, brk, wakeup, faults, restarts>> BY DEF Disable
  <2> QED BY <1>3, <1>4, <2>1, <2>2, RequestUnderWay
<1>6. Sessions!AskClose(p) BY <1>2, <1>5 DEF Sessions!AskClose, Sessions!All, Phase, BothIn
<1> QED BY <1>5, <1>6 DEF PhaseStep, Sessions!Next

LEMMA SendFromRest ==
    ASSUME IInv, UInv, AtRest, NEW e \in EventId, Send(e) PROVE UInv' /\ PhaseStep
<1> DEFINE i == inst["server"]
           j == SendEvent(i, e, 0)
<1>0. "server" \in Nodes /\ "client" \in Nodes /\ Partner("server") = "client"
      /\ Partner("client") = "server"
  BY DEF Nodes, Partner
<1>1. Good(i) /\ i.commState = "READY" BY <1>0 DEF Send, IInv, InstOK
<1>2. i.conState # "DISCONNECTED" BY <1>1 DEF Good, Sound, Coherent
<1>3. BothIn("CONNECTED") /\ InStep("server", "client") /\ InStep("client", "server")
  BY <1>0, <1>2 DEF AtRest, BothIn
<1>4. /\ Clear("client") /\ Clear("server") /\ Calm(i) /\ Calm(inst["client"])
      /\ \A r \in Nodes : inst[r].pingRep = 0
  BY <1>0 DEF AtRest
<1>5. /\ Steady(i, j) /\ Queued(j, e) /\ j.rep = e
      /\ j.seqSend = Succ(i.seqSend) /\ j.seqRecv = i.seqRecv
  BY <1>1, <1>4, SendEffect DEF Calm, Unposted, Unowed
<1>6. inst' = [inst EXCEPT !["server"] = j] /\ UNCHANGED <<dll, inbox, brk, wakeup, faults, restarts>>
  BY DEF Send
<1> HIDE DEF j
<1>7. inst'["server"] = j /\ inst'["client"] = inst["client"] /\ Phase' = Phase
  BY <1>0, <1>5, <1>6, SideMoved DEF Steady
<1>8. (\A r \in Nodes : Plain(r)') /\ faults' = 0 /\ restarts' = 0
  BY <1>0, <1>5, <1>6, <1>7, PlainKept
<1>9. EventUnderWay("server", "flagged", e)'
  <2>1. Lane("server", "flagged", "rr")' BY <1>0, <1>4, <1>6 DEF Lane, Flagged, Clear
  <2>2. BothIn("CONNECTED")' /\ (\A r \in Nodes : inst'[r].pingRep = 0)
    BY <1>0, <1>3, <1>4, <1>5, <1>7 DEF BothIn, Steady, Nodes
  <2>3. Untimed(inst'["client"]) /\ Untimed(inst'["server"]) /\ Unposted(inst'["client"])
        /\ inst'["server"].conFlag = FALSE /\ Unowed(inst'["client"])
    BY <1>4, <1>5, <1>7 DEF Untimed, Steady, SameTimer, Unposted, Calm
  <2>4. inst'["server"].seqSend = Succ(inst'["client"].seqRecv) /\ InStep("client", "server")'
    BY <1>3, <1>5, <1>7 DEF InStep
  <2>5. Queued(inst'["server"], e) /\ inst'["server"].rep = e BY <1>5, <1>7
  <2> QED BY <1>0, <2>1, <2>2, <2>3, <2>4, <2>5 DEF EventUnderWay, Queued
<1> QED BY <1>0, <1>7, <1>8, <1>9 DEF UInv, PhaseStep, Place

\* The client pings; one ping is unanswered until the response arrives.
LEMMA PingFromRest ==
    ASSUME IInv, UInv, AtRest, PingTimerFires("client") PROVE UInv' /\ PhaseStep
<1> DEFINE i == inst["client"]
           k == [i EXCEPT !.pingOn = FALSE]
           s == SendCon(k, "PING_REQUEST")
           j == [s EXCEPT !.pingOn = TRUE, !.pingRep = k.pingRep + 1]
           j2 == [SendCon(k, "PING_REQUEST") EXCEPT !.pingOn = TRUE, !.pingRep = @ + 1]
<1>0. "server" \in Nodes /\ "client" \in Nodes /\ Partner("server") = "client"
      /\ Partner("client") = "server"
  BY DEF Nodes, Partner
<1>1. i.pingOn = TRUE /\ Good(i) /\ Plain("client")
  BY <1>0 DEF PingTimerFires, IInv, InstOK, UInv, Good, Instance
<1>2. i.conState # "DISCONNECTED" /\ i.commState = "READY" /\ Pings
  BY <1>1 DEF Good, Sound, Pinging, Coherent, Plain
<1>3. BothIn("CONNECTED") /\ InStep("server", "client") /\ InStep("client", "server")
  BY <1>0, <1>2 DEF AtRest, BothIn
<1>4. /\ Clear("client") /\ Clear("server") /\ Calm(i) /\ Calm(inst["server"])
      /\ i.pingRep = 0 /\ inst["server"].pingRep = 0
  BY <1>0 DEF AtRest
<1>5. /\ IsOpen(k) /\ k.pingRep = 0
  BY <1>0, <1>1, <1>2, <1>3, <1>4, SMT DEF Good, Instance, IsOpen, BothIn
<1>6. inst' = [inst EXCEPT !["client"] = j2]
  <2>1. k.pingRep <= PingMaxRepeat BY <1>5, InstanceAssumption
  <2> QED BY <1>5, <2>1, Zenon DEF PingTimerFires
<1>7. UNCHANGED <<dll, inbox, brk, wakeup, faults, restarts>> BY DEF PingTimerFires
<1>8. /\ j2.client = i.client /\ j2.pings = i.pings /\ j2.disableReq = i.disableReq
      /\ j2.breakOn = i.breakOn /\ Posts(j2, "PING_REQUEST") /\ SameTimer(i, j2) /\ SameSeq(i, j2)
      /\ j2.conState = i.conState /\ j2.rrFlag = i.rrFlag /\ j2.tx = i.tx
      /\ j2.rep = i.rep /\ j2.msgTimer = i.msgTimer
  BY <1>1, SMT DEF Good, Instance, SendCon, Posts, SameTimer, SameSeq
<1> HIDE DEF j2
<1>9. inst'["client"] = j2 /\ inst'["server"] = inst["server"] /\ Phase' = Phase
  BY <1>0, <1>6, <1>8, SideMoved
<1>10. (\A r \in Nodes : Plain(r)') /\ faults' = 0 /\ restarts' = 0
  <2>1. Plain("client")' BY <1>1, <1>2, <1>7, <1>8, <1>9 DEF Plain
  <2>2. Plain("server")' BY <1>0, <1>7, <1>9 DEF Plain, UInv
  <2> QED BY <1>7, <2>1, <2>2 DEF Nodes, UInv
<1>11. ConUnderWay("client", "flagged", "PING_REQUEST")'
  <2>1. Lane("client", "flagged", "con")' BY <1>0, <1>4, <1>7 DEF Lane, Flagged, Clear
  <2>2. /\ Untimed(inst'["client"]) /\ Untimed(inst'["server"]) /\ Unposted(inst'["server"])
        /\ Unowed(inst'["client"]) /\ Unowed(inst'["server"]) /\ inst'["server"].pingRep = 0
        /\ inst'["client"].rrFlag = FALSE /\ inst'["client"].tx = <<>>
    BY <1>4, <1>8, <1>9 DEF Calm, Untimed, Unposted, Unowed, SameTimer
  <2>3. BothIn("CONNECTED")' /\ InStep("client", "server")' /\ InStep("server", "client")'
    BY <1>0, <1>3, <1>8, <1>9 DEF BothIn, InStep, SameSeq, Nodes
  <2>4. Exchange("PING_REQUEST", "client")'
    BY <1>0, <1>2, <2>2, <2>3 DEF Exchange
  <2> QED BY <1>0, <1>8, <1>9, <2>1, <2>2, <2>4 DEF ConUnderWay, Posts
<1> QED BY <1>0, <1>9, <1>10, <1>11 DEF UInv, PhaseStep, Place, ConMsg

-----------------------------------------------------------------------------
(* The undisturbed link, whatever it does.                                  *)

LEMMA InitUndisturbed == ASSUME Undisturbed PROVE Init => UInv /\ Sessions!Init
<1> SUFFICES ASSUME Init PROVE UInv /\ Sessions!Init OBVIOUS
<1>1. \A p \in Nodes : inst[p] = NewInstance(p = "client", Pings) /\ dll[p] = NewDll
                       /\ inbox[p] = <<>> /\ brk[p] = FALSE /\ wakeup[p] = FALSE
  BY DEF Init
<1>2. \A p \in Nodes : Plain(p)
  <2> TAKE p \in Nodes
  <2> DEFINE i == NewInstance(p = "client", Pings)
  <2>1. /\ i.client = (p = "client") /\ i.pings = Pings /\ i.pingOn = FALSE
        /\ i.disableReq = FALSE /\ i.breakOn = FALSE
    BY Zenon DEF NewInstance
  <2>2. inst[p] = i /\ brk[p] = FALSE /\ wakeup[p] = FALSE BY <1>1
  <2> HIDE DEF i
  <2> QED BY <2>1, <2>2 DEF Plain
<1>3. ASSUME NEW p \in Nodes
      PROVE  Clear(p) /\ Calm(inst[p]) /\ inst[p].pingRep = 0 /\ inst[p].conState = "DISCONNECTED"
  <2> DEFINE i == NewInstance(p = "client", Pings)
  <2>1. /\ i.conFlag = FALSE /\ i.rrFlag = FALSE /\ i.tx = <<>> /\ i.conTimer = "off"
        /\ i.conRepeat = 0 /\ i.rep = NoEvent /\ i.msgTimer = FALSE /\ i.pingRep = 0
        /\ i.conState = "DISCONNECTED"
    BY Zenon DEF NewInstance
  <2>2. inst[p] = i /\ dll[p].stage = "idle" /\ inbox[p] = <<>> BY <1>1 DEF NewDll
  <2> HIDE DEF i
  <2> QED BY <2>1, <2>2 DEF Clear, Calm, Unposted, Untimed, Unowed
<1>4. AtRest BY <1>3 DEF AtRest, BothIn
<1>5. Sessions!Init BY <1>3 DEF Sessions!Init, Phase
<1> QED BY <1>2, <1>4, <1>5 DEF UInv, Init, Undisturbed

LEMMA ConMoves ==
    ASSUME Undisturbed, IInv, UInv, NEW p \in Nodes, NEW at \in Place, NEW m \in ConMsg,
           ConUnderWay(p, at, m), Next
    PROVE  UInv' /\ PhaseStep
<1>1. OnItsWay(p, at, "con") BY DEF ConUnderWay, OnItsWay
<1>2. \/ at = "flagged" /\ StartTx(p)
      \/ at = "loaded" /\ Transmit(p, Clean)
      \/ at = "arrived" /\ Receive(Partner(p))
  BY <1>1, StepsUnderWay DEF Channel
<1>3. CASE at = "flagged" /\ StartTx(p) BY <1>3, ConStart
<1>4. CASE at = "loaded" /\ Transmit(p, Clean) BY <1>4, ConTransmit
<1>5. CASE at = "arrived" /\ Receive(Partner(p))
  BY <1>5, EnableRequestTaken, EnableResponseTaken, DisableRequestTaken, DisableResponseTaken,
     PingTaken DEF ConMsg
<1> QED BY <1>2, <1>3, <1>4, <1>5

LEMMA EventMoves ==
    ASSUME Undisturbed, IInv, UInv, NEW p \in Nodes, NEW at \in Place, NEW e \in EventId,
           EventUnderWay(p, at, e), Next
    PROVE  UInv' /\ PhaseStep
<1>1. OnItsWay(p, at, "rr")
  <2>1. /\ Lane(p, at, "rr") /\ inst[p].rrFlag = (at = "flagged") /\ inst[p].conFlag = FALSE
        /\ Unposted(inst[Partner(p)])
        /\ at = "loaded" => inst[p].rrInst = TRUE
    BY DEF EventUnderWay
  <2> QED BY <2>1 DEF OnItsWay
<1>2. \/ at = "flagged" /\ StartTx(p)
      \/ at = "loaded" /\ Transmit(p, Clean)
      \/ at = "arrived" /\ Receive(Partner(p))
  BY <1>1, StepsUnderWay DEF Channel
<1>3. CASE at = "flagged" /\ StartTx(p) BY <1>3, EventStart
<1>4. CASE at = "loaded" /\ Transmit(p, Clean) BY <1>4, EventTransmit
<1>5. CASE at = "arrived" /\ Receive(Partner(p))
  BY <1>5, EventDelivered, EventAcked DEF Nodes, Partner, Undisturbed
<1> QED BY <1>2, <1>3, <1>4, <1>5

LEMMA NextUndisturbed ==
    ASSUME Undisturbed PROVE IInv /\ UInv /\ [Next]_vars => UInv' /\ PhaseStep
<1> SUFFICES ASSUME IInv, UInv, [Next]_vars PROVE UInv' /\ PhaseStep OBVIOUS
<1>1. CASE UNCHANGED vars
  <2> USE <1>1 DEF vars
  <2>1. Phase' = Phase BY DEF Phase
  <2>2. ASSUME NEW p \in Nodes PROVE Plain(p)' <=> Plain(p) BY DEF Plain
  <2>3. AtRest' <=> AtRest BY DEF AtRest, Clear, BothIn, InStep
  <2>4. ASSUME NEW p \in Nodes, NEW at \in Place, NEW x PROVE Lane(p, at, x)' <=> Lane(p, at, x)
    BY DEF Lane, Flagged, Loaded, Arrived, Clear
  <2>5. ASSUME NEW p \in Nodes, NEW m \in ConMsg PROVE Exchange(m, p)' <=> Exchange(m, p)
    BY DEF Exchange, BothIn, InStep
  <2>6. ASSUME NEW p \in Nodes, NEW at \in Place, NEW m \in ConMsg
        PROVE  ConUnderWay(p, at, m) => ConUnderWay(p, at, m)'
    BY <2>4, <2>5 DEF ConUnderWay
  <2>7. ASSUME NEW p \in Nodes, NEW at \in Place, NEW e \in EventId
        PROVE  EventUnderWay(p, at, e) => EventUnderWay(p, at, e)'
    BY <2>4 DEF EventUnderWay, BothIn, InStep
  <2> QED BY <2>1, <2>2, <2>3, <2>6, <2>7 DEF UInv, PhaseStep
<1>2. CASE Next /\ AtRest
  BY <1>2, StepsAtRest, EnableFromRest, DisableFromRest, SendFromRest, PingFromRest
<1>3. CASE Next /\ ~AtRest
  <2>1. CASE \E p \in Nodes, at \in Place, m \in ConMsg : ConUnderWay(p, at, m)
    <3>1. PICK p \in Nodes, at \in Place, m \in ConMsg : ConUnderWay(p, at, m) BY <2>1
    <3> QED BY <1>3, <3>1, ConMoves
  <2>2. CASE \E p \in Nodes, at \in Place, e \in EventId : EventUnderWay(p, at, e)
    <3>1. PICK p \in Nodes, at \in Place, e \in EventId : EventUnderWay(p, at, e) BY <2>2
    <3> QED BY <1>3, <3>1, EventMoves
  <2> QED BY <1>3, <2>1, <2>2 DEF UInv
<1> QED BY <1>1, <1>2, <1>3

\* The inductive invariant of an undisturbed link: at every moment it rests, or
\* one message is on its way and both ends are where the exchange needs them.
THEOREM UndisturbedInductive == ASSUME Undisturbed PROVE Spec => [](IInv /\ UInv)
<1>1. Init => UInv BY InitUndisturbed
<1>2. IInv /\ UInv /\ [Next]_vars => UInv' BY NextUndisturbed
<1> QED BY <1>1, <1>2, Inductive, PTL DEF Spec

\* Nothing is on its way when the link layers and the inboxes are empty.
LEMMA IdleIsRest == ASSUME UInv, LinkIdle PROVE AtRest
<1>1. ASSUME NEW p \in Nodes, NEW at \in Place, NEW m \in ConMsg, ConUnderWay(p, at, m)
      PROVE  FALSE
  <2>1. inst[p].conFlag = (at = "flagged") /\ Lane(p, at, "con") BY <1>1 DEF ConUnderWay
  <2>2. CASE at = "flagged" BY <2>1, <2>2 DEF LinkIdle
  <2>3. CASE at = "loaded" BY <2>1, <2>3 DEF LinkIdle, Lane, Loaded
  <2>4. CASE at = "arrived"
    <3>1. Len(inbox[Partner(p)]) = 1 /\ Len(<<>>) = 0 BY <2>1, <2>4 DEF Lane, Arrived
    <3> QED BY <3>1, Sides DEF LinkIdle
  <2> QED BY <2>2, <2>3, <2>4 DEF Place
<1>2. ASSUME NEW p \in Nodes, NEW at \in Place, NEW e \in EventId, EventUnderWay(p, at, e)
      PROVE  FALSE
  <2>1. inst[p].rrFlag = (at = "flagged") /\ Lane(p, at, "rr") BY <1>2 DEF EventUnderWay
  <2>2. CASE at = "flagged" BY <2>1, <2>2 DEF LinkIdle
  <2>3. CASE at = "loaded" BY <2>1, <2>3 DEF LinkIdle, Lane, Loaded
  <2>4. CASE at = "arrived"
    <3>1. Len(inbox[Partner(p)]) = 1 /\ Len(<<>>) = 0 BY <2>1, <2>4 DEF Lane, Arrived
    <3> QED BY <3>1, Sides DEF LinkIdle
  <2> QED BY <2>2, <2>3, <2>4 DEF Place
<1> QED BY <1>1, <1>2 DEF UInv

\* Both ends of an undisturbed link agree on whether it is open whenever nothing
\* is under way (DBAL_connectionSm of two instances that run against each other).
THEOREM EndsAgree == ASSUME Undisturbed PROVE Spec => []Agreement
<1>1. IInv /\ UInv => Agreement
  <2> SUFFICES ASSUME IInv, UInv, Quiet
               PROVE  inst["client"].commState = inst["server"].commState
    BY DEF Agreement
  <2>1. AtRest BY IdleIsRest DEF Quiet
  <2>2. inst["client"].conState = inst["server"].conState
        /\ inst["client"].conState \in {"CONNECTED", "DISCONNECTED"}
    BY <2>1 DEF AtRest, BothIn, Nodes
  <2>3. Good(inst["client"]) /\ Good(inst["server"]) BY DEF IInv, InstOK, Nodes
  <2> QED BY <2>2, <2>3, SMT DEF Good, Sound, Coherent, Instance, CommState
<1> QED BY <1>1, UndisturbedInductive, PTL

\* The next event of an undisturbed open link is never ignored by the client
\* (PrepareHeader's ids against DBAL_isReceivedReqRespMsg2BeIgnored).
THEOREM SequenceKept == ASSUME Undisturbed PROVE Spec => []SequenceInStep
<1>1. IInv /\ UInv => SequenceInStep
  <2> SUFFICES ASSUME IInv, UInv, LinkIdle, IsOpen(inst["client"]), IsOpen(inst["server"])
               PROVE  ~IsIgnored(inst["client"], (inst["server"].seqSend + 1) % SeqMod)
    BY DEF SequenceInStep
  <2>1. AtRest BY IdleIsRest
  <2>2. inst["client"].conState = "CONNECTED" BY DEF IsOpen
  <2>3. InStep("server", "client")
    BY <2>1, <2>2 DEF AtRest, BothIn, Nodes, Partner
  <2>4. Good(inst["client"]) BY DEF IInv, InstOK, Nodes
  <2>5. ~IsIgnored(inst["client"], Succ(inst["client"].seqRecv))
    BY <2>2, <2>4, SuccTaken DEF Undisturbed
  <2> QED BY <2>3, <2>5 DEF InStep, Succ
<1> QED BY <1>1, UndisturbedInductive, PTL

\* The two connection state machines of an undisturbed link implement the
\* two-sided handshake of module Handshake, step by step.
THEOREM HandshakeImplemented == ASSUME Undisturbed PROVE Spec => Sessions!Spec
<1>1. Init => Sessions!Init BY InitUndisturbed
<1>2. IInv /\ UInv /\ [Next]_vars => [Sessions!Next]_Phase
  BY NextUndisturbed DEF PhaseStep
<1> QED BY <1>1, <1>2, UndisturbedInductive, PTL DEF Spec, Sessions!Spec
=============================================================================
