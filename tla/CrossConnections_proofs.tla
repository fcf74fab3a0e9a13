----------------------- MODULE CrossConnections_proofs -----------------------
(***************************************************************************)
(* Proofs about the cross connections, for any number of instances, calls  *)
(* and faults: the queues of the shared frames are sound and never fill,   *)
(* every field holds a value of its kind, and no instance within a         *)
(* handshake and no use of a frame is left behind.                         *)
(*                                                                         *)
(* The last follows from IInv: an instance in CONNECTING or DISCONNECTING  *)
(* has a request in its connection message, and every call either asks for *)
(* the frame with it or keeps the place or the timer it has; the frame is  *)
(* free, flagged, on the bus or waits for the recovery of its user, unless *)
(* its pointer went astray.                                                *)
(***************************************************************************)
EXTENDS CrossConnections, DbalInstance_proofs, FiniteSetTheorems, WellFoundedInduction

\* QueueSound, with the queue a sequence of instances.
FitFor(user, queue) ==
    /\ user \in Cross \cup {NoInstance} /\ queue \in Seq(Cross)
    /\ \A j, k \in 1 .. Len(queue) : queue[j] = queue[k] => j = k
    /\ \A k \in 1 .. Len(queue) : queue[k] # user
    /\ user = NoInstance => queue = <<>>
GoodFrame(c) == c \in Channel /\ FitFor(c.user, c.queue)
QueuesInv == GoodFrame(con) /\ GoodFrame(rr)

\* The least-number principle.
LEMMA LeastNumber ==
    ASSUME NEW S \in SUBSET Nat, S # {}
    PROVE \E x \in S : \A y \in S : x <= y
<1> DEFINE R == {ss \in Nat \X Nat : ss[1] < ss[2]}
<1>1. IsWellFoundedOn(R, Nat)
  BY NatLessThanWellFounded, Zenon DEF OpToRel
<1> HIDE DEF R
<1>2. PICK x \in S : \A y \in S : ~ (<<y, x>> \in R)
  BY <1>1, WFMin, Zenon
<1>3. \A a, b \in Nat : a < b => <<a, b>> \in R
  BY DEF R
<1>4. \A a, b \in Nat : a < b \/ b <= a
  OBVIOUS
<1> QED BY <1>2, <1>3, <1>4

LEMMA LeastPlace ==
    ASSUME NEW n \in Nat, NEW S \in SUBSET (1 .. n), S # {}
    PROVE Min(S) \in S
<1>1. S \in SUBSET Nat
  OBVIOUS
<1>2. \E x \in S : \A y \in S : x =< y
  BY <1>1, LeastNumber
<1> QED BY <1>2 DEF Min

-----------------------------------------------------------------------------
(* What the operators on frames and queues preserve.                       *)

LEMMA NobodyIsNoInstance == NoInstance \notin Cross
BY DEF NoInstance, Cross

LEMMA GoodIsSound == ASSUME NEW c, GoodFrame(c) PROVE QueueSound(c)
BY DEF GoodFrame, FitFor, QueueSound, Waiting

\* An instance that finds the frame free or its own.
LEMMA UseGood ==
    ASSUME NEW c, GoodFrame(c), NEW i \in Cross, c.user \in {NoInstance, i}
    PROVE GoodFrame(Use(c, i))
<1>1. Use(c, i) \in Channel /\ Use(c, i).user = i /\ Use(c, i).queue = c.queue
  BY DEF Use, GoodFrame, Channel
<1>2. FitFor(i, c.queue)
  <2>1. CASE c.user = i
    BY <2>1 DEF GoodFrame
  <2>2. CASE c.user = NoInstance
    <3>1. c.queue = <<>> /\ c.queue \in Seq(Cross) /\ Len(c.queue) = 0
      BY <2>2 DEF GoodFrame, FitFor
    <3> QED BY <3>1, NobodyIsNoInstance DEF FitFor
  <2> QED BY <2>1, <2>2
<1> QED BY <1>1, <1>2 DEF GoodFrame

LEMMA EnqueueGood ==
    ASSUME NEW c, GoodFrame(c), NEW i \in Cross, c.user \notin {NoInstance, i}
    PROVE GoodFrame(Enqueue(c, i))
<1> DEFINE q == Append(c.queue, i)
<1>1. CASE i \in Waiting(c) \/ Len(c.queue) = Count
  BY <1>1 DEF Enqueue
<1>2. CASE ~(i \in Waiting(c) \/ Len(c.queue) = Count)
  <2>1. /\ Enqueue(c, i) \in Channel
        /\ Enqueue(c, i).user = c.user /\ Enqueue(c, i).queue = q
    BY <1>2 DEF Enqueue, GoodFrame, Channel
  <2>2. \A k \in 1 .. Len(c.queue) : c.queue[k] # i
    BY <1>2 DEF Waiting
  <2>3. /\ q \in Seq(Cross) /\ Len(q) = Len(c.queue) + 1 /\ Len(c.queue) \in Nat
        /\ q[Len(q)] = i
        /\ \A k \in 1 .. Len(c.queue) : q[k] = c.queue[k]
    BY DEF GoodFrame, FitFor
  <2> HIDE DEF q
  <2>4. \A k \in 1 .. Len(q) : k \in 1 .. Len(c.queue) \/ k = Len(q)
    BY <2>3
  <2>5. \A j, k \in 1 .. Len(q) : q[j] = q[k] => j = k
    BY <2>2, <2>3, <2>4 DEF GoodFrame, FitFor
  <2>6. \A k \in 1 .. Len(q) : q[k] # c.user
    BY <2>3, <2>4 DEF GoodFrame, FitFor
  <2>7. FitFor(c.user, q)
    BY <2>3, <2>5, <2>6 DEF GoodFrame, FitFor
  <2> QED BY <2>1, <2>7 DEF GoodFrame
<1> QED BY <1>1, <1>2

LEMMA AskGood == ASSUME NEW c, GoodFrame(c), NEW i \in Cross PROVE GoodFrame(Ask(c, i))
BY UseGood, EnqueueGood DEF Ask

\* Dropping the first k instances for the sake of the k-th.
LEMMA ServedGood ==
    ASSUME NEW c, GoodFrame(c), NEW k \in 1 .. Len(c.queue)
    PROVE GoodFrame(Use([c EXCEPT !.queue = SubSeq(@, k + 1, Len(@))], c.queue[k]))
<1> DEFINE q == SubSeq(c.queue, k + 1, Len(c.queue))
           d == Use([c EXCEPT !.queue = SubSeq(@, k + 1, Len(@))], c.queue[k])
<1>1. c.queue \in Seq(Cross) /\ Len(c.queue) \in Nat /\ k \in Nat /\ k <= Len(c.queue)
  BY DEF GoodFrame, FitFor
<1>2. q \in Seq(Cross) /\ Len(q) = Len(c.queue) - k
  BY <1>1
<1>3. c.queue[k] \in Cross
  BY <1>1
<1>4. d \in Channel /\ d.user = c.queue[k] /\ d.queue = q
  BY <1>2, <1>3 DEF Use, GoodFrame, Channel
<1>5. \A j \in 1 .. Len(q) : q[j] = c.queue[j + k] /\ j + k \in 1 .. Len(c.queue) /\ j + k # k
  BY <1>1, <1>2
<1> HIDE DEF q, d
<1>6. \A i, j \in 1 .. Len(q) : q[i] = q[j] => i = j
  <2> SUFFICES ASSUME NEW i \in 1 .. Len(q), NEW j \in 1 .. Len(q), q[i] = q[j] PROVE i = j
    OBVIOUS
  <2>1. i + k = j + k
    BY <1>5 DEF GoodFrame, FitFor
  <2> QED BY <1>1, <2>1
<1>7. \A j \in 1 .. Len(q) : q[j] # c.queue[k]
  BY <1>5 DEF GoodFrame, FitFor
<1>8. FitFor(c.queue[k], q)
  BY <1>2, <1>3, <1>6, <1>7, NobodyIsNoInstance DEF FitFor
<1>9. GoodFrame(d)
  BY <1>4, <1>8 DEF GoodFrame
<1> QED BY <1>9 DEF d

LEMMA LeftGood ==
    ASSUME NEW c, GoodFrame(c) PROVE GoodFrame([c EXCEPT !.user = NoInstance, !.queue = <<>>])
<1>1. <<>> \in Seq(Cross) /\ Len(<<>>) = 0
  OBVIOUS
<1>2. FitFor(NoInstance, <<>>)
  BY <1>1 DEF FitFor
<1> QED BY <1>1, <1>2 DEF GoodFrame, Channel

LEMMA NextConGood == ASSUME NEW c, GoodFrame(c) PROVE GoodFrame(NextCon(c))
<1>1. CASE c.queue = <<>>
  <2>1. NextCon(c) = [c EXCEPT !.user = NoInstance, !.queue = <<>>]
    BY <1>1 DEF NextCon
  <2> QED BY <2>1, LeftGood
<1>2. CASE c.queue # <<>>
  <2>1. c.queue \in Seq(Cross)
    BY DEF GoodFrame, FitFor
  <2>2. 1 \in 1 .. Len(c.queue) /\ Head(c.queue) = c.queue[1]
    BY <1>2, <2>1
  <2>3. Tail(c.queue) = SubSeq(c.queue, 1 + 1, Len(c.queue))
    BY <1>2, <2>1
  <2>4. NextCon(c) = Use([c EXCEPT !.queue = SubSeq(@, 1 + 1, Len(@))], c.queue[1])
    BY <1>2, <2>2, <2>3 DEF NextCon
  <2> QED BY <2>2, <2>4, ServedGood
<1> QED BY <1>1, <1>2

LEMMA NextRrGood == ASSUME NEW c, GoodFrame(c) PROVE GoodFrame(NextRr(c))
<1> DEFINE open == {k \in 1 .. Len(c.queue) : IsOpen(inst[c.queue[k]])}
<1>1. CASE open = {}
  <2>1. NextRr(c) = [c EXCEPT !.user = NoInstance, !.queue = <<>>]
    BY <1>1 DEF NextRr
  <2> QED BY <2>1, LeftGood
<1>2. CASE open # {}
  <2>1. Len(c.queue) \in Nat /\ open \in SUBSET (1 .. Len(c.queue))
    BY DEF GoodFrame, FitFor
  <2> DEFINE k == Min(open)
  <2>2. k \in 1 .. Len(c.queue)
    <3> HIDE DEF open
    <3> QED BY <1>2, <2>1, LeastPlace
  <2>3. NextRr(c) = Use([c EXCEPT !.queue = SubSeq(@, k + 1, Len(@))], c.queue[k])
    BY <1>2 DEF NextRr
  <2> HIDE DEF k
  <2> QED BY <2>2, <2>3, ServedGood
<1> QED BY <1>1, <1>2

\* Raising or lowering the transmit flag.
LEMMA FlagGood ==
    ASSUME NEW c, GoodFrame(c), NEW b \in BOOLEAN PROVE GoodFrame([c EXCEPT !.flag = b])
BY DEF GoodFrame, Channel

-----------------------------------------------------------------------------
(* The steps and the queues.                                               *)

LEMMA CalledGood ==
    ASSUME QueuesInv, NEW i \in Cross, NEW n, Called(i, n)
    PROVE QueuesInv'
<1>1. GoodFrame(Ask(con, i)) /\ GoodFrame(Ask(rr, i)) /\ GoodFrame(con) /\ GoodFrame(rr)
  BY AskGood DEF QueuesInv
<1>2. con' \in {con, Ask(con, i)} /\ rr' \in {rr, Ask(rr, i)}
  BY DEF Called
<1> QED BY <1>1, <1>2 DEF QueuesInv, GoodFrame

LEMMA InstanceStepGood ==
    ASSUME QueuesInv, NEW i \in Cross, Application(i) \/ Partners(i) \/ Timers(i)
    PROVE QueuesInv'
<1>1. CASE Application(i)
  BY <1>1, CalledGood DEF Application, Enable, Disable, Send
<1>2. ASSUME UNCHANGED <<con, rr>> PROVE QueuesInv'
  BY <1>2 DEF QueuesInv
<1>3. CASE Partners(i)
  BY <1>2, <1>3, CalledGood DEF Partners, PartnerAsks, PartnerAnswers, PartnerAcks
<1>4. CASE Timers(i)
  BY <1>4, CalledGood DEF Timers, ConMsgTimerFires, MsgTimerFires, BreakTimerFires
<1> QED BY <1>1, <1>3, <1>4

LEMMA ConGood ==
    ASSUME QueuesInv, TakeCon \/ \E s \in Outcome : ConfirmCon(s)
    PROVE QueuesInv'
<1>1. GoodFrame(con) /\ GoodFrame(rr) /\ rr' = rr
  BY DEF QueuesInv, TakeCon, ConfirmCon
<1>2. GoodFrame(NextCon(con)) /\ GoodFrame(NextCon(NextCon(con)))
  BY <1>1, NextConGood
<1>3. GoodFrame([con EXCEPT !.flag = TRUE]) /\ GoodFrame([con EXCEPT !.flag = FALSE])
  BY <1>1, FlagGood
<1>4. GoodFrame(con')
  <2>1. CASE TakeCon
    BY <1>3, <2>1 DEF TakeCon
  <2>2. CASE ConPosted
    BY <1>1, <1>2, <2>2 DEF ConPosted
  <2>3. ASSUME NEW s, ConFailed(s) PROVE GoodFrame(con')
    BY <1>1, <1>2, <1>3, <2>3 DEF ConFailed
  <2> QED BY <2>1, <2>2, <2>3 DEF ConfirmCon
<1> QED BY <1>1, <1>4 DEF QueuesInv

LEMMA RrGood ==
    ASSUME QueuesInv, TakeRr \/ \E s \in Outcome : ConfirmRr(s)
    PROVE QueuesInv'
<1>1. GoodFrame(con) /\ GoodFrame(rr) /\ con' = con
  BY DEF QueuesInv, TakeRr, ConfirmRr
<1>2. GoodFrame(NextRr(rr))
  BY <1>1, NextRrGood
<1>3. GoodFrame([rr EXCEPT !.flag = TRUE]) /\ GoodFrame([rr EXCEPT !.flag = FALSE])
  BY <1>1, FlagGood
<1>4. GoodFrame(rr')
  <2>1. CASE TakeRr
    BY <1>3, <2>1 DEF TakeRr
  <2>2. CASE RrPosted
    BY <1>1, <1>2, <2>2 DEF RrPosted
  <2>3. ASSUME NEW s, RrFailed(s) PROVE GoodFrame(rr')
    BY <1>1, <1>2, <1>3, <2>3 DEF RrFailed
  <2> QED BY <2>1, <2>2, <2>3 DEF ConfirmRr
<1> QED BY <1>1, <1>4 DEF QueuesInv

LEMMA InitGood == Init => QueuesInv
<1>1. <<>> \in Seq(Cross) /\ Len(<<>>) = 0
  OBVIOUS
<1>2. GoodFrame(NewChannel)
  BY <1>1 DEF NewChannel, GoodFrame, Channel, FitFor
<1> QED BY <1>2 DEF Init, QueuesInv

LEMMA StepGood == QueuesInv /\ [Next]_vars => QueuesInv'
<1>1. ASSUME QueuesInv, UNCHANGED vars PROVE QueuesInv'
  BY <1>1 DEF vars, QueuesInv
<1> QED BY <1>1, InstanceStepGood, ConGood, RrGood DEF Next, Bus

-----------------------------------------------------------------------------
(* Theorems about the queues.                                              *)

\* With any number of cross connections, no instance waits in two places, and no
\* instance waits for a frame it uses or that is free.
THEOREM QueuesStaySound == Spec => []QueuesSound
<1>1. Init => QueuesInv
  BY InitGood
<1>2. QueuesInv => QueuesSound
  BY GoodIsSound DEF QueuesInv, QueuesSound
<1> QED BY <1>1, <1>2, StepGood, PTL DEF Spec

\* A sound queue holds at most the instances that do not use the frame.
LEMMA SoundFits == ASSUME NEW c, GoodFrame(c) PROVE Len(c.queue) < Count
<1> DEFINE q == c.queue
           n == Len(q)
           T == Cross \ {c.user}
<1>1. n \in Nat /\ Count \in Nat /\ Count > 1
  BY CrossAssumption DEF GoodFrame, FitFor
<1>2. IsFiniteSet(Cross) /\ Cardinality(Cross) = Count
  BY <1>1, FS_Interval DEF Cross
<1>3. CASE c.user = NoInstance
  <2>1. n = 0 BY <1>3 DEF GoodFrame, FitFor
  <2> QED BY <1>1, <2>1
<1>4. CASE c.user # NoInstance
  <2>1. c.user \in Cross BY <1>4 DEF GoodFrame, FitFor
  <2>2. IsFiniteSet(T) /\ Cardinality(T) = Count - 1
    BY <1>2, <2>1, FS_RemoveElement
  <2>3. IsFiniteSet(1 .. n) /\ Cardinality(1 .. n) = n
    <3>1. n \in Int /\ 1 \in Int /\ (IF 1 > n THEN 0 ELSE n - 1 + 1) = n BY <1>1
    <3> HIDE DEF n
    <3>2. /\ IsFiniteSet(1 .. n)
          /\ Cardinality(1 .. n) = IF 1 > n THEN 0 ELSE n - 1 + 1
      BY <3>1, FS_Interval, Zenon
    <3> QED BY <3>1, <3>2
  <2>4. q \in [1 .. n -> T] BY DEF GoodFrame, FitFor
  <2>5. \A j, k \in 1 .. n : q[j] = q[k] => j = k BY DEF GoodFrame, FitFor
  <2> HIDE DEF q, n, T
  <2>6. ASSUME Cardinality(T) < Cardinality(1 .. n) PROVE FALSE
    <3>1. \E j, k \in 1 .. n : j # k /\ q[j] = q[k]
      BY <2>2, <2>3, <2>4, <2>6, FS_PigeonHole, Zenon
    <3> QED BY <2>5, <3>1, Zenon
  <2> QED BY <1>1, <2>2, <2>3, <2>6 DEF n, q
<1> QED BY <1>3, <1>4

\* The queues of BshDBus2AppLayer_crossQueue.c, with a place for every instance,
\* have room for one more.
QueuesFit == Len(con.queue) < Count /\ Len(rr.queue) < Count

\* The queues never fill up: no message that has to wait is turned away by
\* DBALCQ_queueConnectMsg or DBALCQ_queueReqRespMsg.
THEOREM QueuesNeverFill == Spec => []QueuesFit
<1>1. Init => QueuesInv
  BY InitGood
<1>2. QueuesInv => QueuesFit
  BY SoundFits DEF QueuesInv, QueuesFit
<1> QED BY <1>1, <1>2, StepGood, PTL DEF Spec

-----------------------------------------------------------------------------
(* The functions of an instance and its request.                           *)

\* A request is in the connection message while its answer is waited for.
Asking(i) == Waits(i) => i.conBuf \in Request

\* From i to j an instance asks for the connection frame, or waits no more than
\* before; a timer is stopped or left alone.
Follows(i, j) ==
    /\ HasCon(j) /\ Asking(j)
    /\ i.conFlag = TRUE => j.conFlag = TRUE
    /\ Waits(j) => j.conFlag = TRUE \/ (Waits(i) /\ j.conTimer = i.conTimer)
    /\ j.conTimer \in {i.conTimer, "off"}

LEMMA GoodHasCon == ASSUME NEW i, Good(i) PROVE HasCon(i)
BY DEF Good, HasCon, Instance

LEMMA SameFollows ==
    ASSUME NEW i, Asking(i), NEW j, SameCon(i, j) PROVE Follows(i, j)
BY DEF Follows, SameCon, Asking, Waits

LEMMA FollowsTrans ==
    ASSUME NEW i, NEW j, NEW k, Follows(i, j), Follows(j, k) PROVE Follows(i, k)
BY DEF Follows

LEMMA SendConFollows ==
    ASSUME NEW i, HasCon(i), NEW m, Waits(i) => m \in Request PROVE Follows(i, SendCon(i, m))
BY DEF Follows, HasCon, Asking, Waits, SendCon

\* The start of a handshake.
LEMMA RequestFollows ==
    ASSUME NEW i, HasCon(i), NEW s \in ConState, NEW m \in Request
    PROVE  Follows(i, SendCon([i EXCEPT !.conState = s], m))
<1> DEFINE j == [i EXCEPT !.conState = s]
<1>1. HasCon(j) /\ j.conTimer = i.conTimer BY DEF HasCon, ConState
<1> HIDE DEF j
<1>2. HasCon(SendCon(j, m)) /\ SendCon(j, m).conBuf = m
  BY <1>1 DEF HasCon, SendCon
<1>3. SendCon(j, m).conFlag = TRUE /\ SendCon(j, m).conTimer = i.conTimer
  BY <1>1 DEF HasCon, SendCon
<1> QED BY <1>2, <1>3 DEF Follows, Asking, j

LEMMA SettledFollows ==
    ASSUME NEW i, HasCon(i)
    PROVE  Follows(i, ToConnected(i)) /\ Follows(i, ToDisconnected(i))
<1> DEFINE j == [i EXCEPT !.conState = "CONNECTED", !.commState = "READY",
                          !.seqSend = SeqMod - 1, !.seqRecv = SeqMod - 1,
                          !.conTimer = "off", !.conRepeat = 0, !.told = "READY"]
<1>1. Follows(i, j) BY DEF Follows, HasCon, Asking, Waits, ConState
<1>2. Follows(i, ToConnected(i))
  <2> HIDE DEF j
  <2>1. ToConnected(i) = TriggerPing(j) BY DEF ToConnected, j
  <2>2. SameCon(j, TriggerPing(j)) BY <1>1, ClearSame DEF Follows
  <2>3. Follows(j, TriggerPing(j)) BY <1>1, <2>2, SameFollows DEF Follows
  <2> QED BY <1>1, <2>1, <2>3, FollowsTrans
<1>3. Follows(i, ToDisconnected(i))
  BY DEF Follows, HasCon, Asking, Waits, ToDisconnected, ConState
<1> QED BY <1>2, <1>3

LEMMA ConnectionSmFollows ==
    ASSUME NEW i, HasCon(i), Asking(i), NEW e PROVE Follows(i, ConnectionSm(i, e))
<1>1. Follows(i, i) BY DEF Follows
<1>2. Follows(i, ToConnected(i)) /\ Follows(i, ToDisconnected(i)) BY SettledFollows
<1>3. ASSUME NEW s \in ConState, s \notin {"CONNECTING", "DISCONNECTING"}
      PROVE  Follows(i, [i EXCEPT !.conState = s])
  BY <1>3 DEF Follows, HasCon, Asking, Waits
\* An answer or a response is sent on the way to a state without a request.
<1>4. ASSUME NEW m, NEW j, Follows(SendCon(i, m), j), ~Waits(j) PROVE Follows(i, j)
  <2>1. /\ SendCon(i, m).conFlag = TRUE /\ SendCon(i, m).conTimer = i.conTimer
    BY DEF HasCon, SendCon
  <2> QED BY <1>4, <2>1 DEF Follows
<1>5. ASSUME NEW j, HasCon(j) PROVE ~Waits(ToConnected(j)) /\ ~Waits(ToDisconnected(j))
  <2> DEFINE k == [j EXCEPT !.conState = "CONNECTED", !.commState = "READY",
                            !.seqSend = SeqMod - 1, !.seqRecv = SeqMod - 1,
                            !.conTimer = "off", !.conRepeat = 0, !.told = "READY"]
  <2>1. HasCon(k) /\ k.conState = "CONNECTED" BY <1>5 DEF HasCon, ConState
  <2>2. ToConnected(j) = TriggerPing(k) BY DEF ToConnected
  <2> HIDE DEF k
  <2>3. TriggerPing(k).conState = "CONNECTED" BY <2>1, ClearSame DEF SameCon
  <2> QED BY <1>5, <2>2, <2>3 DEF Waits, HasCon, ToDisconnected
<1>6. ASSUME NEW m
      PROVE  /\ HasCon(SendCon(i, m)) /\ Follows(i, ToConnected(SendCon(i, m)))
             /\ Follows(i, ToDisconnected(SendCon(i, m)))
  <2>1. HasCon(SendCon(i, m)) BY DEF HasCon, SendCon
  <2> QED BY <1>4, <1>5, <2>1, SettledFollows
<1>7. CASE i.conState = "DISCONNECTED"
  <2> DEFINE c == ToConnected(SendCon(i, "ENABLE_RESPONSE"))
             d == [c EXCEPT !.breakOn = FALSE]
  <2>1. Follows(i, c) BY <1>6
  <2>2. Follows(i, d)
    <3> HIDE DEF c
    <3>1. SameCon(c, d) BY <2>1 DEF Follows, SameCon, HasCon
    <3> HIDE DEF d
    <3> QED BY <2>1, <3>1, SameFollows, FollowsTrans DEF Follows
  <2>3. Follows(i, SendCon([i EXCEPT !.conState = "CONNECTING"], "ENABLE_REQUEST"))
    BY RequestFollows DEF ConState, Request
  <2> HIDE DEF c
  <2> QED BY <1>1, <1>7, <2>2, <2>3 DEF ConnectionSm, InDisconnected, c
<1>8. CASE i.conState = "CONNECTING"
  BY <1>1, <1>2, <1>3, <1>6, <1>8 DEF ConnectionSm, InConnecting, ConState
<1>9. CASE i.conState = "CONNECTED"
  <2> DEFINE s == SendCon(i, "ENABLE_RESPONSE")
  <2>1. Follows(i, ToDisconnected(s)) /\ HasCon(ToDisconnected(s)) BY <1>6 DEF Follows
  <2>2. Follows(i, ToConnected(ToDisconnected(s)))
    <3> HIDE DEF s
    <3> QED BY <2>1, SettledFollows, FollowsTrans
  <2>3. Follows(i, SendCon([i EXCEPT !.conState = "DISCONNECTING"], "DISABLE_REQUEST"))
    BY RequestFollows DEF ConState, Request
  <2> QED BY <1>1, <1>2, <1>6, <1>9, <2>2, <2>3 DEF ConnectionSm, InConnected
<1>10. CASE i.conState = "DISCONNECTING"
  BY <1>1, <1>2, <1>10 DEF ConnectionSm, InDisconnecting
<1> QED BY <1>7, <1>8, <1>9, <1>10 DEF HasCon, ConState

\* The state machine after the queues or the counters were cleared.
LEMMA ClosedFollows ==
    ASSUME NEW i, HasCon(i), Asking(i), NEW e
    PROVE  /\ Follows(i, ConnectionSm(ClearRetries(ClearMsgs(i)), e))
           /\ Follows(i, ConnectionSm(ClearRetries(ClearTx(i)), e))
<1> DEFINE x == ClearMsgs(i)
           y == ClearTx(i)
<1>1. SameCon(i, x) /\ SameCon(i, y) BY ClearSame
<1>2. Follows(i, x) /\ Follows(i, y) BY <1>1, SameFollows
<1> HIDE DEF x, y
<1>3. ASSUME NEW j, Follows(i, j) PROVE Follows(i, ConnectionSm(ClearRetries(j), e))
  <2>1. Follows(j, ClearRetries(j)) BY <1>3, ClearSame, SameFollows DEF Follows
  <2>2. Follows(ClearRetries(j), ConnectionSm(ClearRetries(j), e))
    BY <2>1, ConnectionSmFollows DEF Follows
  <2> QED BY <1>3, <2>1, <2>2, FollowsTrans
<1> QED BY <1>2, <1>3 DEF x, y

LEMMA HandleConMsgFollows ==
    ASSUME NEW i, HasCon(i), Asking(i), NEW m PROVE Follows(i, HandleConMsg(i, m))
<1> DEFINE o == Organize(i)
<1>1. Follows(i, i) /\ Follows(i, o) /\ Follows(i, TriggerPing(i))
  BY ClearSame, SameFollows
<1>2. Follows(i, ConnectionSm(ClearRetries(ClearMsgs(o)), "DISABLE_REQUEST"))
  <2> HIDE DEF o
  <2> QED BY <1>1, ClosedFollows, FollowsTrans DEF Follows
<1>3. Follows(i, [o EXCEPT !.disableReq = TRUE])
  <2> HIDE DEF o
  <2>1. SameCon(o, [o EXCEPT !.disableReq = TRUE]) BY <1>1 DEF Follows, SameCon, HasCon
  <2> QED BY <1>1, <2>1, SameFollows, FollowsTrans DEF Follows
<1>4. IsOpen(i) => Follows(i, SendCon(i, "PING_RESPONSE"))
  BY SendConFollows DEF IsOpen, Waits
<1> HIDE DEF o
<1> QED BY <1>1, <1>2, <1>3, <1>4, ClosedFollows DEF HandleConMsg, o

LEMMA ReceiveAcksFollows ==
    ASSUME NEW i, HasCon(i), Asking(i), NEW s, NEW acks PROVE Follows(i, ReceiveAcks(i, s, acks))
<1> DEFINE hit == \E k \in 1 .. Len(acks) : i.rep # NoEvent /\ Kind(acks[k]) = Kind(i.rep)
           r == [i EXCEPT !.seqRecv = s, !.rep = IF hit THEN NoEvent ELSE @]
           o == Organize(r)
           y == ConnectionSm(ClearRetries(ClearMsgs(o)), "DISABLE_REQUEST")
<1>1. SameCon(i, r)
  <2> HIDE DEF hit
  <2> QED BY DEF HasCon, SameCon
<1> HIDE DEF r
<1>2. SameCon(r, o) BY <1>1, ClearSame DEF SameCon
<1>3. Follows(i, o) BY <1>1, <1>2, SameTrans, SameFollows
<1> HIDE DEF o
<1>4. Follows(i, y) BY <1>3, ClosedFollows, FollowsTrans DEF Follows
<1> HIDE DEF y
<1>5. ReceiveAcks(i, s, acks) \in {o, y} BY Zenon DEF ReceiveAcks, o, y, r
<1> QED BY <1>3, <1>4, <1>5

LEMMA MsgTimerActionFollows ==
    ASSUME NEW i, HasCon(i), Asking(i) PROVE Follows(i, MsgTimerAction(i))
<1> DEFINE GiveUp(j) == ConnectionSm(ClearRetries(ClearMsgs(j)), "DISABLE_SILENT")
           again == [i EXCEPT !.repCnt = @ + 1, !.msgTimer = TRUE]
           t == SendEvent(again, i.rep, again.repCnt)
           next == CASE i.rep = NoEvent -> i
                     [] i.rep # NoEvent /\ i.repCnt >= RetryMax -> GiveUp(i)
                     [] OTHER -> IF SendAccepted(again, i.rep, again.repCnt) THEN t ELSE GiveUp(t)
<1>1. Follows(i, i) BY ClearSame, SameFollows
<1>2. SameCon(i, again) BY DEF HasCon, SameCon
<1>3. SameCon(again, t)
  <2> HIDE DEF again
  <2> QED BY <1>2, SendEventSame DEF SameCon
<1>4. Follows(i, t) BY <1>2, <1>3, SameTrans, SameFollows
<1> HIDE DEF t
<1>5. Follows(i, GiveUp(i)) /\ Follows(i, GiveUp(t))
  BY <1>4, ClosedFollows, FollowsTrans DEF Follows
<1> HIDE DEF GiveUp
<1>6. Follows(i, next) BY <1>1, <1>4, <1>5
<1>7. MsgTimerAction(i) = Organize(next) BY Zenon DEF MsgTimerAction, t, GiveUp
<1> HIDE DEF next
<1>8. Follows(next, Organize(next)) BY <1>6, ClearSame, SameFollows DEF Follows
<1> QED BY <1>6, <1>7, <1>8, FollowsTrans

\* A failed message ends the handshake it belongs to and gives up the frame.
LEMMA ConTxFailEnds ==
    ASSUME NEW i, HasCon(i), Asking(i)
    PROVE  ~Waits(ConTxFail(i)) /\ ConTxFail(i).conInst = FALSE
<1> DEFINE j == [i EXCEPT !.conInst = FALSE]
           k == ClearRetries(j)
           event == IF i.conBuf \in {"PING_REQUEST", "PING_RESPONSE"}
                    THEN "DISABLE_SILENT" ELSE "REJECT"
<1>1. HasCon(j) /\ j.conState = i.conState /\ j.conInst = FALSE BY DEF HasCon
<1>2. HasCon(k) /\ k.conState = i.conState /\ k.conInst = FALSE
  <2> HIDE DEF j
  <2> QED BY <1>1, ClearSame DEF SameCon
<1>3. Waits(i) => event = "REJECT" BY DEF Asking, Request
<1>4. event \in {"DISABLE_SILENT", "REJECT"} OBVIOUS
<1>5. ConTxFail(i) = ConnectionSm(k, event) BY DEF ConTxFail
<1> HIDE DEF k, event
<1> DEFINE c == [k EXCEPT !.conState = "DISCONNECTED"]
           n == ConnectionSm(k, event)
<1>6. /\ ~Waits(c) /\ c.conInst = FALSE
      /\ ~Waits(ToDisconnected(k)) /\ ToDisconnected(k).conInst = FALSE
  BY <1>2 DEF HasCon, Waits, ToDisconnected
<1>7. CASE k.conState = "DISCONNECTED"
  <2>1. n = k BY <1>4, <1>7 DEF ConnectionSm, InDisconnected
  <2> QED BY <1>2, <1>5, <1>7, <2>1 DEF Waits
<1>8. CASE k.conState = "CONNECTING"
  <2>1. n = c BY <1>2, <1>3, <1>8 DEF ConnectionSm, InConnecting, Waits
  <2> QED BY <1>5, <1>6, <2>1
<1>9. CASE k.conState = "CONNECTED"
  <2>1. n = k \/ n = ToDisconnected(k) BY <1>4, <1>9 DEF ConnectionSm, InConnected
  <2> QED BY <1>2, <1>5, <1>6, <1>9, <2>1 DEF Waits
<1>10. CASE k.conState = "DISCONNECTING"
  <2>1. n = ToDisconnected(k)
    BY <1>2, <1>3, <1>10 DEF ConnectionSm, InDisconnecting, Waits
  <2> QED BY <1>5, <1>6, <2>1
<1> QED BY <1>2, <1>7, <1>8, <1>9, <1>10 DEF HasCon, ConState

\* A request that was sent is timed, or its handshake has ended.
LEMMA PostRepeatTriggerTimed ==
    ASSUME NEW i, HasCon(i), Asking(i)
    PROVE  LET n == PostRepeatTrigger(i)
           IN  Asking(n) /\ (Waits(n) => n.conTimer # "off")
<1> DEFINE t == [i EXCEPT !.conTimer = "response", !.conRepeat = @ + 1]
           n == PostRepeatTrigger(i)
<1>1. Asking(t) /\ t.conTimer # "off" BY DEF HasCon, Asking, Waits
<1>2. ~Waits(ConTxFail(i)) BY ConTxFailEnds
<1>3. ~Waits(i) \/ i.conBuf \in Request BY DEF Asking
<1> HIDE DEF t
<1>4. (n = i /\ ~Waits(i)) \/ n = t \/ n = ConTxFail(i)
  BY <1>3, Zenon DEF PostRepeatTrigger, t, Request
<1> QED BY <1>1, <1>2, <1>4 DEF Asking

\* A message that failed is flagged again, waits for recovery or gives up the frame.
LEMMA ConNonDeliverableTimed ==
    ASSUME NEW i, HasCon(i), Asking(i), NEW s
    PROVE  LET n == ConNonDeliverable(i, s)
           IN  /\ Asking(n)
               /\ n.conFlag = TRUE \/ n.conTimer = "recovery" \/ n.conInst = FALSE
               /\ Waits(n) => \/ n.conTimer = "recovery"
                              \/ /\ n.conFlag = TRUE /\ n.conInst = i.conInst
                                 /\ Waits(i) /\ n.conTimer = i.conTimer
<1> DEFINE j == [i EXCEPT !.retryCon = @ + 1]
           n == ConNonDeliverable(i, s)
<1>1. HasCon(j) /\ Asking(j) /\ SameCon(i, j) BY DEF HasCon, Asking, Waits, SameCon
<1> HIDE DEF j
<1> DEFINE r == [j EXCEPT !.conTimer = "recovery"]
           f == [j EXCEPT !.conFlag = TRUE]
<1>2. Asking(r) /\ r.conTimer = "recovery" BY <1>1 DEF HasCon, Asking, Waits
<1>3. /\ Asking(f) /\ f.conFlag = TRUE
      /\ f.conInst = i.conInst
      /\ Waits(f) => Waits(i) /\ f.conTimer = i.conTimer
  BY <1>1 DEF HasCon, Asking, Waits, SameCon
<1>4. \A k \in {i, j} : ~Waits(ConTxFail(k)) /\ ConTxFail(k).conInst = FALSE
  BY <1>1, ConTxFailEnds
<1> HIDE DEF r, f
<1>5. n = r \/ n = f \/ n = ConTxFail(i) \/ n = ConTxFail(j)
  BY Zenon DEF ConNonDeliverable, j, r, f
<1> QED BY <1>2, <1>3, <1>4, <1>5 DEF Asking

\* An event that could not be sent is flagged again or gives up its frame.
LEMMA RrNonDeliverableFollows ==
    ASSUME NEW i, Good(i), Asking(i), NEW s
    PROVE  LET n == RrNonDeliverable(i, s)
           IN  /\ Follows(i, n) /\ (n.rrFlag = TRUE \/ n.rrInst = FALSE)
               /\ Waits(n) => Waits(i) /\ n.conTimer = i.conTimer
<1>1. ASSUME NEW j, Good(j), Asking(j)
      PROVE  /\ Follows(j, RrTxFail(j)) /\ RrTxFail(j).rrInst = FALSE
             /\ Waits(RrTxFail(j)) => Waits(j) /\ RrTxFail(j).conTimer = j.conTimer
  <2> DEFINE x == [j EXCEPT !.rrInst = FALSE]
             k == ClearRetries(ClearMsgs(x))
  <2>1. Good(x) /\ x.rrInst = FALSE
    <3>1. Good(x) BY <1>1, FlagsGood
    <3>2. "rrInst" \in DOMAIN j BY <1>1 DEF Good, Instance
    <3> QED BY <3>1, <3>2
  <2>2. SameCon(j, x) BY <1>1, GoodHasCon DEF HasCon, SameCon
  <2>3. HasCon(x) /\ Follows(j, x) BY <1>1, <2>2, SameFollows DEF Follows
  <2> HIDE DEF x
  <2>4. k.rrInst = FALSE /\ HasCon(k) /\ "rrInst" \in DOMAIN k
    BY <2>1, <2>3 DEF ClearRetries, ClearMsgs, HasCon, Good, Instance
  <2>5. Follows(j, ConnectionSm(k, "DISABLE_SILENT"))
    BY <2>3, ClosedFollows, FollowsTrans DEF Follows
  <2>6. RrTxFail(j) = ConnectionSm(k, "DISABLE_SILENT") BY DEF RrTxFail, x
  <2>7. SameCon(x, ClearMsgs(x)) BY <2>3, ClearSame
  <2>8. SameCon(j, k) BY <2>2, <2>7, ClearSame, SameTrans DEF SameCon
  <2> HIDE DEF k
  <2>9. ConnectionSm(k, "DISABLE_SILENT") \in {k, ToDisconnected(k)}
    BY <2>4 DEF HasCon, ConState, ConnectionSm, InDisconnected, InConnecting, InConnected,
                InDisconnecting
  <2>10. ToDisconnected(k).rrInst = FALSE /\ ~Waits(ToDisconnected(k))
    BY <2>4 DEF ToDisconnected, HasCon, Waits
  <2> QED BY <2>4, <2>5, <2>6, <2>8, <2>9, <2>10 DEF SameCon, Waits
<1> DEFINE j == [i EXCEPT !.retryRr = i.retryRr + 1]
           n == RrNonDeliverable(i, s)
<1>2. CASE i.retryRr < RetryMax
  <2>1. i.retryRr \in RetryCount BY Zenon DEF Good, Instance
  <2>2. Good(j) BY <1>2, <2>1, CountUp, RetriesGood
  <2>3. SameCon(i, j) BY GoodHasCon DEF HasCon, SameCon
  <2>4. Follows(i, j) BY <2>3, SameFollows
  <2> HIDE DEF j
  <2> DEFINE f == [j EXCEPT !.rrFlag = TRUE]
  <2>5. SameCon(j, f) /\ f.rrFlag = TRUE
    BY <2>2, GoodHasCon DEF HasCon, SameCon, Good, Instance
  <2>6. Follows(i, f) BY <2>4, <2>5, SameFollows, FollowsTrans DEF Follows
  <2>7. /\ Follows(i, RrTxFail(j)) /\ RrTxFail(j).rrInst = FALSE
        /\ Waits(RrTxFail(j)) => Waits(j) /\ RrTxFail(j).conTimer = j.conTimer
    BY <1>1, <2>2, <2>4, FollowsTrans DEF Follows
  <2> HIDE DEF f
  <2>8. n = f \/ n = RrTxFail(j) BY <1>2, Zenon DEF RrNonDeliverable, j, f
  <2> QED BY <2>3, <2>5, <2>6, <2>7, <2>8 DEF SameCon, Waits
<1>3. CASE ~(i.retryRr < RetryMax)
  BY <1>1, <1>3 DEF RrNonDeliverable
<1> QED BY <1>2, <1>3

-----------------------------------------------------------------------------
(* The frames and those who wait for them.                                 *)

\* Who asks for a frame has it flagged or waits for it; others lose nothing.
LEMMA AskServes ==
    ASSUME NEW c, GoodFrame(c), NEW i \in Cross
    PROVE  LET d == Ask(c, i)
           IN  /\ (d.user = i /\ d.flag = TRUE) \/ i \in Waiting(d)
               /\ Waiting(c) \subseteq Waiting(d)
               /\ c.user # NoInstance => d.user = c.user /\ (c.flag = TRUE => d.flag = TRUE)
               /\ c.user = NoInstance => d.user = i /\ d.flag = TRUE
               /\ d.target = d.user \/ (d.target = c.target /\ d.user = c.user)
<1> DEFINE d == Ask(c, i)
<1>1. CASE c.user \in {NoInstance, i}
  <2>1. d = Use(c, i) BY <1>1 DEF Ask
  <2>2. d.user = i /\ d.flag = TRUE /\ d.target = i /\ d.queue = c.queue
    BY <2>1 DEF Use, GoodFrame, Channel
  <2>3. Waiting(d) = Waiting(c) BY <2>2 DEF Waiting
  <2> QED BY <1>1, <2>2, <2>3, NobodyIsNoInstance
<1>2. CASE c.user \notin {NoInstance, i}
  <2>1. d = Enqueue(c, i) BY <1>2 DEF Ask
  <2>2. Len(c.queue) # Count BY SoundFits, CrossAssumption DEF GoodFrame, FitFor
  <2>3. CASE i \in Waiting(c)
    <3>1. d = c BY <2>1, <2>3 DEF Enqueue
    <3> QED BY <1>2, <2>3, <3>1
  <2>4. CASE i \notin Waiting(c)
    <3> DEFINE q == Append(c.queue, i)
    <3>1. d = [c EXCEPT !.queue = q] BY <2>1, <2>2, <2>4 DEF Enqueue
    <3>2. d.user = c.user /\ d.flag = c.flag /\ d.target = c.target /\ d.queue = q
      BY <3>1 DEF GoodFrame, Channel
    <3>3. /\ Len(q) = Len(c.queue) + 1 /\ Len(c.queue) \in Nat /\ q[Len(q)] = i
          /\ \A k \in 1 .. Len(c.queue) : q[k] = c.queue[k]
      BY DEF GoodFrame, FitFor
    <3> HIDE DEF q
    <3>4. i \in Waiting(d) /\ Waiting(c) \subseteq Waiting(d) BY <3>2, <3>3 DEF Waiting
    <3> QED BY <1>2, <3>2, <3>4
  <2> QED BY <2>3, <2>4
<1> QED BY <1>1, <1>2

\* The first who waits for the connection frame has it flagged next.
LEMMA NextConServes ==
    ASSUME NEW c, GoodFrame(c)
    PROVE  LET d == NextCon(c)
           IN  /\ \/ d.user = NoInstance /\ Waiting(c) = {}
                  \/ d.user # NoInstance /\ d.flag = TRUE
               /\ d.user # NoInstance => d.target = d.user
               /\ \A j \in Waiting(c) : j \in Waiting(d) \/ (d.user = j /\ d.flag = TRUE)
               /\ c.queue = <<>> => d.user = NoInstance
<1> DEFINE d == NextCon(c)
<1>1. c.queue \in Seq(Cross) /\ c \in Channel BY DEF GoodFrame, FitFor
<1>2. CASE c.queue = <<>>
  <2>1. d.user = NoInstance BY <1>1, <1>2 DEF NextCon, Channel
  <2>2. Waiting(c) = {} BY <1>2 DEF Waiting
  <2> QED BY <2>1, <2>2
<1>3. CASE c.queue # <<>>
  <2> DEFINE q == Tail(c.queue)
  <2>1. d = Use([c EXCEPT !.queue = q], Head(c.queue)) BY <1>3 DEF NextCon
  <2>2. Head(c.queue) \in Cross /\ Head(c.queue) = c.queue[1] BY <1>1, <1>3
  <2>3. d.user = c.queue[1] /\ d.target = c.queue[1] /\ d.flag = TRUE /\ d.queue = q
    BY <1>1, <2>1, <2>2 DEF Use, Channel
  <2>4. /\ Len(q) = Len(c.queue) - 1 /\ Len(c.queue) \in Nat
        /\ \A k \in 1 .. Len(q) : q[k] = c.queue[k + 1]
    BY <1>1, <1>3
  <2> HIDE DEF q
  <2>5. ASSUME NEW j \in Waiting(c) PROVE j \in Waiting(d) \/ j = c.queue[1]
    <3>1. PICK k \in 1 .. Len(c.queue) : j = c.queue[k] BY DEF Waiting
    <3>2. CASE k = 1 BY <3>1, <3>2
    <3>3. CASE k # 1
      <4>1. k - 1 \in 1 .. Len(q) /\ q[k - 1] = c.queue[k] BY <2>4, <3>3
      <4> QED BY <2>3, <3>1, <4>1 DEF Waiting
    <3> QED BY <3>2, <3>3
  <2> QED BY <1>3, <2>2, <2>3, <2>5, NobodyIsNoInstance
<1> QED BY <1>2, <1>3

\* The response frame is free or flagged for its next user.
LEMMA NextRrServes ==
    ASSUME NEW c, GoodFrame(c)
    PROVE  LET d == NextRr(c)
           IN  d.user # NoInstance => d.flag = TRUE /\ d.target = d.user
<1> DEFINE open == {k \in 1 .. Len(c.queue) : IsOpen(inst[c.queue[k]])}
           k == Min(open)
           e == [c EXCEPT !.queue = SubSeq(@, k + 1, Len(@))]
           d == NextRr(c)
<1>1. CASE open = {}
  <2>1. d = [c EXCEPT !.user = NoInstance, !.queue = <<>>] BY <1>1 DEF NextRr
  <2> HIDE DEF d
  <2>2. d.user = NoInstance BY <2>1 DEF GoodFrame, Channel
  <2> QED BY <2>2 DEF d
<1>2. CASE open # {}
  <2>1. d = Use(e, c.queue[k]) BY <1>2 DEF NextRr
  <2>2. DOMAIN e = {"user", "flag", "target", "queue"} BY DEF GoodFrame, Channel
  <2> HIDE DEF d, e, k
  <2>3. d.flag = TRUE /\ d.target = d.user BY <2>1, <2>2 DEF Use
  <2> QED BY <2>3 DEF d
<1> QED BY <1>1, <1>2

-----------------------------------------------------------------------------
(* The inductive invariant.                                                *)

InstsOK ==
    /\ inst \in [Cross -> Instance]
    /\ \A i \in Cross : Good(inst[i]) /\ Asking(inst[i])

RestOK ==
    /\ frame \in Frame
    /\ asked \in [Cross -> Request \cup {"none"}] /\ unacked \in [Cross -> SUBSET EventId]
    /\ faults \in 0 .. MaxFaults /\ calls \in 0 .. MaxCalls

\* A frame in use is addressed to its user.
TargetsOK ==
    /\ con.user # NoInstance => con.target = con.user
    /\ rr.user # NoInstance => rr.target = rr.user

RrUnderWay == rr.user # NoInstance => rr.flag \/ Sends("rr")

\* The user of the connection frame can only wait for recovery.
ConUnderWay ==
    con.user # NoInstance => con.flag \/ Sends("con") \/ inst[con.user].conTimer = "recovery"

RequestsUnderWay == \A i \in Cross : Waits(inst[i]) => RequestUnderWay(i)

WaitInv ==
    /\ astray \in BOOLEAN
    /\ TargetsOK /\ RrUnderWay
    /\ ~astray => ConUnderWay /\ RequestsUnderWay

IInv == InstsOK /\ QueuesInv /\ RestOK /\ WaitInv

LEMMA InstUpdated ==
    ASSUME InstsOK, NEW i \in Cross \cup {NoInstance}, NEW j,
           i \in Cross => Good(j) /\ Asking(j), inst' = [inst EXCEPT ![i] = j]
    PROVE  InstsOK'
BY DEF InstsOK, Good

\* Fields that are only used within a call are cleared after it.
LEMMA ClearedOK ==
    ASSUME NEW n, Good(n)
    PROVE  \A m \in {[n EXCEPT !.conInst = FALSE, !.conFlag = FALSE, !.rrInst = FALSE, !.rrFlag = FALSE],
                     [n EXCEPT !.conInst = FALSE, !.conFlag = FALSE, !.rrFlag = FALSE],
                     [n EXCEPT !.conInst = FALSE, !.rrFlag = FALSE],
                     [n EXCEPT !.rrInst = FALSE, !.rrFlag = FALSE]} :
               /\ Good(m) /\ m.conState = n.conState
               /\ m.conBuf = n.conBuf /\ m.conTimer = n.conTimer
<1> DEFINE a == [n EXCEPT !.conInst = FALSE]
           b == [n EXCEPT !.rrInst = FALSE]
           c == [a EXCEPT !.conFlag = FALSE]
           d == [c EXCEPT !.rrInst = FALSE]
           Kept(m) == /\ Good(m) /\ m.conState = n.conState
                      /\ m.conBuf = n.conBuf /\ m.conTimer = n.conTimer
<1>1. ASSUME NEW m, Kept(m)
      PROVE  /\ Kept([m EXCEPT !.conInst = FALSE]) /\ Kept([m EXCEPT !.conFlag = FALSE])
             /\ Kept([m EXCEPT !.rrInst = FALSE]) /\ Kept([m EXCEPT !.rrFlag = FALSE])
  <2>1. m \in Instance /\ Good(m) BY <1>1 DEF Good
  <2>2. /\ Good([m EXCEPT !.conInst = FALSE]) /\ Good([m EXCEPT !.conFlag = FALSE])
        /\ Good([m EXCEPT !.rrInst = FALSE]) /\ Good([m EXCEPT !.rrFlag = FALSE])
    BY <2>1, FlagsGood
  <2> QED BY <1>1, <2>1, <2>2 DEF Instance
<1> HIDE DEF Kept
<1>2. Kept(n) BY DEF Kept
<1>3. Kept(a) /\ Kept(b) BY <1>1, <1>2
<1>4. Kept(c) /\ Kept([a EXCEPT !.rrFlag = FALSE]) /\ Kept([b EXCEPT !.rrFlag = FALSE])
  BY <1>1, <1>3
<1>5. Kept(d) /\ Kept([c EXCEPT !.rrFlag = FALSE]) BY <1>1, <1>4
<1>6. Kept([d EXCEPT !.rrFlag = FALSE]) BY <1>1, <1>5
<1> QED BY <1>4, <1>5, <1>6 DEF Kept

\* What a call sees of the handshake of instance i is what it keeps.
SameOutside(i, s) ==
    /\ s.conState = inst[i].conState /\ s.conBuf = inst[i].conBuf
    /\ s.conTimer = inst[i].conTimer

LEMMA SeenOK ==
    ASSUME InstsOK, QueuesInv, NEW i \in Cross
    PROVE  Good(Seen(i)) /\ SameOutside(i, Seen(i)) /\ HasCon(Seen(i)) /\ Asking(Seen(i))
<1> DEFINE a == con.user = i
           x == [inst[i] EXCEPT !.conInst = a]
           y == [x EXCEPT !.rrFlag = rr.flag]
<1>1. Good(inst[i]) /\ Asking(inst[i]) /\ rr.flag \in BOOLEAN /\ a \in BOOLEAN
  BY DEF InstsOK, QueuesInv, GoodFrame, Channel
<1> HIDE DEF a
<1>2. Good(x) BY <1>1, FlagsGood
<1>3. Good(y)
  <2> HIDE DEF x
  <2> QED BY <1>1, <1>2, FlagsGood
<1>4. Seen(i) = y BY <1>1 DEF Seen, Good, Instance, a
<1>5. y.conState = inst[i].conState /\ y.conBuf = inst[i].conBuf /\ y.conTimer = inst[i].conTimer
  BY <1>1 DEF Good, Instance
<1> HIDE DEF y
<1> QED BY <1>1, <1>3, <1>4, <1>5, GoodHasCon DEF SameOutside, Asking, Waits

-----------------------------------------------------------------------------
(* A call of an instance.                                                  *)

\* What a call of instance i may result in, seen from the frames.
Passes(i, n) ==
    /\ Good(n) /\ Asking(n)
    /\ \/ n.conFlag = TRUE
       \/ /\ Waits(n) => Waits(inst[i]) /\ n.conTimer = inst[i].conTimer
          /\ n.conTimer \in {inst[i].conTimer, "off"}

LEMMA FollowsPasses ==
    ASSUME InstsOK, QueuesInv, NEW i \in Cross, NEW n, Good(n), Follows(Seen(i), n)
    PROVE  Passes(i, n)
BY SeenOK DEF Passes, Follows, SameOutside, Waits

LEMMA LeftOK ==
    ASSUME InstsOK, NEW i \in Cross, NEW n, Good(n)
    PROVE  /\ Good(Left(i, n)) /\ Left(i, n).conState = n.conState
           /\ Left(i, n).conBuf = n.conBuf /\ Left(i, n).conTimer = n.conTimer
<1> DEFINE m == [n EXCEPT !.conInst = FALSE, !.conFlag = FALSE, !.rrInst = FALSE, !.rrFlag = FALSE]
           q == inst[i].retryRr
<1>1. Good(m) /\ m.conState = n.conState /\ m.conBuf = n.conBuf /\ m.conTimer = n.conTimer
  BY ClearedOK
<1>2. Left(i, n) = m \/ Left(i, n) = [m EXCEPT !.retryRr = q]
  BY DEF Left
<1>3. q \in RetryCount
  BY DEF InstsOK, Good, Instance
<1> HIDE DEF m, q
<1>4. Good([m EXCEPT !.retryRr = q])
  BY <1>1, <1>3, RetriesGood
<1>5. LET k == [m EXCEPT !.retryRr = q]
      IN  k.conState = m.conState /\ k.conBuf = m.conBuf /\ k.conTimer = m.conTimer
  BY <1>1 DEF Good, Instance
<1> QED BY <1>1, <1>2, <1>4, <1>5

LEMMA CalledOK ==
    ASSUME IInv, NEW i \in Cross, NEW n, Passes(i, n), Called(i, n), UNCHANGED frame
    PROVE  InstsOK' /\ QueuesInv' /\ WaitInv'
<1> DEFINE m == Left(i, n)
<1>1. Good(m) /\ m.conState = n.conState /\ m.conBuf = n.conBuf /\ m.conTimer = n.conTimer
  BY LeftOK DEF Passes, IInv
<1>2. inst' = [inst EXCEPT ![i] = m] BY DEF Called
<1> HIDE DEF m
<1>3. Asking(m) BY <1>1 DEF Passes, Asking, Waits
<1>4. InstsOK' BY <1>1, <1>2, <1>3, InstUpdated DEF IInv
<1>5. QueuesInv' BY CalledGood DEF IInv
<1>6. astray' \in BOOLEAN BY DEF Called
<1>7. inst'[i] = m /\ \A j \in Cross \ {i} : inst'[j] = inst[j] BY <1>2 DEF IInv, InstsOK
<1>8. GoodFrame(con) /\ GoodFrame(rr) BY DEF IInv, QueuesInv
<1> DEFINE c == Ask(con, i)
           r == Ask(rr, i)
<1>9. /\ (c.user = i /\ c.flag = TRUE) \/ i \in Waiting(c)
      /\ Waiting(con) \subseteq Waiting(c)
      /\ con.user # NoInstance => c.user = con.user /\ (con.flag = TRUE => c.flag = TRUE)
      /\ con.user = NoInstance => c.user = i /\ c.flag = TRUE
      /\ c.target = c.user \/ (c.target = con.target /\ c.user = con.user)
  BY <1>8, AskServes
<1>10. /\ rr.user # NoInstance => r.user = rr.user /\ (rr.flag = TRUE => r.flag = TRUE)
       /\ rr.user = NoInstance => r.flag = TRUE
       /\ r.target = r.user \/ (r.target = rr.target /\ r.user = rr.user)
  BY <1>8, AskServes
<1>11. con.flag \in BOOLEAN /\ rr.flag \in BOOLEAN /\ con'.flag \in BOOLEAN /\ rr'.flag \in BOOLEAN
  BY <1>5, <1>8 DEF QueuesInv, GoodFrame, Channel
<1>12. n.conFlag \in BOOLEAN BY DEF Passes, Good, Instance
<1>13. (n.conFlag = TRUE /\ con' = c) \/ (n.conFlag = FALSE /\ con' = con) BY <1>12 DEF Called
<1>14. rr' = r \/ rr' = rr BY DEF Called
<1> HIDE DEF c, r
<1>15. TargetsOK' BY <1>9, <1>10, <1>13, <1>14 DEF IInv, WaitInv, TargetsOK
<1>16. RrUnderWay' BY <1>10, <1>11, <1>14 DEF IInv, WaitInv, RrUnderWay, Sends
<1>17. ASSUME ~astray' PROVE ConUnderWay' /\ RequestsUnderWay'
  <2>1. ~astray /\ ~(inst[i].conTimer = "recovery" /\ n.conTimer = "off" /\ ~n.conFlag)
    BY <1>17 DEF Called, CutShort
  <2>2. ConUnderWay /\ RequestsUnderWay BY <2>1 DEF IInv, WaitInv
  <2>3. ConUnderWay'
    <3>1. CASE n.conFlag = TRUE
      <4>1. con' = c /\ c.user \notin Waiting(c)
        BY <1>5, <1>13, <3>1, GoodIsSound DEF QueuesInv, QueueSound
      <4>2. CASE con.user = NoInstance \/ con.user = i
        BY <1>9, <4>1, <4>2 DEF ConUnderWay
      <4>3. CASE con.user # NoInstance /\ con.user # i
        <5>1. con.user \in Cross \ {i} /\ c.user = con.user
          BY <1>8, <1>9, <4>3 DEF GoodFrame, FitFor
        <5> QED BY <1>7, <1>9, <1>11, <2>2, <4>1, <5>1 DEF ConUnderWay, Sends
      <4> QED BY <4>2, <4>3
    <3>2. CASE n.conFlag = FALSE
      <4>1. con' = con /\ (inst[i].conTimer = "recovery" => m.conTimer = "recovery")
        BY <1>1, <1>13, <2>1, <3>2 DEF Passes
      <4> QED BY <1>7, <1>8, <2>2, <4>1 DEF ConUnderWay, Sends, GoodFrame, FitFor
    <3> QED BY <1>12, <3>1, <3>2
  <2>4. ASSUME NEW j \in Cross, Waits(inst'[j]) PROVE RequestUnderWay(j)'
    <3>1. Waiting(con) \subseteq Waiting(con') BY <1>9, <1>13
    <3>2. con.user = j => con'.user = j /\ (con.flag => con'.flag)
      BY <1>9, <1>11, <1>13, NobodyIsNoInstance
    <3>3. CASE j = i /\ n.conFlag = TRUE
      BY <1>9, <1>11, <1>13, <3>3 DEF RequestUnderWay
    <3>4. CASE j # i \/ n.conFlag = FALSE
      <4>1. Waits(inst[j]) /\ inst'[j].conTimer = inst[j].conTimer
        BY <1>1, <1>7, <2>4, <3>4 DEF Passes, Waits
      <4>2. RequestUnderWay(j) BY <2>2, <4>1 DEF RequestsUnderWay
      <4> QED BY <3>1, <3>2, <4>1, <4>2 DEF RequestUnderWay, Sends
    <3> QED BY <1>12, <3>3, <3>4
  <2> QED BY <2>3, <2>4 DEF RequestsUnderWay
<1> QED BY <1>4, <1>5, <1>6, <1>15, <1>16, <1>17 DEF WaitInv

-----------------------------------------------------------------------------
(* The steps and the invariant.                                            *)

LEMMA Spent ==
    /\ \A n \in 0 .. MaxFaults : n > 0 => n - 1 \in 0 .. MaxFaults
    /\ \A n \in 0 .. MaxCalls : n > 0 => n - 1 \in 0 .. MaxCalls
BY CrossAssumption

\* Steps that leave the instances and the frames alone.
LEMMA StillIInv ==
    ASSUME IInv, RestOK', UNCHANGED <<inst, con, rr, frame, astray>> PROVE IInv'
BY DEF IInv, InstsOK, QueuesInv, WaitInv, TargetsOK, RrUnderWay, ConUnderWay,
       RequestsUnderWay, RequestUnderWay, Sends

LEMMA ApplicationIInv == ASSUME IInv, NEW i \in Cross, Application(i) PROVE IInv'
<1> DEFINE s == Seen(i)
<1>1. InstsOK /\ QueuesInv /\ Good(s) /\ HasCon(s) /\ Asking(s)
  BY SeenOK DEF IInv
<1>2. RestOK'
  <2>1. Call /\ UNCHANGED <<frame, partners, faults>>
    BY DEF Application, Enable, Disable, Send
  <2> QED BY <2>1, Spent DEF Call, partners, IInv, RestOK
<1>3. UNCHANGED frame BY DEF Application, Enable, Disable, Send
<1>4. CASE Enable(i)
  <2> DEFINE c == ConnectionSm(s, "ENABLE")
             n == [c EXCEPT !.told = "asked"]
  <2>1. Good(c) /\ Follows(s, c) BY <1>1, ConnectionSmGood, ConnectionSmFollows
  <2>2. s.conState = "DISCONNECTED" BY <1>4, SeenOK DEF Enable, IInv, SameOutside
  <2>3. c.conState = "CONNECTING"
    <3> DEFINE k == [s EXCEPT !.conState = "CONNECTING"]
    <3>1. k.conState = "CONNECTING" /\ HasCon(k) BY <1>1 DEF HasCon, ConState
    <3>2. c = SendCon(k, "ENABLE_REQUEST") BY <2>2, Zenon DEF ConnectionSm, InDisconnected
    <3> HIDE DEF k, c
    <3>3. SendCon(k, "ENABLE_REQUEST").conState = k.conState BY <3>1 DEF HasCon, SendCon
    <3> QED BY <3>1, <3>2, <3>3
  <2> HIDE DEF c
  <2>4. n \in Instance BY <2>1, Enumerated, Zenon DEF Good, Instance
  <2>5. Sound(n) BY <2>1, <2>3, SMT DEF Good, Sound, Coherent, Timed, Pinging, Instance
  <2>6. SameCon(c, n) BY <2>1 DEF Follows, HasCon, SameCon
  <2>7. Good(n) /\ Follows(s, n)
    BY <2>1, <2>4, <2>5, <2>6, SameFollows, FollowsTrans DEF Good, Follows
  <2>8. Called(i, n) BY <1>4 DEF Enable, c
  <2> HIDE DEF n
  <2>9. Passes(i, n) BY <1>1, <2>7, FollowsPasses
  <2> QED BY <1>2, <1>3, <2>8, <2>9, CalledOK DEF IInv
<1>5. CASE Disable(i)
  <2> DEFINE n == ConnectionSm(s, "DISABLE")
  <2>1. Good(n) /\ Follows(s, n) BY <1>1, ConnectionSmGood, ConnectionSmFollows
  <2>2. Passes(i, n) BY <1>1, <2>1, FollowsPasses
  <2> QED BY <1>2, <1>3, <1>5, <2>2, CalledOK DEF Disable, IInv
<1>6. ASSUME NEW e \in EventId, Send(i, e) PROVE IInv'
  <2> DEFINE n == SendEvent(s, e, 0)
  <2>1. Good(n) BY <1>1, SendEventGood
  <2>2. Follows(s, n) BY <1>1, SendEventSame, SameFollows
  <2>3. Passes(i, n) BY <1>1, <2>1, <2>2, FollowsPasses
  <2> QED BY <1>2, <1>3, <1>6, <2>3, CalledOK DEF Send, IInv
<1> QED BY <1>4, <1>5, <1>6 DEF Application

LEMMA PartnersIInv == ASSUME IInv, NEW i \in Cross, Partners(i) PROVE IInv'
<1> DEFINE s == Seen(i)
<1>1. InstsOK /\ QueuesInv /\ Good(s) /\ HasCon(s) /\ Asking(s)
  BY SeenOK DEF IInv
<1>2. UNCHANGED frame BY DEF Partners, PartnerAsks, PartnerAnswers, PartnerAcks
<1>3. RestOK'
  <2>1. CASE \E m \in Request : PartnerAsks(i, m)
    BY <2>1, Spent DEF PartnerAsks, Call, partners, IInv, RestOK
  <2>2. CASE PartnerAnswers(i)
    BY <2>2, Spent DEF PartnerAnswers, Fault, IInv, RestOK
  <2>3. CASE PartnerAcks(i)
    BY <2>3, Spent DEF PartnerAcks, Fault, IInv, RestOK
  <2> QED BY <2>1, <2>2, <2>3 DEF Partners
<1>4. ASSUME NEW n, Good(n), Follows(s, n), Called(i, n) PROVE IInv'
  <2>1. Passes(i, n) BY <1>1, <1>4, FollowsPasses
  <2> QED BY <1>2, <1>3, <1>4, <2>1, CalledOK DEF IInv
<1>5. ASSUME UNCHANGED <<inst, con, rr, astray>> PROVE IInv'
  BY <1>2, <1>3, <1>5, StillIInv
<1>6. ASSUME NEW m, Called(i, HandleConMsg(s, m)) PROVE IInv'
  BY <1>1, <1>4, <1>6, HandleConMsgGood, HandleConMsgFollows
<1>7. CASE PartnerAcks(i)
  <2> DEFINE q == (inst[i].seqRecv + 1) % SeqMod
             Ack(e) == ReceiveAcks(s, q, <<e>>)
  <2>1. inst[i].seqRecv \in SeqId BY <1>1 DEF InstsOK, Good, Instance
  <2>2. q \in SeqId BY <2>1, NextSeqId
  <2> HIDE DEF q
  <2>3. ASSUME NEW e PROVE Good(Ack(e)) /\ Follows(s, Ack(e))
    BY <1>1, <2>2, ReceiveAcksGood, ReceiveAcksFollows
  <2>4. Good(s) /\ Follows(s, s) BY <1>1, ClearSame, SameFollows
  <2>5. \/ UNCHANGED <<inst, con, rr, astray>>
        \/ \E e \in unacked[i] : Called(i, IF IsIgnored(inst[i], q) THEN s ELSE Ack(e))
    BY <1>7 DEF PartnerAcks, q
  <2> HIDE DEF Ack
  <2> QED BY <1>4, <1>5, <2>3, <2>4, <2>5
<1> QED BY <1>5, <1>6, <1>7 DEF Partners, PartnerAsks, PartnerAnswers

LEMMA TimersIInv == ASSUME IInv, NEW i \in Cross, Timers(i) PROVE IInv'
<1> DEFINE s == Seen(i)
<1>1. InstsOK /\ QueuesInv /\ Good(s) /\ HasCon(s) /\ Asking(s)
  BY SeenOK DEF IInv
<1>2. UNCHANGED frame BY DEF Timers, ConMsgTimerFires, MsgTimerFires, BreakTimerFires
<1>3. RestOK'
  <2>1. UNCHANGED <<frame, partners, calls>> /\ (faults' = faults \/ Fault)
    BY DEF Timers, ConMsgTimerFires, MsgTimerFires, BreakTimerFires
  <2> QED BY <2>1, Spent DEF partners, Fault, IInv, RestOK
<1>4. ASSUME NEW n, Passes(i, n), Called(i, n) PROVE IInv'
  BY <1>2, <1>3, <1>4, CalledOK DEF IInv
<1>5. CASE ConMsgTimerFires(i)
  <2> DEFINE off == [s EXCEPT !.conTimer = "off"]
             n == SendCon(off, inst[i].conBuf)
  <2>1. Good(off) BY <1>1, ConTimerGood, Enumerated
  <2>2. off.conState = inst[i].conState /\ HasCon(off)
    BY <1>1, SeenOK DEF HasCon, SameOutside
  <2> HIDE DEF off
  <2>3. inst[i].conBuf \in ConMsg \cup {"none"} /\ Asking(inst[i])
    BY <1>1 DEF InstsOK, Instance
  <2>4. n \in Instance BY <2>1, <2>3, Zenon DEF Good, SendCon, Instance
  <2>5. Sound(n) BY <2>1, SMT DEF Good, SendCon, Sound, Coherent, Timed, Pinging, Instance
  <2>6. n.conFlag = TRUE /\ n.conState = inst[i].conState /\ n.conBuf = inst[i].conBuf
    BY <2>2 DEF SendCon, HasCon
  <2>7. Called(i, n) BY <1>5 DEF ConMsgTimerFires, off
  <2> HIDE DEF n
  <2>8. Passes(i, n) BY <2>3, <2>4, <2>5, <2>6 DEF Passes, Good, Asking, Waits
  <2> QED BY <1>4, <2>7, <2>8
<1>6. CASE MsgTimerFires(i)
  <2> DEFINE off == [s EXCEPT !.msgTimer = FALSE]
             n == MsgTimerAction(off)
  <2>1. off \in Instance BY <1>1, Zenon DEF Good, Instance
  <2>2. Coherent(off) /\ Pinging(off)
    BY <1>1, SMT DEF Good, Sound, Coherent, Pinging, Instance
  <2>3. SameCon(s, off) BY <1>1 DEF HasCon, SameCon
  <2>4. Follows(s, off) BY <1>1, <2>3, SameFollows
  <2>5. Called(i, n) BY <1>6 DEF MsgTimerFires
  <2> HIDE DEF off
  <2>6. Good(n) BY <2>1, <2>2, MsgTimerActionGood
  <2>7. Follows(s, n) BY <2>4, MsgTimerActionFollows, FollowsTrans DEF Follows
  <2>8. Passes(i, n) BY <1>1, <2>6, <2>7, FollowsPasses
  <2> QED BY <1>4, <2>5, <2>8
<1>7. CASE BreakTimerFires(i)
  <2> DEFINE n == ToDisconnected(s)
  <2>1. Good(n) BY <1>1, ToDisconnectedGood DEF Good, Sound
  <2>2. Passes(i, n) BY <1>1, <2>1, SettledFollows, FollowsPasses
  <2> QED BY <1>4, <1>7, <2>2 DEF BreakTimerFires
<1> QED BY <1>5, <1>6, <1>7 DEF Timers

LEMMA TakeConIInv == ASSUME IInv, TakeCon PROVE IInv'
<1> DEFINE f(m) == [busy |-> TRUE, ch |-> "con", to |-> con.target, msg |-> m, evts |-> {}]
<1>1. con \in Channel /\ FitFor(con.user, con.queue) BY DEF IInv, QueuesInv, GoodFrame
<1>2. PICK m \in ConContents : frame' = f(m) BY DEF TakeCon
<1>3. m \in ConMsg \cup {"none"}
  <2>1. con.user # NoInstance => inst[con.user].conBuf \in ConMsg \cup {"none"}
    BY <1>1 DEF IInv, InstsOK, Instance, FitFor
  <2>2. frame.msg \in ConMsg \cup {"none"} BY DEF IInv, RestOK, Frame
  <2> QED BY <2>1, <2>2 DEF ConContents
<1>4. frame' \in Frame BY <1>1, <1>2, <1>3 DEF Frame, Channel
<1>5. RestOK' BY <1>4 DEF TakeCon, partners, IInv, RestOK
<1>6. QueuesInv' BY ConGood DEF IInv
<1>7. InstsOK' BY DEF TakeCon, IInv, InstsOK
<1>8. Sends("con")' /\ ~Sends("rr")' BY <1>2 DEF Sends
<1>9. con' = [con EXCEPT !.flag = FALSE] /\ rr' = rr /\ inst' = inst /\ astray' = astray
  BY DEF TakeCon
<1>10. con'.user = con.user /\ con'.target = con.target /\ con'.queue = con.queue
  BY <1>1, <1>9 DEF Channel
<1>11. TargetsOK' BY <1>9, <1>10 DEF IInv, WaitInv, TargetsOK
<1>12. RrUnderWay' BY <1>9 DEF TakeCon, IInv, WaitInv, RrUnderWay, Sends
<1>13. ConUnderWay' BY <1>8 DEF ConUnderWay
<1>14. ASSUME RequestsUnderWay PROVE RequestsUnderWay'
  BY <1>8, <1>9, <1>10, <1>14 DEF RequestsUnderWay, RequestUnderWay, Waiting
<1> QED BY <1>5, <1>6, <1>7, <1>9, <1>11, <1>12, <1>13, <1>14 DEF IInv, WaitInv

LEMMA TakeRrIInv == ASSUME IInv, TakeRr PROVE IInv'
<1> DEFINE f(e) == [busy |-> TRUE, ch |-> "rr", to |-> rr.target, msg |-> "none", evts |-> e]
<1>1. rr \in Channel /\ FitFor(rr.user, rr.queue) BY DEF IInv, QueuesInv, GoodFrame
<1>2. PICK e \in RrContents : frame' = f(e) BY DEF TakeRr
<1>3. e \in SUBSET EventId
  <2> DEFINE t == inst[rr.user].tx
  <2>1. rr.user # NoInstance => {t[k] : k \in 1 .. Len(t)} \in SUBSET EventId
    <3>1. rr.user # NoInstance => t \in Frames BY <1>1 DEF IInv, InstsOK, Instance, FitFor
    <3> HIDE DEF t
    <3> QED BY <3>1 DEF Frames
  <2>2. frame.evts \in SUBSET EventId BY DEF IInv, RestOK, Frame
  <2> QED BY <2>1, <2>2 DEF RrContents
<1>4. frame' \in Frame BY <1>1, <1>2, <1>3 DEF Frame, Channel
<1>5. RestOK' BY <1>4 DEF TakeRr, partners, IInv, RestOK
<1>6. QueuesInv' BY RrGood DEF IInv
<1>7. InstsOK' BY DEF TakeRr, IInv, InstsOK
<1>8. Sends("rr")' /\ ~Sends("con") /\ ~con.flag BY <1>2 DEF Sends, TakeRr
<1>9. rr' = [rr EXCEPT !.flag = FALSE] /\ con' = con /\ inst' = inst /\ astray' = astray
  BY DEF TakeRr
<1>10. rr'.user = rr.user /\ rr'.target = rr.target BY <1>1, <1>9 DEF Channel
<1>11. TargetsOK' BY <1>9, <1>10 DEF IInv, WaitInv, TargetsOK
<1>12. RrUnderWay' BY <1>8 DEF RrUnderWay
<1>13. ConUnderWay => ConUnderWay' BY <1>8, <1>9 DEF ConUnderWay
<1>14. ASSUME RequestsUnderWay PROVE RequestsUnderWay'
  BY <1>8, <1>9, <1>14 DEF RequestsUnderWay, RequestUnderWay
<1> QED BY <1>5, <1>6, <1>7, <1>9, <1>11, <1>12, <1>13, <1>14 DEF IInv, WaitInv

\* What the partners get, or lose, and the end of the transmission.
LEMMA OnBusOK ==
    ASSUME RestOK, NEW s, OnBus(s), frame' = [frame EXCEPT !.busy = FALSE], calls' = calls
    PROVE  RestOK' /\ ~Sends("con")' /\ ~Sends("rr")'
<1>1. frame' \in Frame /\ frame'.busy = FALSE BY DEF RestOK, Frame
<1>2. asked' \in [Cross -> Request \cup {"none"}] /\ unacked' \in [Cross -> SUBSET EventId]
  <2>1. CASE Delivered
    <3>1. asked' \in [Cross -> Request \cup {"none"}] BY <2>1 DEF Delivered, RestOK
    <3>2. frame.evts \in SUBSET EventId BY DEF RestOK, Frame
    <3>3. unacked' \in [Cross -> SUBSET EventId] BY <2>1, <3>2 DEF Delivered, RestOK
    <3> QED BY <3>1, <3>3
  <2>2. CASE UNCHANGED partners BY <2>2 DEF partners, RestOK
  <2> QED BY <2>1, <2>2 DEF OnBus
<1>3. faults' \in 0 .. MaxFaults BY Spent DEF OnBus, Fault, RestOK
<1> QED BY <1>1, <1>2, <1>3 DEF RestOK, Sends

\* The connection frame is free, flagged for its user or waits for recovery, and
\* of those who waited for it nobody is lost.
LEMMA ConfirmedOK ==
    ASSUME IInv, QueuesInv', NEW i \in Cross \cup {NoInstance}, NEW m, inst' = [inst EXCEPT ![i] = m],
           con.user \in {i, NoInstance}, UNCHANGED rr, frame' = [frame EXCEPT !.busy = FALSE],
           Sends("con"),
           con'.user # NoInstance => con'.target = con'.user,
           ~astray' => /\ ~astray
                       /\ con'.user # NoInstance =>
                              con'.flag \/ (con'.user = i /\ i \in Cross /\ m.conTimer = "recovery")
                       /\ \A j \in Waiting(con) : j \in Waiting(con') \/ (con'.user = j /\ con'.flag)
                       /\ i \in Cross /\ Waits(m) =>
                              \/ m.conTimer # "off" \/ (con'.user = i /\ con'.flag)
                              \/ Waits(inst[i]) /\ con.user = NoInstance /\ m.conTimer = inst[i].conTimer,
           astray' \in BOOLEAN
    PROVE  WaitInv'
<1>1. inst \in [Cross -> Instance] BY DEF IInv, InstsOK
<1>2. i \in Cross => inst'[i] = m BY <1>1
<1>3. \A j \in Cross : j # i => inst'[j] = inst[j] BY <1>1
<1>4. frame'.busy = FALSE /\ ~Sends("rr") BY DEF IInv, RestOK, Frame, Sends
<1>5. TargetsOK' BY DEF IInv, WaitInv, TargetsOK
<1>6. RrUnderWay' BY <1>4 DEF IInv, WaitInv, RrUnderWay
<1>7. ASSUME ~astray' PROVE ConUnderWay' BY <1>2, <1>7 DEF ConUnderWay
<1>8. ASSUME ~astray' PROVE RequestsUnderWay'
  <2>1. RequestsUnderWay BY <1>8 DEF IInv, WaitInv
  <2> SUFFICES ASSUME NEW j \in Cross, Waits(inst'[j]) PROVE RequestUnderWay(j)'
    BY DEF RequestsUnderWay
  <2>2. j \in Waiting(con) => RequestUnderWay(j)' BY <1>8 DEF RequestUnderWay
  <2>3. CASE j # i
    <3>1. RequestUnderWay(j) /\ con.user # j
      BY <1>3, <2>1, <2>3, NobodyIsNoInstance DEF RequestsUnderWay
    <3> QED BY <1>3, <2>2, <2>3, <3>1 DEF RequestUnderWay
  <2>4. CASE j = i
    <3>1. CASE m.conTimer # "off" \/ (con'.user = i /\ con'.flag)
      BY <1>2, <2>4, <3>1 DEF RequestUnderWay
    <3>2. CASE Waits(inst[i]) /\ con.user = NoInstance /\ m.conTimer = inst[i].conTimer
      <4>1. RequestUnderWay(j) BY <2>1, <2>4, <3>2 DEF RequestsUnderWay
      <4> QED BY <1>2, <2>2, <2>4, <3>2, <4>1, NobodyIsNoInstance DEF RequestUnderWay
    <3> QED BY <1>2, <1>8, <2>4, <3>1, <3>2
  <2> QED BY <2>3, <2>4
<1> QED BY <1>5, <1>6, <1>7, <1>8 DEF WaitInv

LEMMA ConPostedIInv == ASSUME IInv, Sends("con"), RestOK', QueuesInv', ConPosted, UNCHANGED rr,
                              frame' = [frame EXCEPT !.busy = FALSE]
                       PROVE  IInv'
<1> DEFINE u == con.user
           n == PostRepeatTrigger(Seen(u))
           m == [n EXCEPT !.conInst = FALSE, !.rrFlag = FALSE]
<1>1. GoodFrame(con) /\ u \in Cross \cup {NoInstance} /\ con.flag \in BOOLEAN
  BY DEF IInv, QueuesInv, GoodFrame, FitFor, Channel
<1>2. InstsOK /\ WaitInv /\ astray \in BOOLEAN /\ TargetsOK BY DEF IInv, WaitInv
<1>3. CASE u = NoInstance \/ con.flag
  <2>1. UNCHANGED <<inst, con, astray>> BY <1>3 DEF ConPosted
  <2>2. inst' = [inst EXCEPT ![u] = inst[u]] BY <1>2, <2>1 DEF InstsOK
  <2>3. ASSUME ~astray, u \in Cross, Waits(inst[u]) PROVE con.user = u /\ con.flag
    BY <1>3, <2>3, NobodyIsNoInstance
  <2>4. WaitInv'
    BY <1>1, <1>2, <1>3, <2>1, <2>2, <2>3, ConfirmedOK DEF TargetsOK
  <2>5. InstsOK' BY <1>2, <2>1 DEF InstsOK
  <2> QED BY <2>4, <2>5 DEF IInv
<1>4. CASE u # NoInstance /\ ~con.flag
  <2>1. u \in Cross BY <1>1, <1>4
  <2>2. Good(Seen(u)) /\ HasCon(Seen(u)) /\ Asking(Seen(u)) BY <2>1, SeenOK DEF IInv
  <2>3. Good(n) BY <2>2, PostRepeatTriggerGood
  <2>4. Asking(n) /\ (Waits(n) => n.conTimer # "off") BY <2>2, PostRepeatTriggerTimed
  <2>5. /\ inst' = [inst EXCEPT ![u] = m]
        /\ con' = IF n.conInst THEN NextCon(con) ELSE NextCon(NextCon(con))
        /\ astray' = (astray \/ (~n.conInst /\ con.queue # <<>>))
    BY <1>4 DEF ConPosted
  <2>6. /\ Good(m) /\ m.conState = n.conState
        /\ m.conBuf = n.conBuf /\ m.conTimer = n.conTimer
    BY <2>3, ClearedOK
  <2> HIDE DEF n, m
  <2>7. Asking(m) /\ (Waits(m) => m.conTimer # "off") BY <2>4, <2>6 DEF Asking, Waits
  <2>8. InstsOK' BY <1>2, <2>1, <2>5, <2>6, <2>7, InstUpdated
  <2> DEFINE c == NextCon(con)
             d == NextCon(c)
  <2>9. GoodFrame(c) /\ GoodFrame(d) BY <1>1, NextConGood
  <2>10. /\ c.user = NoInstance \/ c.flag = TRUE
         /\ c.user # NoInstance => c.target = c.user
         /\ \A j \in Waiting(con) : j \in Waiting(c) \/ (c.user = j /\ c.flag = TRUE)
         /\ con.queue = <<>> => c.user = NoInstance
    BY <1>1, NextConServes
  <2>11. /\ d.user = NoInstance \/ d.flag = TRUE
         /\ d.user # NoInstance => d.target = d.user
    BY <2>9, NextConServes
  <2>12. con'.user # NoInstance => con'.target = con'.user BY <2>5, <2>10, <2>11
  <2>13. con'.user # NoInstance => con'.flag BY <2>5, <2>10, <2>11
  <2>14. ASSUME ~astray', NEW j \in Waiting(con) PROVE j \in Waiting(con') \/ (con'.user = j /\ con'.flag)
    <3>1. con.queue # <<>> BY <2>14 DEF Waiting
    <3>2. con' = c BY <2>5, <2>14, <3>1
    <3> QED BY <2>10, <3>2
  <2>15. (~astray' => ~astray) /\ astray' \in BOOLEAN BY <1>2, <2>5
  <2> HIDE DEF c, d
  <2>16. WaitInv' BY <1>1, <2>1, <2>5, <2>7, <2>12, <2>13, <2>14, <2>15, ConfirmedOK
  <2> QED BY <2>8, <2>16 DEF IInv
<1> QED BY <1>3, <1>4

LEMMA ConFailedIInv == ASSUME IInv, Sends("con"), RestOK', QueuesInv', NEW s, ConFailed(s), UNCHANGED rr,
                              frame' = [frame EXCEPT !.busy = FALSE]
                       PROVE  IInv'
<1> DEFINE i == con.target
           x == [Seen(i) EXCEPT !.conInst = TRUE]
           n == ConNonDeliverable(x, s)
           m == [n EXCEPT !.conInst = FALSE, !.conFlag = FALSE, !.rrFlag = FALSE]
<1>1. /\ GoodFrame(con) /\ i \in Cross \cup {NoInstance} /\ con \in Channel
      /\ con.user \in {i, NoInstance}
  BY DEF IInv, QueuesInv, GoodFrame, FitFor, Channel, WaitInv, TargetsOK
<1>2. InstsOK /\ WaitInv /\ astray \in BOOLEAN BY DEF IInv, WaitInv
<1>3. /\ inst' = [inst EXCEPT ![i] = m] /\ astray' = astray
      /\ con' = CASE n.conFlag -> [con EXCEPT !.flag = TRUE]
                  [] ~n.conInst /\ con.user = i -> NextCon(con)
                  [] OTHER -> con
  BY DEF ConFailed
<1>4. ASSUME i \in Cross
      PROVE  /\ Good(n) /\ Good(m) /\ Asking(m) /\ m.conTimer = n.conTimer
             /\ n.conFlag = TRUE \/ n.conTimer = "recovery" \/ n.conInst = FALSE
             /\ Waits(m) => \/ n.conTimer = "recovery"
                            \/ /\ n.conFlag = TRUE /\ n.conInst = TRUE
                               /\ Waits(inst[i]) /\ n.conTimer = inst[i].conTimer
  <2>1. Good(Seen(i)) /\ SameOutside(i, Seen(i)) /\ HasCon(Seen(i)) /\ Asking(Seen(i))
    BY <1>4, SeenOK DEF IInv
  <2>2. Good(x) BY <2>1, FlagsGood
  <2>3. HasCon(x) /\ Asking(x) /\ SameOutside(i, x) /\ x.conInst = TRUE
    BY <2>1 DEF HasCon, Asking, Waits, SameOutside
  <2> HIDE DEF x
  <2>4. Good(n) BY <2>2, ConNonDeliverableGood
  <2>5. /\ Asking(n)
        /\ n.conFlag = TRUE \/ n.conTimer = "recovery" \/ n.conInst = FALSE
        /\ Waits(n) => \/ n.conTimer = "recovery"
                       \/ (n.conFlag = TRUE /\ n.conInst = x.conInst /\ Waits(x) /\ n.conTimer = x.conTimer)
    BY <2>3, ConNonDeliverableTimed
  <2>6. /\ Good(m) /\ m.conState = n.conState
        /\ m.conBuf = n.conBuf /\ m.conTimer = n.conTimer
    BY <2>4, ClearedOK
  <2> HIDE DEF n, m
  <2> QED BY <2>3, <2>4, <2>5, <2>6 DEF Asking, Waits, SameOutside
<1> HIDE DEF n, m
<1>5. InstsOK' BY <1>1, <1>2, <1>3, <1>4, InstUpdated
<1> DEFINE c == NextCon(con)
           f == [con EXCEPT !.flag = TRUE]
<1>6. /\ c.user = NoInstance \/ c.flag = TRUE
      /\ c.user # NoInstance => c.target = c.user
      /\ \A j \in Waiting(con) : j \in Waiting(c) \/ (c.user = j /\ c.flag = TRUE)
  BY <1>1, NextConServes
<1>7. /\ f.user = con.user /\ f.target = con.target /\ f.flag = TRUE /\ Waiting(f) = Waiting(con)
  BY <1>1 DEF Channel, Waiting
<1> HIDE DEF c, f
<1>8. \/ con' = f /\ n.conFlag
      \/ con' = c /\ ~n.conInst /\ con.user = i
      \/ con' = con /\ ~n.conFlag /\ (con.user = i => n.conInst)
  BY <1>3 DEF c, f
<1>9. i \in Cross => n.conFlag \in BOOLEAN /\ n.conInst \in BOOLEAN
  BY <1>4 DEF Good, Instance
<1>10. con'.user # NoInstance => con'.target = con'.user BY <1>1, <1>6, <1>7, <1>8
<1>11. \A j \in Waiting(con) : j \in Waiting(con') \/ (con'.user = j /\ con'.flag)
  BY <1>6, <1>7, <1>8
<1>12. con'.user # NoInstance => con'.flag \/ (con'.user = i /\ i \in Cross /\ m.conTimer = "recovery")
  BY <1>1, <1>4, <1>6, <1>7, <1>8, <1>9
<1>13. i \in Cross /\ Waits(m) =>
           \/ m.conTimer # "off" \/ (con'.user = i /\ con'.flag)
           \/ Waits(inst[i]) /\ con.user = NoInstance /\ m.conTimer = inst[i].conTimer
  BY <1>1, <1>4, <1>7, <1>8, <1>9
<1>14. WaitInv' BY <1>1, <1>2, <1>3, <1>10, <1>11, <1>12, <1>13, ConfirmedOK
<1> QED BY <1>5, <1>14 DEF IInv

LEMMA ConfirmRrIInv == ASSUME IInv, NEW s, s \in Outcome, ConfirmRr(s) PROVE IInv'
<1>1. /\ RestOK' /\ ~Sends("con")' /\ ~Sends("rr")'
  BY OnBusOK DEF ConfirmRr, IInv
<1>2. QueuesInv' BY RrGood DEF IInv
<1>3. Sends("rr") /\ ~Sends("con") /\ con' = con BY DEF ConfirmRr, Sends
<1>4. InstsOK /\ QueuesInv /\ WaitInv /\ astray \in BOOLEAN /\ TargetsOK /\ RrUnderWay
  BY DEF IInv, WaitInv
<1>5. /\ GoodFrame(rr) /\ rr \in Channel /\ rr.flag \in BOOLEAN
      /\ rr.user \in Cross \cup {NoInstance} /\ rr.target \in Cross \cup {NoInstance}
  BY <1>4 DEF QueuesInv, GoodFrame, FitFor, Channel
<1> DEFINE r == NextRr(rr)
<1>6. r.user # NoInstance => r.flag = TRUE /\ r.target = r.user BY <1>5, NextRrServes
\* An instance that follows what it was keeps its request.
<1>7. ASSUME NEW i \in Cross \cup {NoInstance}, NEW m, inst' = [inst EXCEPT ![i] = m],
             i \in Cross => /\ Good(m) /\ Asking(m)
                            /\ Waits(m) => Waits(inst[i]) /\ m.conTimer = inst[i].conTimer
                            /\ m.conTimer \in {inst[i].conTimer, "off"},
             rr'.user # NoInstance => rr'.flag /\ rr'.target = rr'.user,
             astray' \in BOOLEAN,
             ~astray' => /\ ~astray
                         /\ i \in Cross /\ inst[i].conTimer = "recovery" => m.conTimer # "off"
      PROVE  IInv'
  <2>1. InstsOK' BY <1>4, <1>7, InstUpdated
  <2>2. /\ \A j \in Cross : j # i => inst'[j] = inst[j]
        /\ i \in Cross => inst'[i] = m
    BY <1>4, <1>7 DEF InstsOK
  <2>3. TargetsOK' BY <1>3, <1>4, <1>7 DEF TargetsOK
  <2>4. RrUnderWay' BY <1>7 DEF RrUnderWay
  <2>6. ASSUME ~astray' PROVE ConUnderWay' /\ RequestsUnderWay'
    <3>1. /\ ~astray
          /\ i \in Cross /\ inst[i].conTimer = "recovery" => m.conTimer # "off"
      BY <1>7, <2>6
    <3>2. ConUnderWay /\ RequestsUnderWay BY <1>4, <3>1 DEF WaitInv
    <3>3. con.user \in Cross \cup {NoInstance} BY <1>4 DEF QueuesInv, GoodFrame, FitFor
    <3>4. ConUnderWay'
      <4>1. con.user # NoInstance /\ inst[con.user].conTimer = "recovery"
                => inst'[con.user].conTimer = "recovery"
        BY <1>7, <2>2, <3>1, <3>3
      <4> QED BY <1>3, <3>2, <4>1 DEF ConUnderWay
    <3>5. ASSUME NEW j \in Cross, Waits(inst'[j]) PROVE RequestUnderWay(j)'
      <4>1. Waits(inst[j]) /\ inst'[j].conTimer = inst[j].conTimer BY <1>7, <2>2, <3>5
      <4>2. RequestUnderWay(j) BY <3>2, <4>1 DEF RequestsUnderWay
      <4> QED BY <1>3, <4>1, <4>2 DEF RequestUnderWay
    <3> QED BY <3>4, <3>5 DEF RequestsUnderWay
  <2> QED BY <1>1, <1>2, <2>1, <2>3, <2>4, <1>7, <2>6 DEF IInv, WaitInv
<1>8. CASE RrPosted
  <2>1. CASE rr.user = NoInstance \/ rr.flag
    <3>1. UNCHANGED <<inst, rr, astray>> BY <1>8, <2>1 DEF RrPosted
    <3>2. inst' = [inst EXCEPT ![NoInstance] = inst[NoInstance]] BY <1>4, <3>1 DEF InstsOK
    <3> QED BY <1>4, <1>7, <2>1, <3>1, <3>2, NobodyIsNoInstance DEF TargetsOK
  <2>2. CASE rr.user # NoInstance /\ ~rr.flag
    <3> DEFINE u == rr.user
               m == ClearTx(inst[u])
    <3>1. u \in Cross BY <1>5, <2>2
    <3>2. Good(m) BY <1>4, <3>1, ClearTxGood DEF InstsOK
    <3>3. SameCon(inst[u], m) /\ Asking(inst[u])
      BY <1>4, <3>1, GoodHasCon, ClearSame DEF InstsOK
    <3>4. inst' = [inst EXCEPT ![u] = m] /\ rr' = r /\ astray' = astray
      BY <1>8, <2>2 DEF RrPosted
    <3> HIDE DEF m, r
    <3>5. Asking(m) /\ m.conTimer = inst[u].conTimer /\ (Waits(m) => Waits(inst[u]))
      BY <3>3 DEF SameCon, Asking, Waits
    <3>6. ~astray' => ~astray /\ (inst[u].conTimer = "recovery" => m.conTimer # "off")
      BY <3>4, <3>5
    <3> QED BY <1>4, <1>6, <1>7, <3>1, <3>2, <3>4, <3>5, <3>6
  <2> QED BY <2>1, <2>2
<1>9. CASE RrFailed(s)
  <2> DEFINE i == rr.target
             x == [inst[i] EXCEPT !.rrInst = TRUE]
             n == RrNonDeliverable(x, s)
             m == [n EXCEPT !.rrInst = FALSE, !.rrFlag = FALSE]
             f == [rr EXCEPT !.flag = TRUE]
  <2>1. /\ inst' = [inst EXCEPT ![i] = m]
        /\ astray' = (astray \/ CutShort(i, n))
        /\ rr' = CASE n.rrFlag -> f
                   [] ~n.rrInst /\ rr.user = i -> r
                   [] OTHER -> rr
    BY <1>9 DEF RrFailed
  <2>2. f.flag = TRUE /\ f.user = rr.user /\ f.target = rr.target BY <1>5 DEF Channel
  <2>3. ASSUME i \in Cross
        PROVE  /\ Good(m) /\ Asking(m) /\ m.conTimer = n.conTimer
               /\ Waits(m) => Waits(inst[i]) /\ m.conTimer = inst[i].conTimer
               /\ m.conTimer \in {inst[i].conTimer, "off"}
               /\ n.rrFlag = TRUE \/ n.rrInst = FALSE
    <3>1. Good(inst[i]) /\ Asking(inst[i]) BY <1>4, <2>3 DEF InstsOK
    <3>2. Good(x) /\ SameCon(inst[i], x)
      BY <3>1, GoodHasCon, FlagsGood DEF SameCon, HasCon
    <3>3. Asking(x) BY <3>1, <3>2 DEF SameCon, Asking, Waits
    <3> HIDE DEF x
    <3>4. /\ Good(n) /\ Follows(x, n) /\ (n.rrFlag = TRUE \/ n.rrInst = FALSE)
          /\ Waits(n) => Waits(x) /\ n.conTimer = x.conTimer
      BY <3>2, <3>3, RrNonDeliverableGood, RrNonDeliverableFollows
    <3>5. Good(m) /\ m.conState = n.conState /\ m.conBuf = n.conBuf /\ m.conTimer = n.conTimer
      BY <3>4, ClearedOK
    <3> HIDE DEF n, m
    <3>6. /\ Asking(n) /\ n.conTimer \in {x.conTimer, "off"}
          /\ Waits(n) => Waits(x) /\ n.conTimer = x.conTimer
      BY <3>4 DEF Follows
    <3> QED BY <3>2, <3>4, <3>5, <3>6 DEF SameCon, Asking, Waits
  <2> HIDE DEF n, m, f, r
  <2>4. rr'.user # NoInstance => rr'.flag /\ rr'.target = rr'.user
    <3>1. rr' = f \/ rr' = r \/ (rr' = rr /\ ~n.rrFlag /\ (rr.user = i => n.rrInst))
      BY <2>1
    <3>2. rr.user # NoInstance => rr.target = rr.user /\ i \in Cross
      BY <1>4, <1>5 DEF TargetsOK
    <3> QED BY <1>6, <2>2, <2>3, <3>1, <3>2
  <2>5. i \in Cross \cup {NoInstance} BY <1>5
  <2>6. inst[i].conTimer = "recovery" /\ i \in Cross /\ ~astray' => m.conTimer # "off"
    BY <2>1, <2>3 DEF CutShort
  <2>7. astray' \in BOOLEAN /\ (~astray' => ~astray) BY <1>4, <2>1
  <2> QED BY <1>7, <2>1, <2>3, <2>4, <2>5, <2>6, <2>7
<1> QED BY <1>8, <1>9 DEF ConfirmRr

LEMMA ConfirmConIInv == ASSUME IInv, NEW s, s \in Outcome, ConfirmCon(s) PROVE IInv'
<1>1. RestOK' BY OnBusOK DEF ConfirmCon, IInv
<1>2. QueuesInv' BY ConGood DEF IInv
<1> QED BY <1>1, <1>2, ConPostedIInv, ConFailedIInv DEF ConfirmCon

LEMMA InitIInv == Init => IInv
<1> SUFFICES ASSUME Init PROVE IInv
  OBVIOUS
<1>1. Good(NewInstance(FALSE, FALSE)) BY NewInstanceGood
<1>2. ~Waits(NewInstance(FALSE, FALSE)) BY DEF Waits, NewInstance
<1>3. InstsOK BY <1>1, <1>2 DEF Init, InstsOK, Good, Asking
<1>4. RestOK BY CrossAssumption DEF Init, RestOK, NoFrame, Frame
<1>5. WaitInv
  BY <1>2 DEF Init, WaitInv, TargetsOK, RrUnderWay, ConUnderWay, RequestsUnderWay, NewChannel
<1> QED BY <1>3, <1>4, <1>5, InitGood DEF IInv

LEMMA NextIInv == IInv /\ [Next]_vars => IInv'
<1>1. ASSUME IInv, UNCHANGED vars PROVE IInv'
  <2>1. UNCHANGED <<inst, con, rr, frame, asked, unacked, faults, calls, astray>>
    BY <1>1 DEF vars, partners
  <2> QED BY <1>1, <2>1, StillIInv DEF IInv, RestOK
<1> QED
  BY <1>1, ApplicationIInv, PartnersIInv, TimersIInv, TakeConIInv, TakeRrIInv,
     ConfirmConIInv, ConfirmRrIInv
  DEF Next, Bus

LEMMA Inductive == Spec => []IInv
BY InitIInv, NextIInv, PTL DEF Spec

\* The instances, the shared frames and the bus are of their types, whatever the
\* applications, the partners and the bus do.
THEOREM TypesOK == Spec => []TypeOK
<1>1. IInv => TypeOK
  BY DEF IInv, InstsOK, QueuesInv, GoodFrame, RestOK, WaitInv, TypeOK
<1> QED BY <1>1, Inductive, PTL

\* With any number of cross connections no use of a shared frame and no instance
\* within a handshake is left behind by the calls of the others
\* (DBALCQ_getConnectMsg, DBALCQ_getReqRespMsg and their callers), as long as the
\* pointer of the connection frame did not go astray.
THEOREM NobodyIsForgotten == Spec => []NobodyForgotten
<1>1. IInv => NobodyForgotten
  <2> SUFFICES ASSUME IInv PROVE NobodyForgotten
    OBVIOUS
  <2>1. con.user \in Cross \cup {NoInstance} BY DEF IInv, QueuesInv, GoodFrame, FitFor
  <2>2. RrUnderWay /\ (astray \/ (ConUnderWay /\ RequestsUnderWay)) BY DEF IInv, WaitInv
  <2>3. ConUnderWay => con.user = NoInstance \/ RequestUnderWay(con.user)
    BY DEF ConUnderWay, RequestUnderWay
  <2> QED BY <2>2, <2>3 DEF NobodyForgotten, RrUnderWay, RequestsUnderWay, Waits
<1> QED BY <1>1, Inductive, PTL
=============================================================================
