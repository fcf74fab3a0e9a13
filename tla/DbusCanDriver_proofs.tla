------------------------ MODULE DbusCanDriver_proofs ------------------------
(***************************************************************************)
(* Two arguments about the DBusCAN driver, for any number of messages,     *)
(* lengths, fifo sizes and failing transfers.  The SPI lock covers every   *)
(* transfer, wherever the steps of the task fall in the chains, until the  *)
(* task acts on a test that a chain has made obsolete (Covered).  And if   *)
(* the chains end before the task goes on, a message taken out of the chip *)
(* is handed on intact and in order, or told to be lost (ReadInv, on top   *)
(* of LockInv): the place where a chain is determines what the fields of   *)
(* the reading chain say of the first message in the fifo.                 *)
(***************************************************************************)
EXTENDS DbusCanDriver, FiniteSetTheorems, SequenceTheorems, TLAPS

\* The task does not run while a transfer is under way: what was read out of the
\* chip is followed through the chain without it.
Undivided == Prompt = TRUE

TxStates == {"READ_FIFO_STATUS", "CHECK_FIFO", "CHECK_FREE_SPACE", "WRITE_START", "WRITE_DONE"}
RxStates == {"CHECK_STATUS", "CHECK_AND_READ", "PROCESS", "CHECK_STATUS_AGAIN"}

\* The fields that the argument is about.
HasFields(d) ==
    /\ {"lock", "event", "op", "cb", "txState", "rxState"} \subseteq DOMAIN d
    /\ d.lock \in BOOLEAN /\ d.event \in BOOLEAN
    /\ d.cb \in Callbacks /\ d.txState \in TxStates /\ d.rxState \in RxStates

\* The lock is held with the callback armed.
Held(d) == HasFields(d) /\ d.lock /\ d.event

\* What every callback leaves behind: a held lock means an armed callback, and
\* a transfer means a held lock.
Good(d) == HasFields(d) /\ (d.lock => d.event) /\ (~Idle(d) => d.lock)

\* The turns in which the task has found the lock held.
Locked == {"sendLocked", "irqLocked", "readLocked"}

\* Between the task's test of the lock and its test of the error flag, the lock
\* is held and no transfer could release it.
LockInv ==
    /\ Good(drv)
    /\ turn \in Locked => drv.lock /\ Idle(drv)

-----------------------------------------------------------------------------
(* The operators of the SPI and of the lock.                               *)

LEMMA SetHdrHeld == ASSUME NEW d, NEW op, Held(d) PROVE Held(SetHdr(d, op))
BY DEF Held, HasFields, SetHdr

LEMMA SetHdrGood == ASSUME NEW d, NEW op, Good(d) PROVE Good(SetHdr(d, op))
BY DEF Good, HasFields, SetHdr, Idle

LEMMA StartHeld == ASSUME NEW d, NEW op, Held(d) PROVE Held(Start(d, op))
<1> DEFINE e == SetHdr(d, op)
<1>1. Held(e) BY SetHdrHeld
<1> HIDE DEF e
<1> QED BY <1>1 DEF Held, HasFields, Start, e

LEMMA HeldIsGood == ASSUME NEW d, Held(d) PROVE Good(d)
BY DEF Held, Good

LEMMA TakeHeld == ASSUME NEW d, NEW cb \in Callbacks, HasFields(d) PROVE Held(Take(d, cb))
BY DEF HasFields, Held, Take

LEMMA ReleaseGood == ASSUME NEW d, HasFields(d), Idle(d)
                     PROVE Good(Release(d)) /\ Idle(Release(d))
BY DEF HasFields, Good, Release, Idle

LEMMA ThenHeld == ASSUME NEW d, NEW cb \in Callbacks, NEW op, Held(d) PROVE Held(Then(d, cb, op))
<1>1. Held([d EXCEPT !.cb = cb]) BY DEF Held, HasFields
<1> QED BY <1>1, StartHeld DEF Then

LEMMA WriteRegHeld == ASSUME NEW d, NEW op, NEW cb \in Callbacks, Held(d) PROVE Held(WriteReg(d, op, cb))
<1>1. Held([d EXCEPT !.crcCheck = TRUE]) BY DEF Held, HasFields
<1> QED BY <1>1, ThenHeld DEF WriteReg

-----------------------------------------------------------------------------
(* The chain of the interrupt.                                             *)

LEMMA CheckedHeld == ASSUME NEW d, Held(d)
                     PROVE Held(Checked(d)) /\ (Idle(d) => Idle(Checked(d)))
BY DEF Held, HasFields, Checked, Idle

LEMMA FinishGood == ASSUME NEW d, HasFields(d), Idle(d) PROVE Good(FinishIrqHandling(d))
<1> DEFINE e == Release(d)
<1>1. Good(e) /\ Idle(e) BY ReleaseGood
<1> HIDE DEF e
<1> QED BY <1>1 DEF Good, HasFields, Idle, FinishIrqHandling, e

LEMMA HandleDbusFlagsGood == ASSUME NEW d, Held(d), Idle(d) PROVE Good(HandleDbusFlags(d))
<1> DEFINE e == Checked(d)
           counted == IF "RF0N" \in d.irqDbus THEN [e EXCEPT !.newMsg = @ + 1] ELSE e
           f == [counted EXCEPT !.txFinished = TRUE]
<1>1. Held(e) /\ Idle(e) BY CheckedHeld
<1>2. Held(counted) /\ Idle(counted)
  <2> HIDE DEF e
  <2> QED BY <1>1 DEF Held, HasFields, Idle
<1>3. Held(f)
  <2> HIDE DEF counted
  <2> QED BY <1>2 DEF Held, HasFields
<1>4. Good(FinishIrqHandling(e)) /\ Good(FinishIrqHandling(counted))
  BY <1>1, <1>2, FinishGood DEF Held
<1>5. Good(Then(f, "finish", "TXSF")) BY <1>3, ThenHeld, HeldIsGood DEF Callbacks
<1> QED BY <1>4, <1>5 DEF HandleDbusFlags

LEMMA ClearDbusFlagsGood == ASSUME NEW d, Held(d), Idle(d) PROVE Good(ClearDbusFlags(d))
<1>1. Good(FinishIrqHandling(Checked(d))) BY CheckedHeld, FinishGood DEF Held
<1>2. Good(WriteReg(d, "IR", "handleDbus")) BY WriteRegHeld, HeldIsGood DEF Callbacks
<1> QED BY <1>1, <1>2 DEF ClearDbusFlags

LEMMA ClearSpiFlagsGood == ASSUME NEW d, Held(d), Idle(d) PROVE Good(ClearSpiFlags(d))
<1>1. Good(FinishIrqHandling(d)) BY FinishGood DEF Held
<1>2. Good(WriteReg(d, "CLEAR_STATUS", "clearDbus")) BY WriteRegHeld, HeldIsGood DEF Callbacks
<1> QED BY <1>1, <1>2 DEF ClearSpiFlags

LEMMA ReadSpiFlagsGood == ASSUME NEW d, Held(d), Idle(d) PROVE Good(ReadSpiFlags(d))
<1>1. Good(FinishIrqHandling(Checked(d))) BY CheckedHeld, FinishGood DEF Held
<1>2. Good(Then(Checked(d), "clearSpi", "STATUS")) BY CheckedHeld, ThenHeld, HeldIsGood DEF Callbacks
<1> QED BY <1>1, <1>2 DEF ReadSpiFlags

LEMMA HandleGlobalFlagsGood ==
    ASSUME NEW d, Held(d), Idle(d) PROVE Good(HandleGlobalFlags(d))
<1>1. Good(FinishIrqHandling(d)) BY FinishGood DEF Held
<1>2. Good(WriteReg(d, "IF", "readSpi")) BY WriteRegHeld, HeldIsGood DEF Callbacks
<1>3. Good(ClearDbusFlags(d)) BY ClearDbusFlagsGood
<1> QED BY <1>1, <1>2, <1>3 DEF HandleGlobalFlags

-----------------------------------------------------------------------------
(* The chains of sending and reading.                                      *)

LEMMA SendAgainGood == ASSUME NEW d, NEW s \in TxStates, Good(d) PROVE Good(SendAgain(d, s))
BY DEF Good, HasFields, Idle, SendAgain

LEMMA WriteStartGood == ASSUME NEW d, NEW c, Held(d), Idle(d) PROVE Good(WriteStart(d, c))
<1>1. Good([d EXCEPT !.lock = FALSE, !.sendErr = TRUE]) BY DEF Held, Good, HasFields, Idle
<1>2. Held([d EXCEPT !.txState = "WRITE_DONE"]) BY DEF Held, HasFields, TxStates
<1>3. Good(Start([d EXCEPT !.txState = "WRITE_DONE"], "TXF")) BY <1>2, StartHeld, HeldIsGood
<1> QED BY <1>1, <1>3 DEF WriteStart

LEMMA SendReadGood == ASSUME NEW d, NEW op, NEW s \in TxStates, Held(d), Idle(d)
                    PROVE Good(SendRead(d, op, s))
<1>1. Held([d EXCEPT !.txState = s]) BY DEF Held, HasFields
<1> QED BY <1>1, StartHeld, HeldIsGood DEF SendRead

\* DBCDBUS_sendFrameCallback.
LEMMA SendFrameCallbackGood ==
    ASSUME NEW d, NEW c, Held(d), Idle(d)
    PROVE  Good(SendFrameCallback(d, c))
<1>1. Good(SendAgain(d, "READ_FIFO_STATUS")) /\ Good(SendAgain(d, "WRITE_START"))
  BY HeldIsGood, SendAgainGood DEF TxStates
<1>2. Good(WriteStart(d, c)) BY WriteStartGood
<1>3. Held([d EXCEPT !.sendErr = FALSE]) /\ Idle([d EXCEPT !.sendErr = FALSE])
  BY DEF Held, HasFields, Idle
<1>4. CASE d.txState = "READ_FIFO_STATUS"
  BY <1>3, <1>4, SendReadGood DEF SendFrameCallback, TxStates
<1>5. CASE d.txState = "CHECK_FIFO"
  BY <1>1, <1>5, SendReadGood DEF SendFrameCallback, TxStates
<1>6. CASE d.txState = "CHECK_FREE_SPACE"
  BY <1>1, <1>2, <1>6 DEF SendFrameCallback
<1>7. CASE d.txState = "WRITE_START"
  BY <1>2, <1>7 DEF SendFrameCallback
<1>8. CASE d.txState = "WRITE_DONE"
  <2> DEFINE e == Release(d)
             f == [e EXCEPT !.txState = "READ_FIFO_STATUS", !.sendErr = FALSE, !.frameSent = TRUE]
  <2>1. Good(e) BY ReleaseGood DEF Held
  <2>2. Good(f)
    <3> HIDE DEF e
    <3> QED BY <2>1 DEF Good, HasFields, Idle, TxStates
  <2> QED BY <1>1, <1>8, <2>2 DEF SendFrameCallback
<1> QED BY <1>4, <1>5, <1>6, <1>7, <1>8 DEF Held, HasFields, TxStates

LEMMA ReadAgainGood ==
    ASSUME NEW d, Good(d) PROVE Good(ReadAgain(d)) /\ (Idle(d) => Idle(ReadAgain(d)))
BY DEF Good, HasFields, Idle, ReadAgain, RxStates

LEMMA CheckAndReadGood == ASSUME NEW d, Held(d), Idle(d) PROVE Good(CheckAndRead(d))
<1> DEFINE level == [d EXCEPT !.newMsg = d.reg]
           e == [level EXCEPT !.rxState = IF d.tooBig THEN "CHECK_STATUS_AGAIN" ELSE "PROCESS"]
<1>1. Held(level) /\ Idle(level) BY DEF Held, HasFields, Idle
<1>2. Held(e)
  <2> HIDE DEF level
  <2> QED BY <1>1 DEF Held, HasFields, RxStates
<1>3. Good(Start(e, "RXF0")) BY <1>2, StartHeld, HeldIsGood
<1>4. Good(ReadAgain(d)) BY ReadAgainGood, HeldIsGood
<1>5. Good(ReadAgain(Release(level)))
  BY <1>1, ReleaseGood, ReadAgainGood DEF Held
<1>6. Idle(d) BY DEF Idle
<1> QED BY <1>3, <1>4, <1>5, <1>6 DEF CheckAndRead

\* DBCDBUS_readFrameCallback.
LEMMA ReadFrameCallbackGood == ASSUME NEW d, Held(d), Idle(d) PROVE Good(ReadFrameCallback(d))
<1>1. ASSUME NEW e, Held(e), Idle(e)
      PROVE  Good(Start([e EXCEPT !.rxState = "CHECK_AND_READ"], "RXF0S"))
  <2>1. Held([e EXCEPT !.rxState = "CHECK_AND_READ"]) BY <1>1 DEF Held, HasFields, RxStates
  <2> QED BY <2>1, StartHeld, HeldIsGood
<1>2. Held([d EXCEPT !.rxPtr = FALSE]) /\ Idle([d EXCEPT !.rxPtr = FALSE])
  BY DEF Held, HasFields, Idle
<1>3. Held(OneLess(d)) /\ Idle(OneLess(d))
  BY DEF Held, HasFields, Idle, OneLess
<1>4. CASE d.rxState = "CHECK_STATUS"
  BY <1>1, <1>2, <1>4 DEF ReadFrameCallback
<1>5. CASE d.rxState = "CHECK_AND_READ"
  BY <1>5, CheckAndReadGood DEF ReadFrameCallback
<1>6. CASE d.rxState = "PROCESS"
  <2> DEFINE r == Release(OneLess(d))
             e == [r EXCEPT !.rxState = "CHECK_STATUS"]
  <2>1. Good(r) BY <1>3, ReleaseGood DEF Held
  <2>2. Good(e)
    <3> HIDE DEF r
    <3> QED BY <2>1 DEF Good, HasFields, Idle, RxStates
  <2>3. Good(NotRead(e)) /\ Good([e EXCEPT !.rxPtr = TRUE])
    <3> HIDE DEF e
    <3> QED BY <2>2 DEF Good, HasFields, Idle, NotRead
  <2> QED BY <1>6, <2>3 DEF ReadFrameCallback
<1>7. CASE d.rxState = "CHECK_STATUS_AGAIN"
  BY <1>1, <1>3, <1>7 DEF ReadFrameCallback
<1> QED BY <1>4, <1>5, <1>6, <1>7 DEF Held, HasFields, RxStates

LEMMA CallbackGood == ASSUME NEW d, NEW c, Held(d), Idle(d) PROVE Good(Callback(d, c))
<1>1. d.cb \in Callbacks BY DEF Held, HasFields
<1>2. Good(FinishIrqHandling(d)) BY FinishGood DEF Held
<1> QED
  BY <1>1, <1>2, HandleGlobalFlagsGood, ReadSpiFlagsGood, ClearSpiFlagsGood, ClearDbusFlagsGood,
     HandleDbusFlagsGood, SendFrameCallbackGood, ReadFrameCallbackGood
  DEF Callback, Callbacks

-----------------------------------------------------------------------------
(* The steps, and what they leave of the lock.                             *)

\* What leaves the driver alone, leaves it good.
LEMMA GoodKept == ASSUME Good(drv), UNCHANGED drv PROVE Good(drv')
BY DEF Good, HasFields, Idle

\* The end of a transfer leaves the lock, the callback and the chains' states.
LEMMA TransferredHeld ==
    ASSUME Good(drv), ~Idle(drv), NEW good, NEW accepted, Transferred(good, accepted)
    PROVE  Held(drv')
<1> DEFINE d == IF good THEN DrvAfter
                ELSE IF drv.op = "TXSF" THEN [drv EXCEPT !.txStatus = NoStatus] ELSE drv
<1>1. Held(drv) BY DEF Good, Held
<1>2. Held(d) BY <1>1 DEF Held, HasFields, DrvAfter
<1>3. drv' = [d EXCEPT !.over = TRUE, !.bad = ~good,
                       !.spiErr = IF drv.op \in WriteOps THEN chip.global # {} ELSE @]
  BY DEF Transferred
<1> HIDE DEF d
<1> QED BY <1>2, <1>3 DEF Held, HasFields

LEMMA SpiInterruptGood == ASSUME Good(drv), SpiInterrupt PROVE Good(drv')
<1> DEFINE d == [drv EXCEPT !.op = NoTransfer, !.over = FALSE]
<1>1. Held(drv) BY DEF Good, Held, SpiInterrupt
<1>2. Held(d) /\ Idle(d) BY <1>1 DEF Held, HasFields, Idle
<1>3. drv' = Callback(d, chip) BY <1>2 DEF SpiInterrupt, Held
<1> HIDE DEF d
<1> QED BY <1>2, <1>3, CallbackGood

\* DBCDBUS_sendFrame, with the lock free or the frame sent.
LEMMA SendUnlockedGood == ASSUME Good(drv), Idle(drv) PROVE Good(SendUnlocked(drv))
<1>1. Good([drv EXCEPT !.sendErr = FALSE]) BY DEF Good, HasFields, Idle
<1>2. Held(Take(drv, "send")) /\ Idle(Take(drv, "send"))
  BY TakeHeld DEF Good, Idle, Take, HasFields, Callbacks
<1> QED BY <1>1, <1>2, SendFrameCallbackGood DEF SendUnlocked

LEMMA HandleTaskGood == ASSUME Good(drv), HandleTask PROVE Good(drv')
<1>1. Good([drv EXCEPT !.frameSent = FALSE]) BY DEF Good, HasFields, Idle
<1>2. Good(MsgTransmitted(drv)) BY DEF Good, HasFields, Idle, MsgTransmitted
<1>3. CASE dll = "MSG_TO_SEND"
  <2>1. drv' = SendFrame(drv) BY <1>3 DEF HandleTask
  <2>2. drv.frameSent \/ ~drv.lock BY <1>3 DEF HandleTask, SendLocked
  <2>3. ~drv.lock => Idle(drv) BY DEF Good
  <2> QED BY <1>1, <2>1, <2>2, <2>3, SendUnlockedGood DEF SendFrame
<1>4. CASE dll # "MSG_TO_SEND"
  <2>1. drv' \in {drv, MsgTransmitted(drv)} BY <1>4, Zenon DEF HandleTask
  <2> QED BY <1>2, <2>1, GoodKept
<1> QED BY <1>3, <1>4

LEMMA ReadIrqGood == ASSUME Good(drv), ~drv.lock PROVE Good(ReadIrq(drv))
<1>1. Idle(drv) BY DEF Good
<1>2. Held(Take(drv, "handleGlobal")) BY <1>1, TakeHeld DEF Good, Callbacks
<1>3. Good(Start(Take(drv, "handleGlobal"), "IRQ")) BY <1>2, StartHeld, HeldIsGood
<1> QED BY <1>1, <1>3 DEF ReadIrq

LEMMA HandleInterruptGood ==
    ASSUME Good(drv), HandleInterrupt \/ HandleInterruptGoesOn PROVE Good(drv')
<1>1. Good([drv EXCEPT !.irqDone = FALSE]) BY DEF Good, HasFields, Idle
<1>2. CASE HandleInterruptGoesOn
  BY <1>2, ReadIrqGood, GoodKept DEF HandleInterruptGoesOn
<1>3. CASE HandleInterrupt
  <2>1. CASE pending \/ Interrupt(chip)
    <3>1. drv' = HandleIrq(drv) BY <1>3, <2>1 DEF HandleInterrupt
    <3>2. drv.irqDone \/ ~drv.lock BY <1>3, <2>1 DEF HandleInterrupt, IrqLocked
    <3> QED BY <1>1, <3>1, <3>2, ReadIrqGood DEF HandleIrq
  <2>2. CASE ~(pending \/ Interrupt(chip))
    <3>1. drv' = drv BY <1>3, <2>2 DEF HandleInterrupt
    <3> QED BY <3>1, GoodKept
  <2> QED BY <2>1, <2>2
<1> QED BY <1>2, <1>3

\* A chain that goes on after an error, or a test of the lock that comes late.
LEMMA GoesOnGood ==
    ASSUME Good(drv), SendFrameGoesOn \/ ReadFrameGoesOn, ~raced' \/ (drv.lock /\ Idle(drv))
    PROVE  Good(drv')
<1> DEFINE s == [drv EXCEPT !.sendErr = FALSE]
           r == [drv EXCEPT !.readErr = FALSE]
<1>1. drv.lock /\ Idle(drv) => Held(s) /\ Idle(s) /\ Held(r) /\ Idle(r)
  BY DEF Good, Held, HasFields, Idle
<1>2. drv.lock /\ Idle(drv) => Good(SendFrameCallback(s, chip)) /\ Good(ReadFrameCallback(r))
  <2> HIDE DEF s, r
  <2> QED BY <1>1, SendFrameCallbackGood, ReadFrameCallbackGood
<1>3. CASE SendFrameGoesOn
  <2>1. PICK locked \in {TRUE, drv.lock} :
          /\ drv' = IF locked /\ drv.sendErr THEN SendFrameCallback(s, chip)
                    ELSE IF locked THEN drv ELSE SendUnlocked(drv)
          /\ raced' = \/ raced
                      \/ (locked /\ drv.sendErr) /\ ~(drv.lock /\ Idle(drv))
                      \/ ~locked /\ drv.frameSent
    BY <1>3 DEF SendFrameGoesOn
  <2>2. CASE locked /\ drv.sendErr BY <1>2, <2>1, <2>2
  <2>3. CASE locked /\ ~drv.sendErr BY <2>1, <2>3, GoodKept
  <2>4. CASE ~locked
    <3>1. Idle(drv) BY <2>4 DEF Good
    <3> QED BY <2>1, <2>4, <3>1, SendUnlockedGood
  <2> QED BY <2>2, <2>3, <2>4
<1>4. CASE ReadFrameGoesOn
  <2>1. CASE drv.readErr BY <1>2, <1>4, <2>1 DEF ReadFrameGoesOn
  <2>2. CASE ~drv.readErr BY <1>4, <2>2, GoodKept DEF ReadFrameGoesOn
  <2> QED BY <2>1, <2>2
<1> QED BY <1>3, <1>4

LEMMA ReadFrameGood == ASSUME Good(drv), ReadFrame PROVE Good(drv')
<1> DEFINE taken == [Take(drv, "read") EXCEPT !.readout = FALSE]
<1>1. Good(EndFailedRead(drv)) /\ Good([drv EXCEPT !.rxPtr = FALSE, !.readout = TRUE])
  BY DEF Good, HasFields, Idle, EndFailedRead
<1>2. CASE ReadStarts
  <2>1. Idle(drv) BY <1>2 DEF ReadStarts, Good
  <2>2. Held(Take(drv, "read")) /\ Idle(Take(drv, "read"))
    BY <2>1, TakeHeld DEF Good, Idle, Take, HasFields, Callbacks
  <2>3. Held(taken) /\ Idle(taken) BY <2>2 DEF Held, HasFields, Idle
  <2>4. drv' = ReadFrameCallback(taken) BY <1>2 DEF ReadFrame
  <2> HIDE DEF taken
  <2> QED BY <2>3, <2>4, ReadFrameCallbackGood
<1>3. CASE ~ReadStarts
  <2>1. drv' \in {drv, EndFailedRead(drv), [drv EXCEPT !.rxPtr = FALSE, !.readout = TRUE]}
    BY <1>3 DEF ReadFrame
  <2> QED BY <1>1, <2>1, GoodKept
<1> QED BY <1>2, <1>3

\* Every step keeps the lock over the transfer, unless a chain goes on with the
\* lock free or a transfer under way.
LEMMA NextGood ==
    ASSUME Good(drv), [Next]_vars,
           SendFrameGoesOn \/ ReadFrameGoesOn => ~raced' \/ (drv.lock /\ Idle(drv))
    PROVE  Good(drv')
<1>1. CASE UNCHANGED drv BY <1>1, GoodKept
<1>2. CASE Transmit BY <1>2 DEF Transmit, Good, HasFields, Idle
<1>3. CASE TransferEnds BY <1>3, TransferredHeld, HeldIsGood DEF TransferEnds
<1>4. CASE TransferFails
  <2>1. PICK accepted \in BOOLEAN : Transferred(FALSE, accepted) /\ ~Idle(drv) BY <1>4 DEF TransferFails
  <2> QED BY <2>1, TransferredHeld, HeldIsGood
<1>5. CASE SendFrameGoesOn \/ ReadFrameGoesOn BY <1>5, GoesOnGood
<1>6. UNCHANGED vars \/ IrqTimeout \/ ChipReceives \/ ChipSends \/ SendFrameLocked
      \/ HandleInterruptLocked => UNCHANGED drv
  BY DEF vars, IrqTimeout, ChipReceives, ChipSends, SendFrameLocked, HandleInterruptLocked
<1> QED
  BY <1>1, <1>2, <1>3, <1>4, <1>5, <1>6, SpiInterruptGood, HandleTaskGood, HandleInterruptGood,
     ReadFrameGood DEF Next, Task

LEMMA InitGood == Init => Good(drv)
BY DEF Init, Good, HasFields, Idle, Callbacks, TxStates, RxStates

LEMMA RacedStays == ASSUME [Next]_vars PROVE raced => raced'
<1>1. CASE SendFrameGoesOn BY <1>1 DEF SendFrameGoesOn
<1>2. CASE ReadFrameGoesOn BY <1>2 DEF ReadFrameGoesOn
<1>3. CASE HandleTask \/ ReadFrame BY <1>3 DEF HandleTask, ReadFrame
<1>4. CASE TransferEnds \/ TransferFails BY <1>4 DEF TransferEnds, TransferFails, Transferred
<1>5. CASE UNCHANGED vars \/ Transmit \/ SpiInterrupt \/ SendFrameLocked
  BY <1>5 DEF vars, Transmit, SpiInterrupt, SendFrameLocked, history
<1>6. CASE IrqTimeout \/ ChipReceives \/ ChipSends
  BY <1>6 DEF IrqTimeout, ChipReceives, ChipSends, history
<1>7. CASE HandleInterrupt \/ HandleInterruptLocked \/ HandleInterruptGoesOn
  BY <1>7 DEF HandleInterrupt, HandleInterruptLocked, HandleInterruptGoesOn, history
<1> QED BY <1>1, <1>2, <1>3, <1>4, <1>5, <1>6, <1>7 DEF Next, Task

Covered == ~raced => Good(drv)

\* Whenever a transfer runs on the SPI, the chain that started it holds the lock
\* and its callback is armed (DBCDBUS_isSpiLock), whatever transfers fail, also
\* if the task runs in the middle of chains: the tests of the lock suffice, but
\* for a chain that goes on after an error (dbuscan_dbus.c:192, 249).
THEOREM LockCovers == Spec => []LockCoversTransfer
<1>1. Init => Covered BY InitGood DEF Covered
<1>2. Covered /\ [Next]_vars => Covered' BY NextGood, RacedStays DEF Covered, Good, HasFields, Idle
<1>3. Covered => LockCoversTransfer BY DEF Covered, Good, LockCoversTransfer
<1> QED BY <1>1, <1>2, <1>3, PTL DEF Spec

\* If the chains end before the task goes on, the lock that the task finds held
\* stays held until its next step, and no chain goes on without it.
LEMMA InitLock == Init => LockInv
BY InitGood DEF Init, LockInv, Locked

LEMMA NextLock == ASSUME LockInv, Undivided, [Next]_vars PROVE LockInv'
<1>1. Good(drv')
  <2>1. ASSUME SendFrameGoesOn \/ ReadFrameGoesOn PROVE drv.lock /\ Idle(drv)
    BY <2>1 DEF SendFrameGoesOn, ReadFrameGoesOn, TaskStep, LockInv, Locked
  <2> QED BY <2>1, NextGood DEF LockInv
<1>2. ASSUME turn' \in Locked PROVE drv.lock' /\ Idle(drv)'
  <2>1. CASE UNCHANGED <<drv, turn>> BY <1>2, <2>1 DEF LockInv, Idle
  <2>2. CASE SendFrameLocked
    BY <2>2 DEF SendFrameLocked, SendLocked, TaskStep, Undivided, Idle
  <2>3. CASE HandleInterruptLocked
    BY <2>3 DEF HandleInterruptLocked, IrqLocked, TaskStep, Undivided, Idle
  <2>4. CASE ReadFrame
    <3>1. drv' = drv /\ drv.lock BY <1>2, <2>4 DEF ReadFrame, Locked
    <3> QED BY <2>4, <3>1 DEF ReadFrame, TaskStep, Undivided, Idle
  <2>5. CASE Transmit BY <1>2, <2>5 DEF Transmit, TaskStep, Locked
  <2>6. CASE SpiInterrupt \/ TransferEnds \/ TransferFails
    <3>1. turn' = turn /\ ~Idle(drv) BY <2>6 DEF SpiInterrupt, TransferEnds, TransferFails, Transferred
    <3> QED BY <1>2, <3>1 DEF LockInv
  <2>7. CASE HandleTask \/ HandleInterrupt \/ HandleInterruptGoesOn \/ SendFrameGoesOn \/ ReadFrameGoesOn
    <3>1. turn' \in {"irq", "read", "send"}
      BY <2>7 DEF HandleTask, HandleInterrupt, HandleInterruptGoesOn, SendFrameGoesOn, ReadFrameGoesOn
    <3> QED BY <1>2, <3>1 DEF Locked
  <2>8. UNCHANGED vars \/ IrqTimeout \/ ChipReceives \/ ChipSends => UNCHANGED <<drv, turn>>
    BY DEF vars, IrqTimeout, ChipReceives, ChipSends
  <2> QED BY <2>1, <2>2, <2>3, <2>4, <2>5, <2>6, <2>7, <2>8 DEF Next, Task
<1> QED BY <1>1, <1>2 DEF LockInv, Idle

-----------------------------------------------------------------------------
(* The types, and what a callback makes of the fields of the driver.  The  *)
(* outcomes below are what the rest of the argument needs to know of the   *)
(* operators of the module.                                                *)

\* A status register; 0 is the status of no message.
Statuses == 0 .. MaxTx
Levels == 0 .. FifoMax \cup 0 .. RxFifoMax
Ops == ReadOps \cup WriteOps \cup {NoTransfer}

\* The variables of dbuscan_dbus.c and dbuscan_drv.c.
Driver ==
    [lock : BOOLEAN, event : BOOLEAN, cb : Callbacks, irqDone : BOOLEAN, frameSent : BOOLEAN,
     txFinished : BOOLEAN, sendErr : BOOLEAN, readErr : BOOLEAN, notifyLost : BOOLEAN,
     crcCheck : BOOLEAN, txState : TxStates, rxState : RxStates, readout : BOOLEAN, newMsg : Nat,
     rxPtr : BOOLEAN, rxBuf : 0 .. MaxRx, txBuf : 0 .. MaxTx, irqGlobal : SUBSET {"SPIERR"},
     irqDbus : SUBSET {"RF0N", "TEFN"}, txStatus : Statuses, reg : Levels,
     tooBig : BOOLEAN, hdr : ReadOps, last : Ops, bad : BOOLEAN, spiErr : BOOLEAN, op : Ops,
     over : BOOLEAN]

\* The fields of the reading chain, which the other chains leave alone.
Rx(d) == <<d.rxState, d.rxPtr, d.rxBuf, d.readErr, d.notifyLost, d.readout>>

\* A transfer that has just started.
Started(d, e, op) ==
    /\ e \in Driver /\ e.op = op /\ ~e.over /\ ~e.bad /\ e.lock = d.lock
    /\ op \in ReadOps => e.hdr = op
    /\ Rx(e) = Rx(d) /\ e.newMsg = d.newMsg /\ e.irqDbus = d.irqDbus

LEMMA StartStarts ==
    ASSUME NEW d \in Driver, ~d.over, NEW op \in ReadOps \cup WriteOps
    PROVE  Started(d, Start(d, op), op) /\ Start(d, op).cb = d.cb
<1> DEFINE hdr == IF op \in ReadOps THEN op ELSE d.hdr
           e == [d EXCEPT !.last = op, !.hdr = hdr]
           f == [e EXCEPT !.op = op, !.bad = FALSE, !.spiErr = FALSE, !.reg = 0, !.tooBig = FALSE]
<1>1. hdr \in ReadOps /\ (op \in ReadOps => hdr = op) BY DEF Driver
<1>2. 0 \in Levels /\ op \in Ops BY DbusCanDriverAssumption DEF Levels, Ops
<1>3. Start(d, op) = f BY DEF Start, SetHdr
<1> HIDE DEF hdr
<1>4. e \in Driver BY <1>1, <1>2 DEF Driver
<1>5. Rx(e) = Rx(d) /\ e.newMsg = d.newMsg /\ e.irqDbus = d.irqDbus /\ e.lock = d.lock /\ e.cb = d.cb
      /\ ~e.over /\ e.hdr = hdr
  BY DEF Driver, Rx
<1> HIDE DEF e
<1>6. f \in Driver BY <1>2, <1>4, ZenonT(30) DEF Driver
<1>7. Rx(f) = Rx(e) /\ f.newMsg = e.newMsg /\ f.irqDbus = e.irqDbus /\ f.lock = e.lock /\ f.cb = e.cb
      /\ f.over = e.over /\ f.hdr = e.hdr /\ f.op = op /\ ~f.bad
  BY <1>4 DEF Driver, Rx
<1> QED BY <1>1, <1>3, <1>5, <1>6, <1>7 DEF Started

LEMMA ThenStarts ==
    ASSUME NEW d \in Driver, ~d.over, NEW op \in ReadOps \cup WriteOps, NEW cb \in Callbacks
    PROVE  Started(d, Then(d, cb, op), op) /\ Then(d, cb, op).cb = cb
<1> DEFINE e == [d EXCEPT !.cb = cb]
<1>1. e \in Driver /\ ~e.over /\ Rx(e) = Rx(d) /\ e.newMsg = d.newMsg /\ e.irqDbus = d.irqDbus /\ e.lock = d.lock /\ e.cb = cb
  BY SMTT(30) DEF Driver, Rx
<1> HIDE DEF e
<1>2. Then(d, cb, op) = Start(e, op) BY DEF Then, e
<1> QED BY <1>1, <1>2, StartStarts DEF Started

-----------------------------------------------------------------------------
(* The chain of the interrupt.                                             *)

\* Its callbacks, each with the transfer that it waits for.
IrqSteps == {<<"handleGlobal", "IRQ">>, <<"readSpi", "IF">>, <<"clearSpi", "STATUS">>,
             <<"clearDbus", "CLEAR_STATUS">>, <<"handleDbus", "IR">>, <<"finish", "TXSF">>}

\* The transfers that only the chain of sending starts.
SendOps == {"TXEFS", "TXFQS", "TXF"}

\* The chain of the interrupt ends, or goes on with its next transfer.
IrqOutcome(d, e) ==
    /\ e \in Driver /\ ~e.over /\ Rx(e) = Rx(d)
    /\ \/ e.newMsg = d.newMsg
       \/ d.cb = "handleDbus" /\ ~d.bad /\ "RF0N" \in d.irqDbus /\ e.newMsg = d.newMsg + 1
    /\ \/ Idle(e) /\ ~e.lock /\ e.irqDbus = {} /\ e.cb = d.cb
       \/ /\ <<e.cb, e.op>> \in IrqSteps /\ e.op # "IRQ" /\ ~e.bad /\ e.irqDbus = d.irqDbus
          /\ d.cb # "finish" /\ (e.cb = "finish" <=> d.cb = "handleDbus")
          /\ e.cb = "handleDbus" => e.crcCheck

LEMMA CheckedIs ==
    ASSUME NEW d \in Driver, ~d.over, Idle(d)
    PROVE  LET e == Checked(d) IN
           /\ e \in Driver /\ ~e.over /\ Rx(e) = Rx(d) /\ e.newMsg = d.newMsg
           /\ e.irqDbus = d.irqDbus /\ e.cb = d.cb /\ Idle(e)
<1> DEFINE e == [d EXCEPT !.crcCheck = FALSE]
<1>1. e \in Driver BY DEF Driver
<1>2. ~e.over /\ Rx(e) = Rx(d) /\ e.newMsg = d.newMsg /\ e.irqDbus = d.irqDbus /\ e.cb = d.cb /\ Idle(e)
  BY DEF Driver, Rx, Idle
<1> QED BY <1>1, <1>2 DEF Checked

LEMMA FinishIs ==
    ASSUME NEW d \in Driver, ~d.over, Idle(d)
    PROVE  LET e == FinishIrqHandling(d) IN
           /\ e \in Driver /\ ~e.over /\ Rx(e) = Rx(d) /\ e.newMsg = d.newMsg
           /\ e.cb = d.cb /\ Idle(e) /\ ~e.lock /\ e.irqDbus = {}
<1> DEFINE r == [d EXCEPT !.event = FALSE, !.lock = FALSE]
           e == [r EXCEPT !.irqDone = TRUE, !.irqGlobal = {}, !.irqDbus = {}]
<1>1. FinishIrqHandling(d) = e BY DEF FinishIrqHandling, Release
<1>2. r \in Driver BY DEF Driver
<1>3. ~r.over /\ Rx(r) = Rx(d) /\ r.newMsg = d.newMsg /\ r.cb = d.cb /\ Idle(r) /\ ~r.lock
  BY DEF Driver, Rx, Idle
<1> HIDE DEF r
<1>4. e \in Driver BY <1>2 DEF Driver
<1>5. e.over = r.over /\ Rx(e) = Rx(r) /\ e.newMsg = r.newMsg /\ e.cb = r.cb /\ e.op = r.op
      /\ e.lock = r.lock /\ e.irqDbus = {}
  BY <1>2 DEF Driver, Rx
<1> QED BY <1>1, <1>3, <1>4, <1>5 DEF Idle

LEMMA WriteRegStarts ==
    ASSUME NEW d \in Driver, ~d.over, NEW op \in ReadOps \cup WriteOps, NEW cb \in Callbacks
    PROVE  /\ Started(d, WriteReg(d, op, cb), op)
           /\ WriteReg(d, op, cb).cb = cb /\ WriteReg(d, op, cb).crcCheck
<1> DEFINE e == [d EXCEPT !.crcCheck = TRUE]
           f == [e EXCEPT !.cb = cb]
<1>1. e \in Driver BY DEF Driver
<1>2. ~e.over /\ Rx(e) = Rx(d) /\ e.newMsg = d.newMsg /\ e.irqDbus = d.irqDbus /\ e.lock = d.lock
      /\ e.crcCheck
  BY DEF Driver, Rx
<1> HIDE DEF e
<1>3. WriteReg(d, op, cb) = Then(e, cb, op) BY DEF WriteReg, e
<1>4. f \in Driver /\ f.crcCheck
  <2>1. f \in Driver BY <1>1 DEF Driver
  <2>2. f.crcCheck BY <1>1, <1>2 DEF Driver
  <2> QED BY <2>1, <2>2
<1>5. Then(e, cb, op).crcCheck
  <2> HIDE DEF f
  <2>1. Then(e, cb, op) = Start(f, op) BY DEF Then, f
  <2> DEFINE g == SetHdr(f, op)
  <2>2. g.crcCheck /\ DOMAIN g = DOMAIN f BY <1>4 DEF SetHdr, Driver
  <2> HIDE DEF g
  <2>3. Start(f, op).crcCheck BY <2>2 DEF Start, g
  <2> QED BY <2>1, <2>3
<1> QED BY <1>1, <1>2, <1>3, <1>5, ThenStarts DEF Started

LEMMA FinishOutcome ==
    ASSUME NEW d \in Driver, ~d.over, Idle(d) PROVE IrqOutcome(d, FinishIrqHandling(d))
BY FinishIs DEF IrqOutcome

LEMMA FinishCheckedOutcome ==
    ASSUME NEW d \in Driver, ~d.over, Idle(d) PROVE IrqOutcome(d, FinishIrqHandling(Checked(d)))
<1> DEFINE e == Checked(d)
<1>1. e \in Driver /\ ~e.over /\ Rx(e) = Rx(d) /\ e.newMsg = d.newMsg
      /\ e.irqDbus = d.irqDbus /\ e.cb = d.cb /\ Idle(e)
  BY CheckedIs
<1> HIDE DEF e
<1>2. LET f == FinishIrqHandling(e) IN
           /\ f \in Driver /\ ~f.over /\ Rx(f) = Rx(e) /\ f.newMsg = e.newMsg
           /\ f.cb = e.cb /\ Idle(f) /\ ~f.lock /\ f.irqDbus = {}
  BY <1>1, FinishIs
<1> QED BY <1>1, <1>2 DEF IrqOutcome, e

LEMMA ClearDbusFlagsOutcome ==
    ASSUME NEW d \in Driver, ~d.over, Idle(d), d.cb \notin {"handleDbus", "finish"}
    PROVE  IrqOutcome(d, ClearDbusFlags(d))
<1>1. IrqOutcome(d, WriteReg(d, "IR", "handleDbus"))
  <2> DEFINE e == WriteReg(d, "IR", "handleDbus")
  <2>1. Started(d, e, "IR") /\ e.cb = "handleDbus" /\ e.crcCheck
    BY WriteRegStarts DEF WriteOps, Callbacks
  <2> HIDE DEF e
  <2> QED BY <2>1 DEF IrqOutcome, Started, IrqSteps, e
<1> QED BY <1>1, FinishCheckedOutcome DEF ClearDbusFlags

LEMMA ClearSpiFlagsOutcome ==
    ASSUME NEW d \in Driver, ~d.over, Idle(d), d.cb \notin {"handleDbus", "finish"}
    PROVE  IrqOutcome(d, ClearSpiFlags(d))
<1>1. IrqOutcome(d, WriteReg(d, "CLEAR_STATUS", "clearDbus"))
  <2> DEFINE e == WriteReg(d, "CLEAR_STATUS", "clearDbus")
  <2>1. Started(d, e, "CLEAR_STATUS") /\ e.cb = "clearDbus"
    BY WriteRegStarts DEF WriteOps, Callbacks
  <2> HIDE DEF e
  <2> QED BY <2>1 DEF IrqOutcome, Started, IrqSteps, e
<1> QED BY <1>1, FinishOutcome DEF ClearSpiFlags

LEMMA ReadSpiFlagsOutcome ==
    ASSUME NEW d \in Driver, ~d.over, Idle(d), d.cb \notin {"handleDbus", "finish"}
    PROVE  IrqOutcome(d, ReadSpiFlags(d))
<1>1. IrqOutcome(d, Then(Checked(d), "clearSpi", "STATUS"))
  <2> DEFINE c == Checked(d)
             e == Then(c, "clearSpi", "STATUS")
  <2>1. c \in Driver /\ ~c.over /\ Rx(c) = Rx(d) /\ c.newMsg = d.newMsg
        /\ c.irqDbus = d.irqDbus /\ c.cb = d.cb /\ Idle(c)
    BY CheckedIs
  <2> HIDE DEF c
  <2>2. Started(c, e, "STATUS") /\ e.cb = "clearSpi" BY <2>1, ThenStarts DEF ReadOps, Callbacks
  <2> HIDE DEF e
  <2>3. IrqOutcome(d, e) BY <2>1, <2>2 DEF IrqOutcome, Started, IrqSteps
  <2> QED BY <2>3 DEF e, c
<1> QED BY <1>1, FinishCheckedOutcome DEF ReadSpiFlags

LEMMA HandleGlobalFlagsOutcome ==
    ASSUME NEW d \in Driver, ~d.over, Idle(d), d.cb \notin {"handleDbus", "finish"}
    PROVE  IrqOutcome(d, HandleGlobalFlags(d))
<1>1. IrqOutcome(d, WriteReg(d, "IF", "readSpi"))
  <2> DEFINE e == WriteReg(d, "IF", "readSpi")
  <2>1. Started(d, e, "IF") /\ e.cb = "readSpi"
    BY WriteRegStarts DEF WriteOps, Callbacks
  <2> HIDE DEF e
  <2> QED BY <2>1 DEF IrqOutcome, Started, IrqSteps, e
<1> QED BY <1>1, FinishOutcome, ClearDbusFlagsOutcome DEF HandleGlobalFlags

LEMMA HandleDbusFlagsOutcome ==
    ASSUME NEW d \in Driver, ~d.over, Idle(d), d.cb = "handleDbus", d.crcCheck
    PROVE  IrqOutcome(d, HandleDbusFlags(d))
<1> DEFINE c == Checked(d)
           counted == IF "RF0N" \in d.irqDbus THEN [c EXCEPT !.newMsg = @ + 1] ELSE c
           f == [counted EXCEPT !.txFinished = TRUE]
           t == Then(f, "finish", "TXSF")
<1>1. c \in Driver /\ ~c.over /\ Rx(c) = Rx(d) /\ c.newMsg = d.newMsg
      /\ c.irqDbus = d.irqDbus /\ c.cb = d.cb /\ Idle(c)
  BY CheckedIs
<1>2. /\ counted \in Driver /\ ~counted.over /\ Rx(counted) = Rx(d)
      /\ counted.irqDbus = d.irqDbus /\ counted.cb = d.cb /\ Idle(counted)
      /\ \/ counted.newMsg = d.newMsg
         \/ "RF0N" \in d.irqDbus /\ counted.newMsg = d.newMsg + 1
  <2> HIDE DEF c
  <2> DEFINE m == [c EXCEPT !.newMsg = c.newMsg + 1]
  <2>1. m \in Driver BY <1>1 DEF Driver
  <2>2. ~m.over /\ Rx(m) = Rx(c) /\ m.irqDbus = c.irqDbus /\ m.cb = c.cb /\ Idle(m)
        /\ m.newMsg = c.newMsg + 1
    BY <1>1 DEF Driver, Rx, Idle
  <2>3. counted = IF "RF0N" \in d.irqDbus THEN m ELSE c OBVIOUS
  <2> HIDE DEF m, counted
  <2> QED BY <1>1, <2>1, <2>2, <2>3
<1> HIDE DEF counted
<1>3. /\ f \in Driver /\ ~f.over /\ Rx(f) = Rx(d) /\ f.irqDbus = d.irqDbus /\ f.newMsg = counted.newMsg
  <2>1. f \in Driver BY <1>2 DEF Driver
  <2>2. f.over = counted.over /\ Rx(f) = Rx(counted) /\ f.irqDbus = counted.irqDbus /\ f.newMsg = counted.newMsg
    BY <1>2 DEF Driver, Rx
  <2> QED BY <1>2, <2>1, <2>2
<1> HIDE DEF f
<1>4. Started(f, t, "TXSF") /\ t.cb = "finish" BY <1>3, ThenStarts DEF ReadOps, Callbacks
<1> HIDE DEF t
<1>5. ~d.bad => IrqOutcome(d, t) BY <1>2, <1>3, <1>4 DEF IrqOutcome, Started, IrqSteps
<1>6. ~d.bad => IrqOutcome(d, FinishIrqHandling(counted))
  <2> DEFINE e == FinishIrqHandling(counted)
  <2>1. /\ e \in Driver /\ ~e.over /\ Rx(e) = Rx(counted) /\ e.newMsg = counted.newMsg
        /\ e.cb = counted.cb /\ Idle(e) /\ ~e.lock /\ e.irqDbus = {}
    BY <1>2, FinishIs
  <2> HIDE DEF e
  <2> QED BY <1>2, <2>1 DEF IrqOutcome, e
<1>7. IrqOutcome(d, FinishIrqHandling(Checked(d))) BY FinishCheckedOutcome
<1>8. Unwritten(d) \/ ~d.bad BY DEF Unwritten, WriteBad
<1> QED BY <1>5, <1>6, <1>7, <1>8 DEF HandleDbusFlags, counted, c, f, t

-----------------------------------------------------------------------------
(* The chain that writes a frame.                                          *)

\* It goes on, waits or ends.
SendOutcome(d, e) ==
    /\ e \in Driver /\ ~e.over /\ Rx(e) = Rx(d) /\ e.newMsg = d.newMsg
    /\ e.irqDbus = d.irqDbus /\ e.cb = d.cb /\ (e.lock => d.lock)
    /\ Idle(e) \/ (e.op \in SendOps /\ ~e.bad)

LEMMA SendAgainOutcome ==
    ASSUME NEW d \in Driver, ~d.over, Idle(d), NEW s \in TxStates PROVE SendOutcome(d, SendAgain(d, s))
<1> DEFINE e == [d EXCEPT !.txState = s, !.sendErr = TRUE]
<1>1. e \in Driver BY DEF Driver
<1>2. ~e.over /\ Rx(e) = Rx(d) /\ e.newMsg = d.newMsg /\ e.irqDbus = d.irqDbus /\ e.cb = d.cb
      /\ e.lock = d.lock /\ Idle(e)
  BY DEF Driver, Rx, Idle
<1> QED BY <1>1, <1>2 DEF SendAgain, SendOutcome

LEMMA StartOutcome ==
    ASSUME NEW d \in Driver, ~d.over, NEW op \in SendOps, NEW s \in TxStates
    PROVE  SendOutcome(d, Start([d EXCEPT !.txState = s], op))
<1> DEFINE e == [d EXCEPT !.txState = s]
           f == Start(e, op)
<1>1. e \in Driver BY DEF Driver
<1>2. ~e.over /\ Rx(e) = Rx(d) /\ e.newMsg = d.newMsg /\ e.irqDbus = d.irqDbus /\ e.cb = d.cb
      /\ e.lock = d.lock
  BY DEF Driver, Rx
<1>3. op \in ReadOps \cup WriteOps BY DEF SendOps, ReadOps, WriteOps
<1> HIDE DEF e
<1>4. Started(e, f, op) /\ f.cb = e.cb BY <1>1, <1>2, <1>3, StartStarts
<1> HIDE DEF f
<1>5. SendOutcome(d, f) BY <1>2, <1>4 DEF SendOutcome, Started
<1> QED BY <1>5 DEF e, f

LEMMA WriteStartOutcome ==
    ASSUME NEW d \in Driver, ~d.over, Idle(d), NEW c PROVE SendOutcome(d, WriteStart(d, c))
<1> DEFINE e == [d EXCEPT !.lock = FALSE, !.sendErr = TRUE]
<1>1. e \in Driver BY DEF Driver
<1>2. ~e.over /\ Rx(e) = Rx(d) /\ e.newMsg = d.newMsg /\ e.irqDbus = d.irqDbus /\ e.cb = d.cb
      /\ ~e.lock /\ Idle(e)
  BY DEF Driver, Rx, Idle
<1>3. SendOutcome(d, e) BY <1>1, <1>2 DEF SendOutcome
<1>4. SendOutcome(d, Start([d EXCEPT !.txState = "WRITE_DONE"], "TXF"))
  BY StartOutcome DEF SendOps, TxStates
<1> QED BY <1>3, <1>4 DEF WriteStart

LEMMA SendReadOutcome ==
    ASSUME NEW d \in Driver, ~d.over, Idle(d), NEW op \in SendOps, NEW s \in TxStates
    PROVE  SendOutcome(d, SendRead(d, op, s))
BY StartOutcome DEF SendRead

LEMMA SendFrameCallbackOutcome ==
    ASSUME NEW d \in Driver, ~d.over, Idle(d), NEW c
    PROVE  SendOutcome(d, SendFrameCallback(d, c))
<1>1. SendOutcome(d, SendAgain(d, "READ_FIFO_STATUS")) /\ SendOutcome(d, SendAgain(d, "WRITE_START"))
  BY SendAgainOutcome DEF TxStates
<1>2. CASE d.txState = "READ_FIFO_STATUS"
  <2> DEFINE e == [d EXCEPT !.sendErr = FALSE]
             f == SendRead(e, "TXEFS", "CHECK_FIFO")
  <2>1. e \in Driver BY DEF Driver
  <2>2. ~e.over /\ Rx(e) = Rx(d) /\ e.newMsg = d.newMsg /\ e.irqDbus = d.irqDbus /\ e.cb = d.cb
        /\ e.lock = d.lock /\ Idle(e)
    BY DEF Driver, Rx, Idle
  <2>3. SendFrameCallback(d, c) = f BY <1>2 DEF SendFrameCallback
  <2> HIDE DEF e
  <2>4. SendOutcome(e, f) BY <2>1, <2>2, SendReadOutcome DEF SendOps, TxStates
  <2> HIDE DEF f
  <2> QED BY <2>2, <2>3, <2>4 DEF SendOutcome
<1>3. CASE d.txState = "CHECK_FIFO"
  BY <1>1, <1>3, SendReadOutcome DEF SendFrameCallback, TxStates, SendOps
<1>4. CASE d.txState \in {"CHECK_FREE_SPACE", "WRITE_START"}
  BY <1>1, <1>4, WriteStartOutcome DEF SendFrameCallback
<1>5. CASE d.txState = "WRITE_DONE"
  <2> DEFINE e == [d EXCEPT !.event = FALSE, !.lock = FALSE]
             f == [e EXCEPT !.txState = "READ_FIFO_STATUS", !.sendErr = FALSE, !.frameSent = TRUE]
  <2>1. e \in Driver BY DEF Driver
  <2>2. ~e.over /\ Rx(e) = Rx(d) /\ e.newMsg = d.newMsg /\ e.irqDbus = d.irqDbus /\ e.cb = d.cb
        /\ ~e.lock /\ Idle(e)
    BY DEF Driver, Rx, Idle
  <2> HIDE DEF e
  <2>3. f \in Driver BY <2>1, ZenonT(30) DEF Driver, TxStates
  <2>4. f.over = e.over /\ Rx(f) = Rx(e) /\ f.newMsg = e.newMsg /\ f.irqDbus = e.irqDbus
        /\ f.cb = e.cb /\ f.lock = e.lock /\ f.op = e.op
    BY <2>1 DEF Driver, Rx
  <2>5. SendOutcome(d, f) BY <2>2, <2>3, <2>4 DEF SendOutcome, Idle
  <2>6. SendFrameCallback(d, c) \in {SendAgain(d, "WRITE_START"), f}
    BY <1>5 DEF SendFrameCallback, Release, e
  <2> QED BY <1>1, <2>5, <2>6
<1> QED BY <1>2, <1>3, <1>4, <1>5 DEF Driver, TxStates

-----------------------------------------------------------------------------
(* The chain that reads a frame.                                           *)

\* It asks for the fill level of the fifo.
LevelAsked(d, e) ==
    /\ e \in Driver /\ ~e.over /\ ~e.bad /\ e.op = "RXF0S" /\ e.rxState = "CHECK_AND_READ"
    /\ e.cb = d.cb /\ e.lock = d.lock /\ e.irqDbus = d.irqDbus
    /\ e.readErr = d.readErr /\ e.notifyLost = d.notifyLost /\ e.readout = d.readout

\* It failed, or found nothing, and waits for the task.
ReadFailure(d, e) ==
    /\ e \in Driver /\ ~e.over /\ Idle(e) /\ e.rxState = "CHECK_STATUS" /\ e.readErr
    /\ e.cb = d.cb /\ e.irqDbus = d.irqDbus /\ e.rxPtr = d.rxPtr
    /\ e.notifyLost = d.notifyLost /\ e.readout = d.readout
    /\ e.newMsg = d.newMsg \/ e.newMsg = 0

\* It reads the first message of the fifo.
FrameAsked(d, e) ==
    /\ d.reg > 0 /\ ~d.bad
    /\ e \in Driver /\ ~e.over /\ ~e.bad /\ e.op = "RXF0" /\ e.hdr = "RXF0"
    /\ e.rxState = IF d.tooBig THEN "CHECK_STATUS_AGAIN" ELSE "PROCESS"
    /\ e.newMsg = d.reg /\ e.cb = d.cb /\ e.lock = d.lock /\ e.irqDbus = d.irqDbus
    /\ e.rxPtr = d.rxPtr /\ e.readErr = d.readErr /\ e.notifyLost = d.notifyLost
    /\ e.readout = d.readout

\* It has read the message, or was sent something that it cannot use.
FrameRead(d, e) ==
    /\ e \in Driver /\ ~e.over /\ Idle(e) /\ ~e.lock /\ e.rxState = "CHECK_STATUS"
    /\ e.cb = d.cb /\ e.irqDbus = d.irqDbus /\ e.readout = d.readout /\ e.rxBuf = d.rxBuf
    /\ e.newMsg = IF d.newMsg > 0 THEN d.newMsg - 1 ELSE 0
    /\ IF d.bad THEN e.readErr /\ e.notifyLost /\ e.rxPtr = d.rxPtr
       ELSE e.rxPtr /\ e.readErr = d.readErr /\ e.notifyLost = d.notifyLost

LEMMA LevelIsAsked ==
    ASSUME NEW d \in Driver, ~d.over
    PROVE  LET e == Start([d EXCEPT !.rxState = "CHECK_AND_READ"], "RXF0S") IN
           LevelAsked(d, e) /\ e.rxPtr = d.rxPtr /\ e.newMsg = d.newMsg
<1> DEFINE e == [d EXCEPT !.rxState = "CHECK_AND_READ"]
           f == Start(e, "RXF0S")
<1>1. e \in Driver BY DEF Driver, RxStates
<1>2. ~e.over /\ e.rxState = "CHECK_AND_READ" /\ e.newMsg = d.newMsg /\ e.irqDbus = d.irqDbus
      /\ e.cb = d.cb /\ e.lock = d.lock /\ e.readErr = d.readErr /\ e.notifyLost = d.notifyLost
      /\ e.readout = d.readout /\ e.rxPtr = d.rxPtr
  BY DEF Driver
<1> HIDE DEF e
<1>3. Started(e, f, "RXF0S") /\ f.cb = e.cb BY <1>1, <1>2, StartStarts DEF ReadOps
<1> HIDE DEF f
<1>4. LevelAsked(d, f) /\ f.rxPtr = d.rxPtr /\ f.newMsg = d.newMsg
  BY <1>2, <1>3 DEF LevelAsked, Started, Rx
<1> QED BY <1>4 DEF e, f

LEMMA ReadAgainFails ==
    ASSUME NEW d \in Driver, ~d.over, Idle(d) PROVE ReadFailure(d, ReadAgain(d))
<1> DEFINE e == [d EXCEPT !.rxState = "CHECK_STATUS", !.readErr = TRUE]
<1>1. e \in Driver BY DEF Driver, RxStates
<1>2. ~e.over /\ Idle(e) /\ e.rxState = "CHECK_STATUS" /\ e.readErr
      /\ e.cb = d.cb /\ e.irqDbus = d.irqDbus /\ e.rxPtr = d.rxPtr
      /\ e.notifyLost = d.notifyLost /\ e.readout = d.readout /\ e.newMsg = d.newMsg
  BY DEF Driver, Idle
<1> QED BY <1>1, <1>2 DEF ReadAgain, ReadFailure

LEMMA CheckAndReadOutcome ==
    ASSUME NEW d \in Driver, ~d.over, Idle(d)
    PROVE  ReadFailure(d, CheckAndRead(d)) \/ FrameAsked(d, CheckAndRead(d))
<1> DEFINE l == [d EXCEPT !.newMsg = d.reg]
           s == [l EXCEPT !.rxState = IF d.tooBig THEN "CHECK_STATUS_AGAIN" ELSE "PROCESS"]
           r == [l EXCEPT !.event = FALSE, !.lock = FALSE]
<1>1. ReadFailure(d, ReadAgain(d)) BY ReadAgainFails
<1>0. d.reg \in Nat BY DbusCanDriverAssumption DEF Driver, Levels
<1>2. l \in Driver BY <1>0 DEF Driver
<1>3. ~l.over /\ Idle(l) /\ l.cb = d.cb /\ l.irqDbus = d.irqDbus /\ l.rxPtr = d.rxPtr /\ l.readErr = d.readErr
      /\ l.notifyLost = d.notifyLost /\ l.readout = d.readout /\ l.newMsg = d.reg /\ l.lock = d.lock
  BY DEF Driver, Idle
<1>4. CheckAndRead(d) \in {ReadAgain(d)} \/ (d.reg = 0 /\ CheckAndRead(d) = ReadAgain(r))
      \/ (d.reg # 0 /\ ~d.bad /\ CheckAndRead(d) = Start(s, "RXF0"))
  BY DEF CheckAndRead, ReadBad, Release, Idle
<1> HIDE DEF l
<1>5. d.reg = 0 => ReadFailure(d, ReadAgain(r))
  <2>1. r \in Driver BY <1>2 DEF Driver
  <2>2. r.over = l.over /\ r.op = l.op /\ r.cb = l.cb /\ r.irqDbus = l.irqDbus /\ r.rxPtr = l.rxPtr
        /\ r.notifyLost = l.notifyLost /\ r.readout = l.readout /\ r.newMsg = l.newMsg
    BY <1>2 DEF Driver
  <2> HIDE DEF r
  <2>3. ReadFailure(r, ReadAgain(r)) BY <1>3, <2>1, <2>2, ReadAgainFails DEF Idle
  <2> QED BY <1>3, <2>2, <2>3 DEF ReadFailure
<1>6. d.reg # 0 /\ ~d.bad => FrameAsked(d, Start(s, "RXF0"))
  <2>1. s \in Driver BY <1>2 DEF Driver, RxStates
  <2>2. s.over = l.over /\ s.cb = l.cb /\ s.irqDbus = l.irqDbus /\ s.rxPtr = l.rxPtr /\ s.readErr = l.readErr
        /\ s.notifyLost = l.notifyLost /\ s.readout = l.readout /\ s.newMsg = l.newMsg /\ s.lock = l.lock
        /\ s.rxState = IF d.tooBig THEN "CHECK_STATUS_AGAIN" ELSE "PROCESS"
    BY <1>2 DEF Driver
  <2> HIDE DEF s
  <2> DEFINE f == Start(s, "RXF0")
  <2>3. Started(s, f, "RXF0") /\ f.cb = s.cb BY <1>3, <2>1, <2>2, StartStarts DEF ReadOps
  <2>4. f.hdr = "RXF0" BY <2>3 DEF Started, ReadOps
  <2> HIDE DEF f
  <2> QED BY <1>0, <1>3, <2>2, <2>3, <2>4 DEF FrameAsked, Started, Rx, f
<1> QED BY <1>1, <1>4, <1>5, <1>6

LEMMA OneLessIs ==
    ASSUME NEW d \in Driver
    PROVE  LET e == OneLess(d) IN
           /\ e \in Driver /\ e.newMsg = IF d.newMsg > 0 THEN d.newMsg - 1 ELSE 0
           /\ Rx(e) = Rx(d) /\ e.over = d.over /\ e.op = d.op /\ e.cb = d.cb /\ e.lock = d.lock
           /\ e.irqDbus = d.irqDbus /\ e.hdr = d.hdr /\ e.bad = d.bad
<1> DEFINE n == IF d.newMsg > 0 THEN d.newMsg - 1 ELSE 0
           e == [d EXCEPT !.newMsg = n]
<1>1. n \in Nat BY DEF Driver
<1>2. OneLess(d) = e BY DEF OneLess
<1> HIDE DEF n
<1>3. e \in Driver BY <1>1 DEF Driver
<1>4. e.newMsg = n /\ Rx(e) = Rx(d) /\ e.over = d.over /\ e.op = d.op /\ e.cb = d.cb /\ e.lock = d.lock
      /\ e.irqDbus = d.irqDbus /\ e.hdr = d.hdr /\ e.bad = d.bad
  BY DEF Driver, Rx
<1> QED BY <1>2, <1>3, <1>4 DEF n

LEMMA ReadFrameCallbackOutcome ==
    ASSUME NEW d \in Driver, ~d.over, Idle(d)
    PROVE  LET e == ReadFrameCallback(d) IN
           /\ d.rxState = "CHECK_STATUS" => LevelAsked(d, e) /\ ~e.rxPtr /\ e.newMsg = d.newMsg
           /\ d.rxState = "CHECK_AND_READ" => ReadFailure(d, e) \/ FrameAsked(d, e)
           /\ d.rxState = "PROCESS" /\ d.hdr = "RXF0" => FrameRead(d, e)
           /\ d.rxState = "CHECK_STATUS_AGAIN" =>
                 /\ LevelAsked(d, e) /\ e.rxPtr = d.rxPtr
                 /\ e.newMsg = IF d.newMsg > 0 THEN d.newMsg - 1 ELSE 0
<1> DEFINE o == OneLess(d)
<1>1. /\ o \in Driver /\ o.newMsg = IF d.newMsg > 0 THEN d.newMsg - 1 ELSE 0
      /\ Rx(o) = Rx(d) /\ o.over = d.over /\ o.op = d.op /\ o.cb = d.cb /\ o.lock = d.lock
      /\ o.irqDbus = d.irqDbus /\ o.hdr = d.hdr /\ o.bad = d.bad
  BY OneLessIs
<1> HIDE DEF o
<1>2. CASE d.rxState = "CHECK_STATUS"
  <2> DEFINE n == [d EXCEPT !.rxPtr = FALSE]
             f == Start([n EXCEPT !.rxState = "CHECK_AND_READ"], "RXF0S")
  <2>1. n \in Driver BY DEF Driver
  <2>2. ~n.over /\ Idle(n) /\ ~n.rxPtr /\ n.newMsg = d.newMsg /\ n.cb = d.cb /\ n.lock = d.lock
        /\ n.irqDbus = d.irqDbus /\ n.readErr = d.readErr /\ n.notifyLost = d.notifyLost
        /\ n.readout = d.readout
    BY DEF Driver, Idle
  <2>3. ReadFrameCallback(d) = f BY <1>2, <2>2 DEF ReadFrameCallback
  <2> HIDE DEF n
  <2>4. LevelAsked(n, f) /\ f.rxPtr = n.rxPtr /\ f.newMsg = n.newMsg BY <2>1, <2>2, LevelIsAsked
  <2> HIDE DEF f
  <2> QED BY <1>2, <2>2, <2>3, <2>4 DEF LevelAsked
<1>3. CASE d.rxState = "CHECK_AND_READ"
  BY <1>3, CheckAndReadOutcome DEF ReadFrameCallback
<1>4. CASE d.rxState = "PROCESS" /\ d.hdr = "RXF0"
  <2> DEFINE r == [o EXCEPT !.event = FALSE, !.lock = FALSE]
             e == [r EXCEPT !.rxState = "CHECK_STATUS"]
             l == [e EXCEPT !.readErr = TRUE, !.notifyLost = TRUE]
             g == [e EXCEPT !.rxPtr = TRUE]
  <2>1. ReadFrameCallback(d) = IF d.bad THEN l ELSE g
    BY <1>4 DEF ReadFrameCallback, ReadBad, NotRead, Release, o, Driver
  <2>2. r \in Driver BY <1>1, ZenonT(30) DEF Driver
  <2>3. Rx(r) = Rx(d) /\ r.over = d.over /\ r.op = d.op /\ r.cb = d.cb /\ ~r.lock
        /\ r.irqDbus = d.irqDbus /\ r.newMsg = o.newMsg
    BY <1>1 DEF Driver, Rx
  <2> HIDE DEF r
  <2>4. e \in Driver BY <2>2 DEF Driver, RxStates
  <2>5. /\ e.rxState = "CHECK_STATUS" /\ e.rxPtr = d.rxPtr /\ e.rxBuf = d.rxBuf /\ e.readErr = d.readErr
        /\ e.notifyLost = d.notifyLost /\ e.readout = d.readout
        /\ e.over = d.over /\ e.op = d.op /\ e.cb = d.cb /\ ~e.lock
        /\ e.irqDbus = d.irqDbus /\ e.newMsg = o.newMsg
    BY <2>2, <2>3 DEF Driver, Rx
  <2> HIDE DEF e
  <2>6. l \in Driver /\ g \in Driver BY <2>4 DEF Driver
  <2>7. /\ l.rxState = e.rxState /\ l.rxPtr = e.rxPtr /\ l.rxBuf = e.rxBuf /\ l.readErr /\ l.notifyLost
        /\ l.readout = e.readout /\ l.over = e.over /\ l.op = e.op /\ l.cb = e.cb
        /\ l.lock = e.lock /\ l.irqDbus = e.irqDbus /\ l.newMsg = e.newMsg
    BY <2>4 DEF Driver
  <2>8. /\ g.rxState = e.rxState /\ g.rxPtr /\ g.rxBuf = e.rxBuf /\ g.readErr = e.readErr
        /\ g.notifyLost = e.notifyLost /\ g.readout = e.readout /\ g.over = e.over /\ g.op = e.op
        /\ g.cb = e.cb /\ g.lock = e.lock /\ g.irqDbus = e.irqDbus /\ g.newMsg = e.newMsg
    BY <2>4 DEF Driver
  <2> HIDE DEF l, g
  <2>9. d.bad => FrameRead(d, l) BY <1>1, <2>5, <2>6, <2>7 DEF FrameRead, Idle
  <2>10. ~d.bad => FrameRead(d, g) BY <1>1, <2>5, <2>6, <2>8 DEF FrameRead, Idle
  <2> QED BY <1>4, <2>1, <2>9, <2>10
<1>5. CASE d.rxState = "CHECK_STATUS_AGAIN"
  <2> DEFINE f == Start([o EXCEPT !.rxState = "CHECK_AND_READ"], "RXF0S")
  <2>1. ReadFrameCallback(d) = f BY <1>1, <1>5 DEF ReadFrameCallback, Idle, o
  <2>2. LevelAsked(o, f) /\ f.rxPtr = o.rxPtr /\ f.newMsg = o.newMsg BY <1>1, LevelIsAsked
  <2> HIDE DEF f
  <2> QED BY <1>1, <1>5, <2>1, <2>2 DEF LevelAsked, Rx
<1> QED BY <1>2, <1>3, <1>4, <1>5

-----------------------------------------------------------------------------
(* The invariant of receiving.                                             *)

One(b) == IF b THEN 1 ELSE 0

Chip == [rx : Seq(1 .. MaxRx), tx : Seq(0 .. MaxTx), txs : Seq(Statuses),
         global : SUBSET {"SPIERR"}, dbus : SUBSET {"RF0N", "TEFN"}]

\* TypeOK, with the types of the fields; what it says of newMsg and lost follows
\* from Counted and Told.
Types ==
    /\ drv \in Driver /\ chip \in Chip
    /\ Len(chip.rx) <= RxFifoMax /\ Len(chip.tx) <= FifoMax /\ Len(chip.txs) <= FifoMax
    /\ dll \in {"IDLE", "MSG_TO_SEND", "WAIT_FOR_MSG_DELIVERY"} /\ pending \in BOOLEAN
    /\ turn \in {"send", "sendLocked", "irq", "irqLocked", "read", "readLocked"}
    /\ faults \in 0 .. MaxFaults /\ submitted \in 0 .. MaxTx /\ received \in 0 .. MaxRx
    /\ report \in [msg : 0 .. MaxTx, of : 0 .. MaxTx] /\ written \in 0 .. MaxTx
    /\ delivered \in Seq(0 .. MaxRx) /\ lost \in Nat
    /\ repeated \in BOOLEAN /\ crossed \in BOOLEAN /\ raced \in BOOLEAN

Reading(d) == ~Idle(d) /\ d.cb = "read"

\* The first message of the fifo is being read, to be kept or to be thrown away.
Emptying(d) == d.rxState \in {"PROCESS", "CHECK_STATUS_AGAIN"}

\* Which transfer belongs to which callback, and where the reading chain is.
Control(d) ==
    /\ d.over => ~Idle(d)
    /\ ~Idle(d) => \/ d.cb \in {"send", "read"} /\ d.op \in SendOps \cup {"RXF0S"}
                   \/ d.cb = "read" /\ d.op = "RXF0"
                   \/ <<d.cb, d.op>> \in IrqSteps
    /\ (Idle(d) \/ d.cb \in {"send", "read"} \/ (d.op = "IRQ" /\ ~d.over)) => d.irqDbus = {}
    /\ ~Idle(d) /\ d.cb = "handleDbus" => d.crcCheck
    /\ d.readout => d.rxState = "CHECK_STATUS" /\ ~d.rxPtr /\ ~d.readErr
    /\ Emptying(d) => d.cb = "read" /\ d.op = "RXF0" /\ d.hdr = "RXF0"
    /\ d.op = "RXF0" => Emptying(d)
    /\ d.rxState = "CHECK_AND_READ" /\ d.cb = "read" => d.op = "RXF0S"
    /\ d.rxPtr => d.rxState = "CHECK_STATUS"
    /\ d.readErr => d.rxState = "CHECK_STATUS" \/ Reading(d)
    /\ d.cb = "read" /\ d.lock => ~d.rxPtr /\ ~d.readout
    /\ d.lock /\ Idle(d) => d.cb \in {"send", "read"}

\* A read that failed is going on only for the rest of a turn of sending; a
\* message and an error meet only there.
Turns ==
    /\ drv.readErr /\ Reading(drv) => turn = "irq"
    /\ drv.readErr /\ drv.rxPtr => /\ turn \in {"irq", "read"}
                                   /\ drv.lock => ~Idle(drv) /\ drv.cb \notin {"send", "read"}

\* The last message taken out of the chip.
Gone == received - Len(chip.rx)

\* It is to be handed on.
IsNext(m) ==
    /\ m = Gone /\ m \in (1 .. MaxRx) \ Big
    /\ \A i \in 1 .. Len(delivered) : delivered[i] < m

\* The messages in the chip are the last ones received, in their order.
InChip ==
    /\ Gone \in Nat
    /\ \A i \in 1 .. Len(chip.rx) : chip.rx[i] = Gone + i

Intact ==
    /\ \A i \in 1 .. Len(delivered) : delivered[i] \in (1 .. Gone) \ Big
    /\ \A i, j \in 1 .. Len(delivered) : i < j => delivered[i] < delivered[j]

\* What the reading chain knows of the first message of the fifo.
FirstKnown ==
    /\ drv.op = "RXF0S" /\ drv.over /\ ~drv.bad =>
          /\ drv.reg <= Len(chip.rx)
          /\ drv.reg > 0 => (drv.tooBig <=> Head(chip.rx) \in Big)
    /\ Emptying(drv) /\ ~drv.over =>
          chip.rx # <<>> /\ (drv.rxState = "PROCESS" <=> Head(chip.rx) \notin Big)
    /\ drv.rxState = "PROCESS" /\ drv.over /\ ~drv.bad => IsNext(drv.rxBuf)
    /\ drv.rxPtr => IsNext(drv.rxBuf)

\* No message is counted twice, in newMsg, in the flags read or in the chip.
Counted ==
    /\ "RF0N" \in chip.dbus => received >= 1
    /\ drv.cb # "finish" /\ ~(drv.cb = "handleDbus" /\ drv.over) => drv.irqDbus \subseteq chip.dbus
    /\ IF Emptying(drv) THEN drv.newMsg <= received
       ELSE drv.newMsg + One(drv.op = "IR" /\ drv.over /\ ~drv.bad /\ "RF0N" \in drv.irqDbus)
              + One("RF0N" \in chip.dbus) <= received

\* Every loss that is told, or is to be told, is a failed transfer.
Told ==
    /\ ~Idle(drv) /\ ~drv.over => ~drv.bad
    /\ lost + One(drv.notifyLost) + One(drv.over /\ drv.bad) <= faults

\* The messages that fit the buffer, among the first n.
Fitting(n) == Cardinality({m \in 1 .. n : m \notin Big})

LEMMA FittingNat == ASSUME NEW n \in Nat PROVE Fitting(n) \in Nat
<1>1. IsFiniteSet(1 .. n) BY FS_Interval
<1>2. IsFiniteSet({m \in 1 .. n : m \notin Big})
  <2>1. {m \in 1 .. n : m \notin Big} \subseteq 1 .. n OBVIOUS
  <2> QED BY <1>1, <2>1, FS_Subset
<1> QED BY <1>2, FS_CardinalityType DEF Fitting

LEMMA FittingNext ==
    ASSUME NEW n \in Nat
    PROVE  Fitting(n + 1) = IF n + 1 \in Big THEN Fitting(n) ELSE Fitting(n) + 1
<1> DEFINE S == {m \in 1 .. n : m \notin Big}
           T == {m \in 1 .. n + 1 : m \notin Big}
<1>1. IsFiniteSet(S)
  <2>1. IsFiniteSet(1 .. n) BY FS_Interval
  <2>2. S \subseteq 1 .. n OBVIOUS
  <2> QED BY <2>1, <2>2, FS_Subset
<1>2. CASE n + 1 \in Big
  <2>1. T = S BY <1>2
  <2> QED BY <1>2, <2>1 DEF Fitting
<1>3. CASE n + 1 \notin Big
  <2>1. T = S \cup {n + 1} BY <1>3
  <2>2. n + 1 \notin S OBVIOUS
  <2> QED BY <1>1, <1>3, <2>1, <2>2, FS_AddElement DEF Fitting
<1> QED BY <1>2, <1>3

\* While every chain goes on under its own lock, a message taken out of the chip
\* was handed on, told to be lost, or is about to be.
Accounted ==
    ~crossed =>
        /\ ~(Reading(drv) /\ drv.readErr)
        /\ drv.notifyLost => drv.readErr /\ ~(drv.cb = "read" /\ drv.lock)
        /\ ~(drv.rxPtr /\ drv.readErr)
        /\ Fitting(Gone) <= Len(delivered) + lost + One(drv.rxPtr) + One(drv.notifyLost)
                              + One(drv.rxState = "PROCESS" /\ drv.over)

ReadInv == Control(drv) /\ Turns /\ InChip /\ Intact /\ FirstKnown /\ Counted /\ Told /\ Accounted

\* Another chain starts, goes on or ends, and the reading chain rests.
Aside ==
    /\ drv' \in Driver /\ ~drv'.over /\ Rx(drv') = Rx(drv) /\ drv'.newMsg = drv.newMsg
    /\ drv.irqDbus = {} /\ drv'.irqDbus = {}
    /\ ~Emptying(drv) /\ ~Reading(drv)
    /\ \/ Idle(drv')
       \/ ~drv'.bad /\ drv'.cb \in {"send", "read"} /\ drv'.op \in SendOps
       \/ ~drv'.bad /\ drv'.cb = "handleGlobal" /\ drv'.op = "IRQ"
    /\ UNCHANGED <<chip, received, faults, lost, delivered>>

LEMMA AsideKeeps ==
    ASSUME Types, ReadInv, Aside, crossed' \/ ~crossed',
           drv'.cb = "read" => /\ drv.rxState = "CHECK_STATUS"
                               /\ drv'.lock => drv.cb = "read" /\ drv.lock,
           drv'.lock /\ Idle(drv') => drv'.cb \in {"send", "read"},
           ~crossed' => ~crossed /\ ~(Reading(drv') /\ drv'.readErr)
    PROVE  Control(drv)' /\ InChip' /\ Intact' /\ FirstKnown' /\ Counted' /\ Told' /\ Accounted'
<1> USE DEF ReadInv, Aside
<1>0. /\ drv'.rxState = drv.rxState /\ drv'.rxPtr = drv.rxPtr /\ drv'.rxBuf = drv.rxBuf
      /\ drv'.readErr = drv.readErr /\ drv'.notifyLost = drv.notifyLost /\ drv'.readout = drv.readout
  BY DEF Rx
<1>1. Control(drv)'
  BY <1>0 DEF Control, Emptying, Reading, Idle, IrqSteps, SendOps, NoTransfer
<1>2. InChip' /\ Intact' BY DEF InChip, Intact, Gone
<1>3. FirstKnown'
  BY <1>0 DEF FirstKnown, IsNext, Gone, Emptying, SendOps, Idle
<1>4. Counted'
  <2>1. One("RF0N" \in chip'.dbus) = One("RF0N" \in chip.dbus) OBVIOUS
  <2>2. One(drv'.op = "IR" /\ drv'.over /\ ~drv'.bad /\ "RF0N" \in drv'.irqDbus) = 0 BY DEF One
  <2>3. One(drv.op = "IR" /\ drv.over /\ ~drv.bad /\ "RF0N" \in drv.irqDbus) = 0 BY DEF One
  <2>4. ~Emptying(drv') BY <1>0 DEF Emptying
  <2> QED BY <2>1, <2>2, <2>3, <2>4 DEF Counted
<1>5. Told'
  <2>1. One(drv'.over /\ drv'.bad) = 0 /\ One(drv.over /\ drv.bad) \in {0, 1}
        /\ One(drv'.notifyLost) = One(drv.notifyLost) /\ One(drv.notifyLost) \in {0, 1}
    BY <1>0 DEF One
  <2>2. ~Idle(drv') /\ ~drv'.over => ~drv'.bad OBVIOUS
  <2> QED BY <2>1, <2>2 DEF Told, Types
<1>6. Accounted'
  <2>1. Gone' = Gone BY DEF Gone
  <2>2. One(drv'.rxState = "PROCESS" /\ drv'.over) = One(drv.rxState = "PROCESS" /\ drv.over)
    BY <1>0 DEF One, Emptying
  <2> QED BY <1>0, <2>1, <2>2 DEF Accounted
<1> QED BY <1>1, <1>2, <1>3, <1>4, <1>5, <1>6

-----------------------------------------------------------------------------
(* The callbacks of finished transfers.                                    *)

\* The driver when SPI_Handler calls the callback.
Ended == [drv EXCEPT !.op = NoTransfer, !.over = FALSE]

LEMMA EndedIs ==
    ASSUME Types
    PROVE  /\ Ended \in Driver /\ ~Ended.over /\ Idle(Ended) /\ Rx(Ended) = Rx(drv)
           /\ Ended.newMsg = drv.newMsg /\ Ended.cb = drv.cb /\ Ended.lock = drv.lock
           /\ Ended.irqDbus = drv.irqDbus /\ Ended.hdr = drv.hdr /\ Ended.bad = drv.bad
           /\ Ended.reg = drv.reg /\ Ended.tooBig = drv.tooBig /\ Ended.crcCheck = drv.crcCheck
<1>1. Ended \in Driver BY DEF Types, Ended, Driver, Ops
<1>2. /\ ~Ended.over /\ Idle(Ended) /\ Rx(Ended) = Rx(drv)
      /\ Ended.newMsg = drv.newMsg /\ Ended.cb = drv.cb /\ Ended.lock = drv.lock
      /\ Ended.irqDbus = drv.irqDbus /\ Ended.hdr = drv.hdr /\ Ended.bad = drv.bad
      /\ Ended.reg = drv.reg /\ Ended.tooBig = drv.tooBig /\ Ended.crcCheck = drv.crcCheck
  BY DEF Types, Ended, Driver, Idle, Rx
<1> QED BY <1>1, <1>2

\* The fields of the reading chain, one by one.
LEMMA RxFields ==
    ASSUME NEW d, NEW e, Rx(e) = Rx(d)
    PROVE  /\ e.rxState = d.rxState /\ e.rxPtr = d.rxPtr /\ e.rxBuf = d.rxBuf
           /\ e.readErr = d.readErr /\ e.notifyLost = d.notifyLost /\ e.readout = d.readout
BY DEF Rx

\* What a callback leaves alone, but for the driver's own variables.
Others == <<chip, received, faults, lost, delivered, turn, crossed>>

LEMMA IrqCallbackKeeps ==
    ASSUME Types, ReadInv, ~Idle(drv), drv.over, drv.cb \notin {"send", "read"},
           drv' = Callback(Ended, chip), UNCHANGED Others
    PROVE  ReadInv' /\ drv' \in Driver
<1> DEFINE d == Ended
<1>1. /\ d \in Driver /\ ~d.over /\ Idle(d) /\ Rx(d) = Rx(drv)
      /\ d.newMsg = drv.newMsg /\ d.cb = drv.cb /\ d.irqDbus = drv.irqDbus /\ d.bad = drv.bad
      /\ d.crcCheck = drv.crcCheck
  BY EndedIs
<1>2. <<drv.cb, drv.op>> \in IrqSteps BY DEF ReadInv, Control
<1>3. drv.cb = "handleDbus" => drv.op = "IR" /\ d.crcCheck
  BY <1>1, <1>2 DEF IrqSteps, ReadInv, Control
<1> HIDE DEF d
<1>4. IrqOutcome(d, drv')
  <2>1. drv' = Callback(d, chip) BY DEF d
  <2>2. drv.cb \in {"handleGlobal", "readSpi", "clearSpi", "clearDbus", "handleDbus", "finish"}
    BY <1>2 DEF IrqSteps
  <2>3. CASE drv.cb = "handleGlobal"
    BY <1>1, <2>1, <2>3, HandleGlobalFlagsOutcome DEF Callback
  <2>4. CASE drv.cb = "readSpi"
    BY <1>1, <2>1, <2>4, ReadSpiFlagsOutcome DEF Callback
  <2>5. CASE drv.cb = "clearSpi"
    BY <1>1, <2>1, <2>5, ClearSpiFlagsOutcome DEF Callback
  <2>6. CASE drv.cb = "clearDbus"
    BY <1>1, <2>1, <2>6, ClearDbusFlagsOutcome DEF Callback
  <2>7. CASE drv.cb = "handleDbus"
    BY <1>1, <1>3, <2>1, <2>7, HandleDbusFlagsOutcome DEF Callback
  <2>8. CASE drv.cb = "finish"
    BY <1>1, <2>1, <2>8, FinishOutcome DEF Callback
  <2> QED BY <2>2, <2>3, <2>4, <2>5, <2>6, <2>7, <2>8
<1>5. /\ drv'.rxState = drv.rxState /\ drv'.rxPtr = drv.rxPtr /\ drv'.rxBuf = drv.rxBuf
      /\ drv'.readErr = drv.readErr /\ drv'.notifyLost = drv.notifyLost /\ drv'.readout = drv.readout
  BY <1>1, <1>4, RxFields DEF IrqOutcome
<1>6. /\ drv' \in Driver /\ ~drv'.over
      /\ \/ drv'.newMsg = drv.newMsg
         \/ drv.cb = "handleDbus" /\ ~drv.bad /\ "RF0N" \in drv.irqDbus /\ drv'.newMsg = drv.newMsg + 1
      /\ \/ Idle(drv') /\ ~drv'.lock /\ drv'.irqDbus = {} /\ drv'.cb = drv.cb
         \/ /\ <<drv'.cb, drv'.op>> \in IrqSteps /\ drv'.op # "IRQ" /\ ~drv'.bad /\ drv'.irqDbus = drv.irqDbus
            /\ drv.cb # "finish" /\ (drv'.cb = "finish" <=> drv.cb = "handleDbus")
            /\ drv'.cb = "handleDbus" => drv'.crcCheck
  BY <1>1, <1>4 DEF IrqOutcome
<1> HIDE <1>4
<1>7. ~Emptying(drv) /\ ~Emptying(drv') /\ ~Reading(drv) /\ ~Reading(drv')
  BY <1>5, <1>6 DEF ReadInv, Control, Emptying, Reading, IrqSteps
<1>8. Control(drv)'
  BY <1>5, <1>6, <1>7 DEF ReadInv, Control, Idle, IrqSteps, NoTransfer, Emptying
<1>9. Turns'
  <2>1. drv'.cb \notin {"send", "read"} BY <1>6 DEF IrqSteps
  <2>2. drv'.lock => ~Idle(drv') BY <1>6 DEF Idle, IrqSteps, NoTransfer
  <2>3. turn' = turn /\ (drv'.readErr <=> drv.readErr) /\ (drv'.rxPtr <=> drv.rxPtr)
    BY <1>5 DEF Others
  <2> QED BY <1>7, <2>1, <2>2, <2>3 DEF ReadInv, Turns
<1>10. InChip' /\ Intact' BY DEF ReadInv, InChip, Intact, Gone, Others
<1>11. FirstKnown' BY <1>5, <1>6, <1>7 DEF ReadInv, FirstKnown, IsNext, Gone, Others, Emptying
<1>12. Counted'
  <2>1. One(drv'.op = "IR" /\ drv'.over /\ ~drv'.bad /\ "RF0N" \in drv'.irqDbus) = 0 BY <1>6 DEF One
  <2>2. One(drv.op = "IR" /\ drv.over /\ ~drv.bad /\ "RF0N" \in drv.irqDbus) \in {0, 1} BY DEF One
  <2>3. drv'.newMsg + One("RF0N" \in chip.dbus) <= received
    <3>1. drv.cb = "handleDbus" /\ ~drv.bad /\ "RF0N" \in drv.irqDbus =>
          One(drv.op = "IR" /\ drv.over /\ ~drv.bad /\ "RF0N" \in drv.irqDbus) = 1
      BY <1>3 DEF One
    <3>2. drv.newMsg \in Nat /\ received \in Nat /\ One("RF0N" \in chip.dbus) \in Nat BY DEF Types, Driver, One
    <3> QED BY <1>6, <1>7, <2>2, <3>1, <3>2 DEF ReadInv, Counted
  <2>4. drv'.newMsg \in Nat /\ received \in Nat /\ One("RF0N" \in chip.dbus) \in Nat
    BY <1>6 DEF Types, Driver, One
  <2>5. drv'.cb # "finish" /\ ~(drv'.cb = "handleDbus" /\ drv'.over) => drv'.irqDbus \subseteq chip.dbus
    BY <1>6 DEF ReadInv, Counted
  <2> QED BY <1>7, <2>1, <2>3, <2>4, <2>5 DEF ReadInv, Counted, Others
<1>13. Told'
  <2>1. One(drv'.over /\ drv'.bad) = 0 /\ One(drv.over /\ drv.bad) \in {0, 1}
        /\ One(drv'.notifyLost) = One(drv.notifyLost) /\ One(drv.notifyLost) \in {0, 1}
    BY <1>5, <1>6 DEF One
  <2>2. ~Idle(drv') /\ ~drv'.over => ~drv'.bad BY <1>6
  <2> QED BY <2>1, <2>2 DEF ReadInv, Told, Types, Others
<1>14. Accounted'
  <2>1. Gone' = Gone BY DEF Gone, Others
  <2>2. One(drv'.rxState = "PROCESS" /\ drv'.over) = One(drv.rxState = "PROCESS" /\ drv.over)
    BY <1>5, <1>7 DEF One, Emptying
  <2>3. drv'.cb # "read" BY <1>6 DEF IrqSteps
  <2> QED BY <1>5, <1>7, <2>1, <2>2, <2>3 DEF ReadInv, Accounted, Others
<1> QED BY <1>6, <1>8, <1>9, <1>10, <1>11, <1>12, <1>13, <1>14 DEF ReadInv

LEMMA SendCallbackKeeps ==
    ASSUME Types, ReadInv, ~Idle(drv), drv.over, drv.cb = "send",
           drv' = Callback(Ended, chip), UNCHANGED Others
    PROVE  ReadInv' /\ drv' \in Driver
<1> DEFINE d == Ended
<1>1. /\ d \in Driver /\ ~d.over /\ Idle(d) /\ Rx(d) = Rx(drv)
      /\ d.newMsg = drv.newMsg /\ d.cb = drv.cb /\ d.irqDbus = drv.irqDbus /\ d.lock = drv.lock
  BY EndedIs
<1> HIDE DEF d
<1>2. SendOutcome(d, drv')
  <2>1. drv' = SendFrameCallback(d, chip) BY <1>1 DEF d, Callback
  <2> QED BY <1>1, <2>1, SendFrameCallbackOutcome
<1>3. drv' \in Driver /\ drv'.cb = "send" /\ (drv'.lock => drv.lock) /\ Rx(drv') = Rx(drv)
  BY <1>1, <1>2 DEF SendOutcome
<1>4. Aside
  <2>1. ~Emptying(drv) /\ ~Reading(drv) /\ drv.irqDbus = {} BY DEF ReadInv, Control, Reading
  <2> QED BY <1>1, <1>2, <2>1 DEF Aside, SendOutcome, Others
<1>5. Turns'
  BY <1>3, <1>4, RxFields DEF ReadInv, Turns, Others, Reading
<1>6. crossed' = crossed /\ ~Reading(drv') BY <1>3 DEF Others, Reading
<1> QED BY <1>3, <1>4, <1>5, <1>6, AsideKeeps DEF ReadInv

\* What the invariant says when a transfer of the reading chain ends.
LEMMA ReadEnded ==
    ASSUME Types, LockInv, ReadInv, ~Idle(drv), drv.over, drv.cb = "read"
    PROVE  /\ drv.lock /\ ~drv.rxPtr /\ ~drv.readout /\ drv.irqDbus = {}
           /\ Reading(drv) /\ (drv.readErr => turn = "irq")
           /\ ~crossed => ~drv.readErr /\ ~drv.notifyLost
           /\ drv.newMsg \in Nat /\ received \in Nat /\ lost \in Nat /\ faults \in Nat
           /\ drv.op # "IR" /\ "RF0N" \in chip.dbus => received >= 1
<1>1. drv.lock BY DEF LockInv, Good
<1>2. Reading(drv) BY DEF Reading
<1>3. drv.op # "IR" BY DEF ReadInv, Control, SendOps, IrqSteps
<1> QED BY <1>1, <1>2, <1>3 DEF ReadInv, Control, Turns, Accounted, Counted, Types, Driver

LEMMA LevelAskedKeeps ==
    ASSUME Types, LockInv, ReadInv, ~Idle(drv), drv.over, drv.cb = "read", UNCHANGED Others,
           LevelAsked(Ended, drv'), ~drv'.rxPtr, drv.rxState # "PROCESS",
           drv'.newMsg = IF Emptying(drv) /\ drv.newMsg > 0 THEN drv.newMsg - 1
                         ELSE IF Emptying(drv) THEN 0 ELSE drv.newMsg
    PROVE  ReadInv' /\ drv' \in Driver
<1>1. /\ drv.lock /\ ~drv.rxPtr /\ ~drv.readout /\ drv.irqDbus = {}
      /\ Reading(drv) /\ (drv.readErr => turn = "irq")
      /\ ~crossed => ~drv.readErr /\ ~drv.notifyLost
      /\ drv.newMsg \in Nat /\ received \in Nat /\ lost \in Nat /\ faults \in Nat
      /\ drv.op # "IR" /\ "RF0N" \in chip.dbus => received >= 1
  BY ReadEnded
<1>2. /\ drv' \in Driver /\ ~drv'.over /\ ~drv'.bad /\ drv'.op = "RXF0S"
      /\ drv'.rxState = "CHECK_AND_READ" /\ drv'.cb = "read" /\ drv'.lock /\ drv'.irqDbus = {}
      /\ drv'.readErr = drv.readErr /\ drv'.notifyLost = drv.notifyLost /\ ~drv'.readout
  BY <1>1, EndedIs, RxFields, ZenonT(30) DEF LevelAsked
<1>3. ~Emptying(drv') /\ Reading(drv') /\ ~Idle(drv')
  BY <1>2 DEF Emptying, Reading, Idle, NoTransfer
<1>4. Control(drv)' BY <1>1, <1>2, <1>3 DEF Control
<1>5. Turns' BY <1>1, <1>2 DEF Turns, Others
<1>6. InChip' /\ Intact' BY DEF ReadInv, InChip, Intact, Gone, Others
<1>7. FirstKnown' BY <1>2, <1>3 DEF FirstKnown
<1>8. Counted'
  <2>1. One(drv'.op = "IR" /\ drv'.over /\ ~drv'.bad /\ "RF0N" \in drv'.irqDbus) = 0 BY <1>2 DEF One
  <2>2. One(drv.op = "IR" /\ drv.over /\ ~drv.bad /\ "RF0N" \in drv.irqDbus) = 0 BY <1>1 DEF One
  <2>3. One("RF0N" \in chip.dbus) <= received /\ One("RF0N" \in chip.dbus) \in {0, 1}
    BY <1>1 DEF One, ReadInv, Counted
  <2>4. drv'.newMsg + One("RF0N" \in chip.dbus) <= received
    BY <1>1, <2>2, <2>3 DEF ReadInv, Counted
  <2> QED BY <1>1, <1>2, <1>3, <2>1, <2>3, <2>4 DEF ReadInv, Counted, Others, Driver
<1>9. Told'
  <2>1. One(drv'.over /\ drv'.bad) = 0 /\ One(drv.over /\ drv.bad) \in {0, 1}
        /\ One(drv'.notifyLost) = One(drv.notifyLost) /\ One(drv.notifyLost) \in {0, 1}
    BY <1>2 DEF One
  <2> QED BY <1>1, <1>2, <2>1 DEF ReadInv, Told, Others
<1>10. Accounted'
  <2>1. Gone' = Gone BY DEF Gone, Others
  <2>2. One(drv'.rxState = "PROCESS" /\ drv'.over) = One(drv.rxState = "PROCESS" /\ drv.over)
        /\ One(drv'.rxPtr) = One(drv.rxPtr)
    BY <1>1, <1>2 DEF One
  <2> QED BY <1>1, <1>2, <2>1, <2>2 DEF ReadInv, Accounted, Others
<1> QED BY <1>2, <1>4, <1>5, <1>6, <1>7, <1>8, <1>9, <1>10 DEF ReadInv

LEMMA ReadFailureKeeps ==
    ASSUME Types, LockInv, ReadInv, ~Idle(drv), drv.over, drv.cb = "read", UNCHANGED Others,
           ReadFailure(Ended, drv'), ~Emptying(drv)
    PROVE  ReadInv' /\ drv' \in Driver
<1>1. /\ drv.lock /\ ~drv.rxPtr /\ ~drv.readout /\ drv.irqDbus = {}
      /\ Reading(drv) /\ (drv.readErr => turn = "irq")
      /\ ~crossed => ~drv.readErr /\ ~drv.notifyLost
      /\ drv.newMsg \in Nat /\ received \in Nat /\ lost \in Nat /\ faults \in Nat
      /\ drv.op # "IR" /\ "RF0N" \in chip.dbus => received >= 1
  BY ReadEnded
<1>2. /\ drv' \in Driver /\ ~drv'.over /\ Idle(drv') /\ drv'.readErr
      /\ drv'.rxState = "CHECK_STATUS" /\ drv'.cb = "read" /\ drv'.irqDbus = {} /\ ~drv'.rxPtr
      /\ drv'.notifyLost = drv.notifyLost /\ ~drv'.readout
      /\ drv'.newMsg = drv.newMsg \/ drv'.newMsg = 0
  BY <1>1, EndedIs, RxFields DEF ReadFailure
<1>3. ~Emptying(drv') /\ ~Reading(drv') /\ drv'.op \notin {"IR", "RXF0", "RXF0S"}
  BY <1>2 DEF Emptying, Reading, Idle, NoTransfer
<1>4. Control(drv)' BY <1>1, <1>2, <1>3 DEF Control
<1>5. Turns' BY <1>2, <1>3 DEF Turns
<1>6. InChip' /\ Intact' BY DEF ReadInv, InChip, Intact, Gone, Others
<1>7. FirstKnown' BY <1>2, <1>3 DEF FirstKnown, Emptying
<1>8. Counted'
  <2>1. One(drv'.op = "IR" /\ drv'.over /\ ~drv'.bad /\ "RF0N" \in drv'.irqDbus) = 0 BY <1>2 DEF One
  <2>2. One(drv.op = "IR" /\ drv.over /\ ~drv.bad /\ "RF0N" \in drv.irqDbus) = 0 BY <1>1 DEF One
  <2>3. One("RF0N" \in chip.dbus) <= received /\ One("RF0N" \in chip.dbus) \in {0, 1}
    BY <1>1 DEF One, ReadInv, Counted
  <2>4. drv'.newMsg + One("RF0N" \in chip.dbus) <= received
    BY <1>1, <1>2, <2>2, <2>3 DEF ReadInv, Counted
  <2> QED BY <1>1, <1>2, <1>3, <2>1, <2>3, <2>4 DEF ReadInv, Counted, Others, Driver
<1>9. Told'
  <2>1. One(drv'.over /\ drv'.bad) = 0 /\ One(drv.over /\ drv.bad) \in {0, 1}
        /\ One(drv'.notifyLost) = One(drv.notifyLost) /\ One(drv.notifyLost) \in {0, 1}
    BY <1>2 DEF One
  <2> QED BY <1>1, <1>2, <2>1 DEF ReadInv, Told, Others
<1>10. Accounted'
  <2>1. Gone' = Gone BY DEF Gone, Others
  <2>2. One(drv'.rxState = "PROCESS" /\ drv'.over) = One(drv.rxState = "PROCESS" /\ drv.over)
        /\ One(drv'.rxPtr) = One(drv.rxPtr)
    BY <1>1, <1>2 DEF One, Emptying
  <2> QED BY <1>1, <1>2, <1>3, <2>1, <2>2 DEF ReadInv, Accounted, Others
<1> QED BY <1>2, <1>4, <1>5, <1>6, <1>7, <1>8, <1>9, <1>10 DEF ReadInv

LEMMA FrameAskedKeeps ==
    ASSUME Types, LockInv, ReadInv, ~Idle(drv), drv.over, drv.cb = "read", UNCHANGED Others,
           FrameAsked(Ended, drv'), drv.rxState = "CHECK_AND_READ"
    PROVE  ReadInv' /\ drv' \in Driver
<1>1. /\ drv.lock /\ ~drv.rxPtr /\ ~drv.readout /\ drv.irqDbus = {}
      /\ Reading(drv) /\ (drv.readErr => turn = "irq")
      /\ ~crossed => ~drv.readErr /\ ~drv.notifyLost
      /\ drv.newMsg \in Nat /\ received \in Nat /\ lost \in Nat /\ faults \in Nat
      /\ drv.op # "IR" /\ "RF0N" \in chip.dbus => received >= 1
  BY ReadEnded
<1>2. /\ drv' \in Driver /\ ~drv'.over /\ ~drv'.bad /\ drv'.op = "RXF0" /\ drv'.hdr = "RXF0"
      /\ drv'.rxState = IF drv.tooBig THEN "CHECK_STATUS_AGAIN" ELSE "PROCESS"
      /\ drv'.newMsg = drv.reg /\ drv'.cb = "read" /\ drv'.lock /\ drv'.irqDbus = {} /\ ~drv'.rxPtr
      /\ drv'.readErr = drv.readErr /\ drv'.notifyLost = drv.notifyLost /\ ~drv'.readout
      /\ drv.reg > 0 /\ ~drv.bad
  BY <1>1, EndedIs, RxFields, ZenonT(30) DEF FrameAsked
<1>3. Emptying(drv') /\ Reading(drv') /\ ~Idle(drv') /\ ~Emptying(drv)
  BY <1>2 DEF Emptying, Reading, Idle, NoTransfer
<1>4. drv.op = "RXF0S" BY DEF ReadInv, Control
<1>5. /\ drv.reg <= Len(chip.rx) /\ (drv.tooBig <=> Head(chip.rx) \in Big)
  BY <1>2, <1>4 DEF ReadInv, FirstKnown
<1>6. chip.rx # <<>> /\ drv.reg <= received
  <2>1. chip.rx \in Seq(1 .. MaxRx) BY DEF Types, Chip
  <2>2. drv.reg \in Nat BY DbusCanDriverAssumption DEF Types, Driver, Levels
  <2>3. Len(chip.rx) \in Nat /\ received - Len(chip.rx) \in Nat
    BY <2>1 DEF ReadInv, InChip, Gone
  <2> QED BY <1>1, <1>2, <1>5, <2>1, <2>2, <2>3
<1>7. Control(drv)' BY <1>1, <1>2, <1>3 DEF Control
<1>8. Turns' BY <1>1, <1>2 DEF Turns, Others
<1>9. InChip' /\ Intact' BY DEF ReadInv, InChip, Intact, Gone, Others
<1>10. FirstKnown' BY <1>2, <1>3, <1>5, <1>6 DEF FirstKnown, Others
<1>11. Counted' BY <1>1, <1>2, <1>3, <1>6 DEF ReadInv, Counted, Others
<1>12. Told'
  <2>1. One(drv'.over /\ drv'.bad) = 0 /\ One(drv.over /\ drv.bad) \in {0, 1}
        /\ One(drv'.notifyLost) = One(drv.notifyLost) /\ One(drv.notifyLost) \in {0, 1}
    BY <1>2 DEF One
  <2> QED BY <1>1, <1>2, <2>1 DEF ReadInv, Told, Others
<1>13. Accounted'
  <2>1. Gone' = Gone BY DEF Gone, Others
  <2>2. One(drv'.rxState = "PROCESS" /\ drv'.over) = One(drv.rxState = "PROCESS" /\ drv.over)
        /\ One(drv'.rxPtr) = One(drv.rxPtr)
    BY <1>1, <1>2 DEF One
  <2> QED BY <1>1, <1>2, <2>1, <2>2 DEF ReadInv, Accounted, Others
<1> QED BY <1>2, <1>7, <1>8, <1>9, <1>10, <1>11, <1>12, <1>13 DEF ReadInv

LEMMA FrameReadKeeps ==
    ASSUME Types, LockInv, ReadInv, ~Idle(drv), drv.over, drv.cb = "read", UNCHANGED Others,
           FrameRead(Ended, drv'), drv.rxState = "PROCESS"
    PROVE  ReadInv' /\ drv' \in Driver
<1>1. /\ drv.lock /\ ~drv.rxPtr /\ ~drv.readout /\ drv.irqDbus = {}
      /\ Reading(drv) /\ (drv.readErr => turn = "irq")
      /\ ~crossed => ~drv.readErr /\ ~drv.notifyLost
      /\ drv.newMsg \in Nat /\ received \in Nat /\ lost \in Nat /\ faults \in Nat
      /\ drv.op # "IR" /\ "RF0N" \in chip.dbus => received >= 1
  BY ReadEnded
<1>2. /\ drv' \in Driver /\ ~drv'.over /\ Idle(drv') /\ ~drv'.lock
      /\ drv'.rxState = "CHECK_STATUS" /\ drv'.cb = "read" /\ drv'.irqDbus = {}
      /\ ~drv'.readout /\ drv'.rxBuf = drv.rxBuf
      /\ drv'.newMsg = IF drv.newMsg > 0 THEN drv.newMsg - 1 ELSE 0
  BY <1>1, EndedIs, RxFields DEF FrameRead
<1>3. /\ drv.bad => drv'.readErr /\ drv'.notifyLost /\ ~drv'.rxPtr
      /\ ~drv.bad => drv'.rxPtr /\ drv'.readErr = drv.readErr /\ drv'.notifyLost = drv.notifyLost
  BY <1>1, EndedIs, RxFields DEF FrameRead
<1>4. Emptying(drv) /\ ~Emptying(drv') /\ ~Reading(drv') /\ drv'.op \notin {"IR", "RXF0", "RXF0S"}
  BY <1>2 DEF Emptying, Reading, Idle, NoTransfer
<1>5. Control(drv)' BY <1>1, <1>2, <1>4 DEF Control
<1>6. Turns' BY <1>1, <1>2, <1>3, <1>4 DEF Turns, Others
<1>7. InChip' /\ Intact' BY DEF ReadInv, InChip, Intact, Gone, Others
<1>8. FirstKnown' BY <1>2, <1>3, <1>4 DEF ReadInv, FirstKnown, IsNext, Gone, Emptying, Others
<1>9. Counted'
  <2>1. One(drv'.op = "IR" /\ drv'.over /\ ~drv'.bad /\ "RF0N" \in drv'.irqDbus) = 0 BY <1>2 DEF One
  <2>2. One("RF0N" \in chip.dbus) <= received /\ One("RF0N" \in chip.dbus) \in {0, 1}
    BY <1>1 DEF One, ReadInv, Counted
  <2>3. drv.newMsg <= received BY <1>4 DEF ReadInv, Counted
  <2>4. drv'.newMsg \in Nat /\ drv'.newMsg + One("RF0N" \in chip.dbus) <= received
    BY <1>1, <1>2, <2>2, <2>3
  <2> QED BY <1>1, <1>2, <1>4, <2>1, <2>2, <2>4 DEF ReadInv, Counted, Others
<1>10. Told'
  <2>1. One(drv'.over /\ drv'.bad) = 0 BY <1>2 DEF One
  <2>2. One(drv.over /\ drv.bad) = (IF drv.bad THEN 1 ELSE 0) BY DEF One
  <2>3. One(drv.notifyLost) \in {0, 1} /\ (drv.bad => One(drv'.notifyLost) = 1)
        /\ (~drv.bad => One(drv'.notifyLost) = One(drv.notifyLost))
    BY <1>3 DEF One
  <2> QED BY <1>1, <1>2, <2>1, <2>2, <2>3 DEF ReadInv, Told, Others
<1>11. Accounted'
  <2>1. Gone' = Gone BY DEF Gone, Others
  <2> SUFFICES ASSUME ~crossed
               PROVE  /\ drv'.notifyLost => drv'.readErr /\ ~(drv'.cb = "read" /\ drv'.lock)
                      /\ ~(drv'.rxPtr /\ drv'.readErr)
                      /\ Fitting(Gone) <= Len(delivered) + lost + One(drv'.rxPtr) + One(drv'.notifyLost)
                              + One(drv'.rxState = "PROCESS" /\ drv'.over)
    BY <1>4, <2>1 DEF Accounted, Others, Fitting
  <2>2. Fitting(Gone) <= Len(delivered) + lost + One(drv.rxPtr) + One(drv.notifyLost)
                              + One(drv.rxState = "PROCESS" /\ drv.over)
    BY DEF ReadInv, Accounted
  <2>3. One(drv.rxPtr) = 0 /\ One(drv.notifyLost) = 0 /\ One(drv.rxState = "PROCESS" /\ drv.over) = 1
        /\ One(drv'.rxState = "PROCESS" /\ drv'.over) = 0
    BY <1>1, <1>2 DEF One
  <2>4. drv.bad => One(drv'.rxPtr) = 0 /\ One(drv'.notifyLost) = 1 BY <1>3 DEF One
  <2>5. ~drv.bad => One(drv'.rxPtr) = 1 /\ One(drv'.notifyLost) = 0 BY <1>1, <1>3 DEF One
  <2> QED BY <1>1, <1>2, <1>3, <2>2, <2>3, <2>4, <2>5
<1> QED BY <1>2, <1>5, <1>6, <1>7, <1>8, <1>9, <1>10, <1>11 DEF ReadInv

LEMMA ReadCallbackKeeps ==
    ASSUME Types, LockInv, ReadInv, ~Idle(drv), drv.over, drv.cb = "read",
           drv' = Callback(Ended, chip), UNCHANGED Others
    PROVE  ReadInv' /\ drv' \in Driver
<1>1. /\ Ended \in Driver /\ ~Ended.over /\ Idle(Ended) /\ Rx(Ended) = Rx(drv)
      /\ Ended.newMsg = drv.newMsg /\ Ended.cb = "read" /\ Ended.hdr = drv.hdr
  BY EndedIs
<1>2. drv' = ReadFrameCallback(Ended) BY <1>1 DEF Callback
<1>3. Ended.rxState = drv.rxState /\ Ended.rxPtr = drv.rxPtr BY <1>1, RxFields
<1>4. /\ drv.rxState = "CHECK_STATUS" => LevelAsked(Ended, drv') /\ ~drv'.rxPtr /\ drv'.newMsg = drv.newMsg
      /\ drv.rxState = "CHECK_AND_READ" => ReadFailure(Ended, drv') \/ FrameAsked(Ended, drv')
      /\ drv.rxState = "PROCESS" /\ drv.hdr = "RXF0" => FrameRead(Ended, drv')
      /\ drv.rxState = "CHECK_STATUS_AGAIN" =>
            /\ LevelAsked(Ended, drv') /\ drv'.rxPtr = drv.rxPtr
            /\ drv'.newMsg = IF drv.newMsg > 0 THEN drv.newMsg - 1 ELSE 0
  BY <1>1, <1>2, <1>3, ReadFrameCallbackOutcome
<1>5. ~drv.rxPtr BY ReadEnded
<1>6. CASE drv.rxState = "CHECK_STATUS" BY <1>4, <1>6, LevelAskedKeeps DEF Emptying
<1>7. CASE drv.rxState = "CHECK_AND_READ"
  BY <1>4, <1>7, ReadFailureKeeps, FrameAskedKeeps DEF Emptying
<1>8. CASE drv.rxState = "PROCESS"
  BY <1>4, <1>8, FrameReadKeeps DEF ReadInv, Control, Emptying
<1>9. CASE drv.rxState = "CHECK_STATUS_AGAIN" BY <1>4, <1>5, <1>9, LevelAskedKeeps DEF Emptying
<1> QED BY <1>6, <1>7, <1>8, <1>9 DEF Types, Driver, RxStates

-----------------------------------------------------------------------------
(* The steps of the task.                                                  *)

\* What the invariant says between two chains.
LEMMA Rest ==
    ASSUME Types, ReadInv, Idle(drv)
    PROVE  /\ drv.irqDbus = {} /\ ~drv.over /\ ~Emptying(drv) /\ ~Reading(drv)
           /\ drv.cb = "read" \/ drv.readErr => drv.rxState = "CHECK_STATUS"
           /\ drv.rxState \in {"CHECK_STATUS", "CHECK_AND_READ"}
           /\ drv.op \notin {"IR", "RXF0", "RXF0S"}
           /\ drv.newMsg + One("RF0N" \in chip.dbus) <= received
           /\ drv.newMsg \in Nat /\ received \in Nat /\ lost \in Nat /\ faults \in Nat
<1>1. drv.op \notin {"IR", "RXF0", "RXF0S"} BY DEF Idle, NoTransfer
<1>2. One(drv.op = "IR" /\ drv.over /\ ~drv.bad /\ "RF0N" \in drv.irqDbus) = 0 BY <1>1 DEF One
<1>3. drv.rxState \in RxStates /\ drv.newMsg \in Nat /\ received \in Nat /\ lost \in Nat /\ faults \in Nat
  BY DEF Types, Driver
<1>4. drv.irqDbus = {} /\ ~drv.over /\ ~Emptying(drv) /\ ~Reading(drv)
  BY <1>1 DEF ReadInv, Control, Reading
<1>5. One("RF0N" \in chip.dbus) \in Nat BY DEF One
<1>6. drv.newMsg + One("RF0N" \in chip.dbus) <= received
  BY <1>2, <1>3, <1>4, <1>5 DEF ReadInv, Counted
<1> QED BY <1>1, <1>3, <1>4, <1>6 DEF ReadInv, Control, Emptying, RxStates

\* The task changes a flag that is not the reading chain's.
Flagged(e) ==
    /\ e \in Driver /\ ~e.over /\ Idle(e) /\ Rx(e) = Rx(drv) /\ e.newMsg = drv.newMsg
    /\ e.irqDbus = {} /\ e.cb = drv.cb /\ e.lock = drv.lock

\* No chain was under way; one of another kind may be now, and the next step of
\* the task is another one.
LEMMA TaskKeeps ==
    ASSUME Types, ReadInv, Idle(drv),
           drv' \in Driver, ~drv'.over, Rx(drv') = Rx(drv), drv'.newMsg = drv.newMsg, drv'.irqDbus = {},
           \/ Idle(drv')
           \/ ~drv'.bad /\ drv'.cb \in {"send", "read"} /\ drv'.op \in SendOps
           \/ ~drv'.bad /\ drv'.cb = "handleGlobal" /\ drv'.op = "IRQ",
           UNCHANGED <<chip, received, faults, lost, delivered>>,
           drv'.cb = "read" => drv.cb = "read" /\ (drv'.lock => drv.lock),
           drv'.lock /\ Idle(drv') => drv'.cb \in {"send", "read"},
           ~crossed' => ~crossed /\ ~(Reading(drv') /\ drv'.readErr), Turns'
    PROVE  ReadInv'
<1>1. Aside BY Rest DEF Aside
<1>2. drv'.cb = "read" => drv.rxState = "CHECK_STATUS" BY Rest
<1> QED BY <1>1, <1>2, AsideKeeps DEF ReadInv

LEMMA FlaggedKeeps ==
    ASSUME Types, ReadInv, Idle(drv), Flagged(drv'), turn \notin {"irq", "read"},
           UNCHANGED <<chip, received, faults, lost, delivered, crossed>>
    PROVE  ReadInv'
<1>1. drv'.readErr = drv.readErr /\ drv'.rxPtr = drv.rxPtr BY RxFields DEF Flagged
<1>2. ~Reading(drv') BY DEF Flagged, Reading
<1>3. Turns' BY <1>1, <1>2 DEF ReadInv, Turns
<1>4. drv'.lock => drv'.cb \in {"send", "read"} BY DEF Flagged, ReadInv, Control
<1> QED BY <1>2, <1>3, <1>4, TaskKeeps DEF Flagged

LEMMA UnchangedIsFlagged == ASSUME Types, ReadInv, Idle(drv) PROVE Flagged(drv)
BY Rest DEF Flagged, Types

LEMMA OneFlag ==
    ASSUME Types, ReadInv, Idle(drv), NEW b \in BOOLEAN, NEW m \in 0 .. MaxTx
    PROVE  /\ Flagged([drv EXCEPT !.frameSent = b]) /\ Flagged([drv EXCEPT !.sendErr = b])
           /\ Flagged([drv EXCEPT !.irqDone = b]) /\ Flagged([drv EXCEPT !.txFinished = b])
           /\ Flagged([drv EXCEPT !.txBuf = m])
<1>0. drv.irqDbus = {} /\ ~drv.over /\ drv \in Driver BY Rest DEF Types
<1>1. Flagged([drv EXCEPT !.frameSent = b])
  <2>1. [drv EXCEPT !.frameSent = b] \in Driver BY <1>0 DEF Driver
  <2> QED BY <1>0, <2>1 DEF Flagged, Rx, Idle, Driver
<1>2. Flagged([drv EXCEPT !.sendErr = b])
  <2>1. [drv EXCEPT !.sendErr = b] \in Driver BY <1>0 DEF Driver
  <2> QED BY <1>0, <2>1 DEF Flagged, Rx, Idle, Driver
<1>3. Flagged([drv EXCEPT !.irqDone = b])
  <2>1. [drv EXCEPT !.irqDone = b] \in Driver BY <1>0 DEF Driver
  <2> QED BY <1>0, <2>1 DEF Flagged, Rx, Idle, Driver
<1>4. Flagged([drv EXCEPT !.txFinished = b])
  <2>1. [drv EXCEPT !.txFinished = b] \in Driver BY <1>0 DEF Driver
  <2> QED BY <1>0, <2>1 DEF Flagged, Rx, Idle, Driver
<1>5. Flagged([drv EXCEPT !.txBuf = m])
  <2>1. [drv EXCEPT !.txBuf = m] \in Driver BY <1>0 DEF Driver
  <2> QED BY <1>0, <2>1 DEF Flagged, Rx, Idle, Driver
<1> QED BY <1>1, <1>2, <1>3, <1>4, <1>5

LEMMA TakeIs ==
    ASSUME NEW d \in Driver, NEW cb \in Callbacks
    PROVE  LET e == Take(d, cb) IN
           /\ e \in Driver /\ Rx(e) = Rx(d) /\ e.newMsg = d.newMsg /\ e.irqDbus = d.irqDbus
           /\ e.cb = cb /\ e.lock /\ e.over = d.over /\ e.op = d.op
<1> DEFINE e == [d EXCEPT !.cb = cb, !.event = TRUE, !.lock = TRUE]
<1>1. e \in Driver BY DEF Driver
<1>2. /\ Rx(e) = Rx(d) /\ e.newMsg = d.newMsg /\ e.irqDbus = d.irqDbus
      /\ e.cb = cb /\ e.lock /\ e.over = d.over /\ e.op = d.op
  BY DEF Driver, Rx
<1> QED BY <1>1, <1>2 DEF Take

\* DBCDBUS_sendFrame in DLL_HandleTask.
LEMMA HandleTaskReads ==
    ASSUME Types, LockInv, ReadInv, Undivided, HandleTask PROVE ReadInv' /\ drv' \in Driver
<1>1. Idle(drv) /\ turn = "send" /\ turn' = "irq" /\ drv \in Driver
  BY DEF HandleTask, TaskStep, Undivided, Types
<1>2. UNCHANGED <<chip, received, faults, lost, delivered, crossed>> BY DEF HandleTask, spent
<1>3. CASE Flagged(drv') BY <1>1, <1>2, <1>3, FlaggedKeeps DEF Flagged
<1>4. CASE drv' = SendFrameCallback(Take(drv, "send"), chip)
  <2> DEFINE d == Take(drv, "send")
  <2>1. /\ d \in Driver /\ Rx(d) = Rx(drv) /\ d.newMsg = drv.newMsg /\ d.irqDbus = {}
        /\ d.cb = "send" /\ ~d.over /\ Idle(d)
    BY <1>1, TakeIs, Rest DEF Callbacks, Idle
  <2> HIDE DEF d
  <2>2. SendOutcome(d, drv') BY <1>4, <2>1, SendFrameCallbackOutcome DEF d
  <2>3. /\ drv' \in Driver /\ ~drv'.over /\ Rx(drv') = Rx(drv) /\ drv'.newMsg = drv.newMsg
        /\ drv'.irqDbus = {} /\ drv'.cb = "send" /\ (Idle(drv') \/ (drv'.op \in SendOps /\ ~drv'.bad))
    BY <2>1, <2>2 DEF SendOutcome
  <2>4. ~Reading(drv') BY <2>3 DEF Reading
  <2>5. Turns'
    <3>1. drv'.readErr = drv.readErr /\ drv'.rxPtr = drv.rxPtr BY <2>3, RxFields
    <3> QED BY <1>1, <2>4, <3>1 DEF ReadInv, Turns
  <2> QED BY <1>1, <1>2, <2>3, <2>4, <2>5, TaskKeeps
<1>5. drv' \in {drv, [drv EXCEPT !.frameSent = FALSE], [drv EXCEPT !.sendErr = FALSE],
                SendFrameCallback(Take(drv, "send"), chip), [drv EXCEPT !.txFinished = FALSE]}
  <2>1. drv' \in {drv, SendFrame(drv), MsgTransmitted(drv)} BY Zenon DEF HandleTask
  <2> QED BY <2>1 DEF SendFrame, SendUnlocked, MsgTransmitted
<1>6. 0 \in 0 .. MaxTx BY DbusCanDriverAssumption
<1> QED BY <1>1, <1>3, <1>4, <1>5, <1>6, OneFlag, UnchangedIsFlagged

LEMMA SendFrameGoesOnReads ==
    ASSUME Types, LockInv, ReadInv, Undivided, SendFrameGoesOn PROVE ReadInv' /\ drv' \in Driver
<1>1. Idle(drv) /\ turn = "sendLocked" /\ turn' = "irq" /\ drv \in Driver /\ drv.lock
  BY DEF SendFrameGoesOn, TaskStep, Undivided, Types, LockInv, Locked
<1>2. UNCHANGED <<chip, received, faults, lost, delivered>>
      /\ crossed' = (crossed \/ (drv.sendErr /\ drv.cb # "send"))
      /\ drv' = IF drv.sendErr THEN SendFrameCallback([drv EXCEPT !.sendErr = FALSE], chip) ELSE drv
  <2>1. PICK locked \in {TRUE, drv.lock} :
          /\ drv' = IF locked /\ drv.sendErr THEN SendFrameCallback([drv EXCEPT !.sendErr = FALSE], chip)
                    ELSE IF locked THEN drv ELSE SendUnlocked(drv)
          /\ crossed' = (crossed \/ ((locked /\ drv.sendErr) /\ drv.cb # "send"))
    BY DEF SendFrameGoesOn
  <2>2. locked BY <1>1
  <2> QED BY <2>1, <2>2 DEF SendFrameGoesOn, spent
<1>3. drv.cb \in {"send", "read"} BY <1>1 DEF ReadInv, Control
<1>4. CASE ~drv.sendErr
  <2>1. drv' = drv /\ crossed' = crossed BY <1>2, <1>4 DEF Types
  <2> QED BY <1>1, <1>2, <2>1, UnchangedIsFlagged, FlaggedKeeps
<1>5. CASE drv.sendErr
  <2> DEFINE d == [drv EXCEPT !.sendErr = FALSE]
  <2>1. Flagged(d)
    <3>1. 0 \in 0 .. MaxTx BY DbusCanDriverAssumption
    <3> QED BY <1>1, <3>1, OneFlag
  <2> HIDE DEF d
  <2>2. SendOutcome(d, drv')
    <3>1. drv' = SendFrameCallback(d, chip) BY <1>2, <1>5 DEF d
    <3> QED BY <2>1, <3>1, SendFrameCallbackOutcome DEF Flagged
  <2>3. /\ drv' \in Driver /\ ~drv'.over /\ Rx(drv') = Rx(drv) /\ drv'.newMsg = drv.newMsg
        /\ drv'.irqDbus = {} /\ drv'.cb = drv.cb /\ (Idle(drv') \/ (drv'.op \in SendOps /\ ~drv'.bad))
    BY <2>1, <2>2 DEF SendOutcome, Flagged
  <2>4. ~crossed' => ~crossed /\ ~Reading(drv') BY <1>2, <1>3, <1>5, <2>3 DEF Reading
  <2>5. Turns'
    <3>1. drv'.readErr = drv.readErr /\ drv'.rxPtr = drv.rxPtr BY <2>3, RxFields
    <3> QED BY <1>1, <3>1 DEF ReadInv, Turns
  <2> QED BY <1>1, <1>2, <1>3, <2>3, <2>4, <2>5, TaskKeeps
<1> QED BY <1>4, <1>5

LEMMA HandleInterruptReads ==
    ASSUME Types, LockInv, ReadInv, Undivided, HandleInterrupt PROVE ReadInv' /\ drv' \in Driver
<1>1. Idle(drv) /\ turn = "irq" /\ turn' = "read" /\ drv \in Driver
  BY DEF HandleInterrupt, TaskStep, Undivided, Types
<1>2. UNCHANGED <<chip, received, faults, lost, delivered, crossed>>
  BY DEF HandleInterrupt, spent, history
<1>3. CASE Flagged(drv')
  <2>1. drv'.readErr = drv.readErr /\ drv'.rxPtr = drv.rxPtr BY <1>3, RxFields DEF Flagged
  <2>2. ~Reading(drv') BY <1>3 DEF Flagged, Reading
  <2>3. Turns' BY <1>1, <1>3, <2>1, <2>2 DEF ReadInv, Turns, Flagged
  <2>4. drv'.lock => drv'.cb \in {"send", "read"} BY <1>1, <1>3 DEF Flagged, ReadInv, Control
  <2> QED BY <1>1, <1>2, <1>3, <2>2, <2>3, <2>4, TaskKeeps DEF Flagged
<1>4. CASE drv' = Start(Take(drv, "handleGlobal"), "IRQ")
  <2> DEFINE d == Take(drv, "handleGlobal")
  <2>1. /\ d \in Driver /\ Rx(d) = Rx(drv) /\ d.newMsg = drv.newMsg /\ d.irqDbus = {}
        /\ d.cb = "handleGlobal" /\ ~d.over
    BY <1>1, TakeIs, Rest DEF Callbacks
  <2> HIDE DEF d
  <2>2. Started(d, drv', "IRQ") /\ drv'.cb = d.cb BY <1>4, <2>1, StartStarts DEF ReadOps, d
  <2>3. /\ drv' \in Driver /\ ~drv'.over /\ Rx(drv') = Rx(drv) /\ drv'.newMsg = drv.newMsg
        /\ drv'.irqDbus = {} /\ drv'.cb = "handleGlobal" /\ drv'.op = "IRQ" /\ ~drv'.bad
    BY <2>1, <2>2 DEF Started
  <2>4. ~Reading(drv') /\ ~Idle(drv') BY <2>3 DEF Reading, Idle, NoTransfer
  <2>5. Turns'
    <3>1. drv'.readErr = drv.readErr /\ drv'.rxPtr = drv.rxPtr BY <2>3, RxFields
    <3> QED BY <1>1, <2>3, <2>4, <3>1 DEF ReadInv, Turns
  <2> QED BY <1>1, <1>2, <2>3, <2>4, <2>5, TaskKeeps
<1>5. drv' \in {drv, [drv EXCEPT !.irqDone = FALSE], Start(Take(drv, "handleGlobal"), "IRQ")}
  BY <1>1 DEF HandleInterrupt, HandleIrq, ReadIrq
<1>6. 0 \in 0 .. MaxTx BY DbusCanDriverAssumption
<1> QED BY <1>1, <1>3, <1>4, <1>5, <1>6, OneFlag, UnchangedIsFlagged

\* The task has the reading chain ask for the fill level.
LEMMA TaskReads ==
    ASSUME Types, ReadInv, Idle(drv), drv.rxState = "CHECK_STATUS", ~drv.rxPtr,
           NEW d \in Driver, ~d.over, Idle(d), d.rxState = "CHECK_STATUS", ~d.readErr, ~d.readout,
           d.notifyLost = drv.notifyLost,
           d.newMsg = drv.newMsg, d.irqDbus = {}, d.cb \in {"send", "read"}, d.lock,
           drv' = ReadFrameCallback(d),
           UNCHANGED <<chip, received, faults, lost, delivered>>,
           ~crossed' => ~crossed /\ ~drv.notifyLost
    PROVE  ReadInv' /\ drv' \in Driver
<1>2. LevelAsked(d, drv') /\ ~drv'.rxPtr /\ drv'.newMsg = d.newMsg
  BY ReadFrameCallbackOutcome
<1>3. /\ drv' \in Driver /\ ~drv'.over /\ ~drv'.bad /\ drv'.op = "RXF0S"
      /\ drv'.rxState = "CHECK_AND_READ" /\ drv'.cb \in {"send", "read"} /\ drv'.lock
      /\ drv'.irqDbus = {} /\ ~drv'.readErr /\ drv'.notifyLost = drv.notifyLost /\ ~drv'.readout
      /\ ~drv'.rxPtr /\ drv'.newMsg = drv.newMsg
  BY <1>2 DEF LevelAsked
<1>4. ~Emptying(drv') /\ ~Idle(drv')
  BY <1>3 DEF Emptying, Idle, NoTransfer
<1>5. Control(drv)' BY <1>3, <1>4 DEF Control, SendOps
<1>6. Turns' BY <1>3 DEF Turns
<1>7. InChip' /\ Intact' BY DEF ReadInv, InChip, Intact, Gone
<1>8. FirstKnown' BY <1>3, <1>4 DEF FirstKnown
<1>9. Counted'
  <2>1. One(drv'.op = "IR" /\ drv'.over /\ ~drv'.bad /\ "RF0N" \in drv'.irqDbus) = 0 BY <1>3 DEF One
  <2>2. drv.newMsg + One("RF0N" \in chip.dbus) <= received /\ drv.newMsg \in Nat /\ received \in Nat
    BY Rest
  <2>3. One("RF0N" \in chip.dbus) \in Nat BY DEF One
  <2> QED BY <1>3, <1>4, <2>1, <2>2, <2>3 DEF ReadInv, Counted
<1>10. Told'
  <2>1. One(drv'.over /\ drv'.bad) = 0 /\ One(drv.over /\ drv.bad) \in {0, 1}
        /\ One(drv'.notifyLost) = One(drv.notifyLost) /\ One(drv.notifyLost) \in {0, 1}
    BY <1>3 DEF One
  <2> QED BY <1>3, <2>1, Rest DEF ReadInv, Told
<1>11. Accounted'
  <2>1. Gone' = Gone BY DEF Gone
  <2>2. One(drv'.rxState = "PROCESS" /\ drv'.over) = One(drv.rxState = "PROCESS" /\ drv.over)
        /\ One(drv'.rxPtr) = One(drv.rxPtr) /\ One(drv'.notifyLost) = One(drv.notifyLost)
    BY <1>3 DEF One
  <2> QED BY <1>3, <2>1, <2>2 DEF ReadInv, Accounted
<1> QED BY <1>3, <1>5, <1>6, <1>7, <1>8, <1>9, <1>10, <1>11 DEF ReadInv

LEMMA ReadFrameGoesOnReads ==
    ASSUME Types, LockInv, ReadInv, Undivided, ReadFrameGoesOn PROVE ReadInv' /\ drv' \in Driver
<1>1. Idle(drv) /\ turn = "readLocked" /\ turn' = "send" /\ drv \in Driver /\ drv.lock
  BY DEF ReadFrameGoesOn, TaskStep, Undivided, Types, LockInv, Locked
<1>2. UNCHANGED <<chip, received, faults, lost, delivered>>
      /\ crossed' = (crossed \/ (drv.readErr /\ drv.cb # "read"))
  BY DEF ReadFrameGoesOn, spent
<1>3. drv.cb \in {"send", "read"} BY <1>1 DEF ReadInv, Control
<1>4. CASE ~drv.readErr
  <2>1. drv' = drv /\ crossed' = crossed BY <1>2, <1>4 DEF ReadFrameGoesOn, Types
  <2> QED BY <1>1, <1>2, <2>1, UnchangedIsFlagged, FlaggedKeeps
<1>5. CASE drv.readErr
  <2> DEFINE d == [drv EXCEPT !.readErr = FALSE]
  <2>1. drv.rxState = "CHECK_STATUS" /\ ~drv.rxPtr /\ ~drv.readout /\ drv.irqDbus = {} /\ ~drv.over
    BY <1>1, <1>5, Rest DEF ReadInv, Turns, Control
  <2>2. d \in Driver BY <1>1 DEF Driver
  <2>3. /\ ~d.over /\ Idle(d) /\ d.newMsg = drv.newMsg /\ d.irqDbus = {} /\ d.cb = drv.cb /\ d.lock
    BY <1>1, <2>1 DEF Driver, Idle
  <2>4. d.rxState = "CHECK_STATUS" /\ ~d.readErr /\ ~d.readout /\ d.notifyLost = drv.notifyLost
    BY <1>1, <2>1 DEF Driver
  <2>5. drv' = ReadFrameCallback(d) BY <1>5 DEF ReadFrameGoesOn
  <2>6. ~crossed' => ~crossed /\ ~drv.notifyLost
    BY <1>1, <1>2, <1>5 DEF ReadInv, Accounted
  <2> HIDE DEF d
  <2> QED BY <1>1, <1>2, <1>3, <2>1, <2>2, <2>3, <2>4, <2>5, <2>6, TaskReads
<1> QED BY <1>4, <1>5

\* DBCDBUS_readFrame.
LEMMA ReadStartsReads ==
    ASSUME Types, ReadInv, Idle(drv), ReadStarts, UNCHANGED <<chip, received, faults, lost, delivered, crossed>>,
           drv' = ReadFrameCallback([Take(drv, "read") EXCEPT !.readout = FALSE])
    PROVE  ReadInv' /\ drv' \in Driver
<1> DEFINE t == Take(drv, "read")
           d == [t EXCEPT !.readout = FALSE]
<1>1. drv.rxState = "CHECK_STATUS" /\ ~drv.rxPtr /\ ~drv.readErr /\ drv.irqDbus = {} /\ ~drv.over
  BY Rest DEF ReadStarts, ReadInv, Control
<1>2. /\ t \in Driver /\ Rx(t) = Rx(drv) /\ t.newMsg = drv.newMsg /\ t.irqDbus = {}
      /\ t.cb = "read" /\ t.lock /\ ~t.over /\ Idle(t)
  BY <1>1, TakeIs DEF Types, Callbacks, Idle
<1> HIDE DEF t
<1>3. d \in Driver BY <1>2 DEF Driver
<1>4. /\ d.newMsg = t.newMsg /\ d.irqDbus = t.irqDbus /\ d.cb = t.cb /\ d.lock = t.lock
      /\ d.over = t.over /\ d.op = t.op
  BY <1>2 DEF Driver
<1>5. d.rxState = "CHECK_STATUS" /\ ~d.readErr /\ ~d.readout /\ d.notifyLost = drv.notifyLost
  <2>1. t.rxState = drv.rxState /\ t.readErr = drv.readErr /\ t.notifyLost = drv.notifyLost
    BY <1>2, RxFields
  <2> QED BY <1>1, <1>2, <2>1 DEF Driver
<1>6. ~crossed' => ~crossed /\ ~drv.notifyLost BY <1>1 DEF ReadInv, Accounted
<1>7. drv' = ReadFrameCallback(d) BY DEF t
<1> HIDE DEF d
<1> QED BY <1>1, <1>2, <1>3, <1>4, <1>5, <1>6, <1>7, TaskReads DEF Idle

LEMMA EndFailedReadReads ==
    ASSUME Types, ReadInv, Idle(drv), ReadFailed, drv' = EndFailedRead(drv),
           lost' = IF drv.notifyLost THEN lost + 1 ELSE lost,
           UNCHANGED <<chip, received, faults, delivered, crossed>>
    PROVE  ReadInv' /\ drv' \in Driver
<1>1. /\ drv.irqDbus = {} /\ ~drv.over /\ drv.rxState = "CHECK_STATUS" /\ drv.readErr /\ ~drv.lock
      /\ drv \in Driver
  BY Rest DEF ReadFailed, Types
<1>2. drv' \in Driver BY <1>1, ZenonT(30) DEF EndFailedRead, Driver
<1>3. /\ ~drv'.notifyLost /\ drv'.readout /\ ~drv'.readErr /\ ~drv'.rxPtr
      /\ drv'.rxState = "CHECK_STATUS" /\ ~drv'.lock /\ ~drv'.over /\ drv'.op = drv.op
      /\ drv'.irqDbus = {} /\ drv'.newMsg = drv.newMsg /\ drv'.cb = drv.cb
  BY <1>1 DEF EndFailedRead, Driver
<1>4. Idle(drv') /\ ~Emptying(drv') /\ ~Reading(drv') /\ drv'.op \notin {"IR", "RXF0", "RXF0S"}
  BY <1>3, Rest DEF Idle, Emptying, Reading
<1>5. Control(drv)' BY <1>3, <1>4 DEF Control
<1>6. Turns' BY <1>3 DEF Turns
<1>7. InChip' /\ Intact' BY DEF ReadInv, InChip, Intact, Gone
<1>8. FirstKnown' BY <1>3, <1>4 DEF FirstKnown
<1>9. Counted'
  <2>1. One(drv'.op = "IR" /\ drv'.over /\ ~drv'.bad /\ "RF0N" \in drv'.irqDbus) = 0 BY <1>3 DEF One
  <2>2. drv.newMsg + One("RF0N" \in chip.dbus) <= received /\ drv.newMsg \in Nat /\ received \in Nat
    BY Rest
  <2>3. One("RF0N" \in chip.dbus) \in Nat BY DEF One
  <2> QED BY <1>3, <1>4, <2>1, <2>2, <2>3 DEF ReadInv, Counted
<1>10. Told'
  <2>1. One(drv'.over /\ drv'.bad) = 0 /\ One(drv.over /\ drv.bad) \in {0, 1} /\ One(drv'.notifyLost) = 0
        /\ One(drv.notifyLost) = (IF drv.notifyLost THEN 1 ELSE 0)
    BY <1>3 DEF One
  <2> QED BY <1>3, <1>4, <2>1, Rest DEF ReadInv, Told
<1>11. Accounted'
  <2>1. Gone' = Gone BY DEF Gone
  <2>2. SUFFICES ASSUME ~crossed
                 PROVE  Fitting(Gone) <= Len(delivered) + lost' + One(drv'.rxPtr) + One(drv'.notifyLost)
                                          + One(drv'.rxState = "PROCESS" /\ drv'.over)
    BY <1>3, <2>1 DEF Accounted, Fitting
  <2>3. Fitting(Gone) <= Len(delivered) + lost + One(drv.rxPtr) + One(drv.notifyLost)
                              + One(drv.rxState = "PROCESS" /\ drv.over) /\ ~drv.rxPtr
    BY <1>1, <2>2 DEF ReadInv, Accounted
  <2>4. /\ One(drv'.rxPtr) = 0 /\ One(drv.rxPtr) = 0 /\ One(drv'.notifyLost) = 0
        /\ One(drv'.rxState = "PROCESS" /\ drv'.over) = 0 /\ One(drv.rxState = "PROCESS" /\ drv.over) = 0
        /\ One(drv.notifyLost) = (IF drv.notifyLost THEN 1 ELSE 0)
    BY <1>1, <1>3, <2>3 DEF One
  <2>5. Len(delivered) \in Nat /\ lost \in Nat BY DEF Types
  <2> QED BY <2>3, <2>4, <2>5
<1> QED BY <1>2, <1>5, <1>6, <1>7, <1>8, <1>9, <1>10, <1>11 DEF ReadInv

\* DBCDBUS_readFrame returns the message.
HandsOn ==
    /\ drv' = [drv EXCEPT !.rxPtr = FALSE, !.readout = TRUE]
    /\ delivered' = Append(delivered, drv.rxBuf)

LEMMA DeliverReads ==
    ASSUME Types, ReadInv, Idle(drv), turn = "read", ~ReadFailed, drv.rxPtr,
           HandsOn, UNCHANGED <<chip, received, faults, lost, crossed>>
    PROVE  ReadInv' /\ drv' \in Driver /\ delivered' \in Seq(0 .. MaxRx)
<1>1. /\ drv.irqDbus = {} /\ ~drv.over /\ drv.rxState = "CHECK_STATUS" /\ ~drv.readErr
      /\ drv \in Driver /\ delivered \in Seq(0 .. MaxRx)
  BY Rest DEF ReadFailed, Types, ReadInv, Control, Turns
<1>2. drv' \in Driver /\ drv.rxBuf \in 0 .. MaxRx BY <1>1, ZenonT(30) DEF Driver, HandsOn
<1>3. /\ drv'.notifyLost = drv.notifyLost /\ drv'.readout /\ ~drv'.readErr /\ ~drv'.rxPtr
      /\ drv'.rxState = "CHECK_STATUS" /\ drv'.lock = drv.lock /\ ~drv'.over /\ drv'.op = drv.op
      /\ drv'.irqDbus = {} /\ drv'.newMsg = drv.newMsg /\ drv'.cb = drv.cb
  BY <1>1 DEF Driver, HandsOn
<1>4. Idle(drv') /\ ~Emptying(drv') /\ ~Reading(drv') /\ drv'.op \notin {"IR", "RXF0", "RXF0S"}
  BY <1>3, Rest DEF Idle, Emptying, Reading
<1>5. Control(drv)' BY <1>3, <1>4 DEF Control, ReadInv
<1>6. Turns' BY <1>3 DEF Turns
<1>7. IsNext(drv.rxBuf) /\ Gone' = Gone BY DEF ReadInv, FirstKnown, Gone
<1>8. /\ delivered' \in Seq(0 .. MaxRx) /\ Len(delivered') = Len(delivered) + 1
      /\ \A i \in 1 .. Len(delivered) : delivered'[i] = delivered[i]
      /\ delivered'[Len(delivered) + 1] = drv.rxBuf /\ Len(delivered) \in Nat
  BY <1>1, <1>2 DEF HandsOn
<1>9. InChip' BY DEF ReadInv, InChip, Gone
<1>10. Intact'
  <2>1. Intact /\ Gone \in Nat BY DEF ReadInv, InChip
  <2>2. drv.rxBuf \in (1 .. Gone) \ Big BY <1>7, <2>1 DEF IsNext
  <2>3. \A i \in 1 .. Len(delivered') : i \in 1 .. Len(delivered) \/ i = Len(delivered) + 1
    BY <1>8
  <2>4. ASSUME NEW i \in 1 .. Len(delivered') PROVE delivered'[i] \in (1 .. Gone) \ Big
    <3>1. CASE i \in 1 .. Len(delivered)
      <4>1. delivered'[i] = delivered[i] BY <1>8, <3>1
      <4>2. delivered[i] \in (1 .. Gone) \ Big BY <2>1, <3>1 DEF Intact
      <4> QED BY <4>1, <4>2
    <3>2. CASE i = Len(delivered) + 1
      <4>1. delivered'[Len(delivered) + 1] = drv.rxBuf BY <1>8
      <4>2. delivered'[i] = drv.rxBuf BY <3>2, <4>1, Zenon
      <4> QED BY <2>2, <4>2
    <3> QED BY <2>3, <3>1, <3>2
  <2>5. ASSUME NEW i \in 1 .. Len(delivered'), NEW j \in 1 .. Len(delivered'), i < j
        PROVE  delivered'[i] < delivered'[j]
    <3>1. CASE j \in 1 .. Len(delivered) BY <1>8, <2>1, <2>3, <2>5, <3>1 DEF Intact
    <3>2. CASE j = Len(delivered) + 1
      <4>1. i \in 1 .. Len(delivered) BY <1>8, <2>5, <3>2
      <4> QED BY <1>7, <1>8, <3>2, <4>1 DEF IsNext
    <3> QED BY <2>3, <3>1, <3>2
  <2> QED BY <1>7, <2>4, <2>5 DEF Intact
<1>11. FirstKnown' BY <1>3, <1>4 DEF FirstKnown
<1>12. Counted'
  <2>1. One(drv'.op = "IR" /\ drv'.over /\ ~drv'.bad /\ "RF0N" \in drv'.irqDbus) = 0 BY <1>3 DEF One
  <2>2. drv.newMsg + One("RF0N" \in chip.dbus) <= received /\ drv.newMsg \in Nat /\ received \in Nat
    BY Rest
  <2>3. One("RF0N" \in chip.dbus) \in Nat BY DEF One
  <2> QED BY <1>3, <1>4, <2>1, <2>2, <2>3 DEF ReadInv, Counted
<1>13. Told'
  <2>1. One(drv'.over /\ drv'.bad) = 0 /\ One(drv.over /\ drv.bad) = 0
        /\ One(drv.notifyLost) = One(drv'.notifyLost)
    BY <1>1, <1>3 DEF One
  <2> QED BY <1>3, <1>4, <2>1 DEF ReadInv, Told
<1>14. Accounted'
  <2>1. SUFFICES ASSUME ~crossed
                 PROVE  /\ ~drv.notifyLost
                        /\ Fitting(Gone) <= Len(delivered') + lost + One(drv'.rxPtr) + One(drv'.notifyLost)
                                          + One(drv'.rxState = "PROCESS" /\ drv'.over)
    BY <1>3, <1>7 DEF Accounted, Fitting
  <2>2. /\ Fitting(Gone) <= Len(delivered) + lost + One(drv.rxPtr) + One(drv.notifyLost)
                              + One(drv.rxState = "PROCESS" /\ drv.over)
        /\ ~drv.notifyLost
    BY <1>1, <2>1 DEF ReadInv, Accounted
  <2>3. /\ One(drv'.rxPtr) = 0 /\ One(drv.rxPtr) = 1 /\ One(drv'.notifyLost) = One(drv.notifyLost)
        /\ One(drv'.rxState = "PROCESS" /\ drv'.over) = 0 /\ One(drv.rxState = "PROCESS" /\ drv.over) = 0
        /\ One(drv.notifyLost) \in {0, 1}
    BY <1>1, <1>3 DEF One
  <2>4. lost \in Nat /\ Fitting(Gone) \in Nat BY FittingNat DEF Types, ReadInv, InChip
  <2>5. Len(delivered') = Len(delivered) + 1 /\ Len(delivered) \in Nat BY <1>8
  <2>6. Fitting(Gone) <= Len(delivered') + lost + One(drv'.rxPtr) + One(drv'.notifyLost)
                            + One(drv'.rxState = "PROCESS" /\ drv'.over)
    <3> DEFINE f == Fitting(Gone)
               n == Len(delivered)
               m == Len(delivered')
               a == One(drv.rxPtr)
               b == One(drv.notifyLost)
               c == One(drv.rxState = "PROCESS" /\ drv.over)
               b1 == One(drv'.notifyLost)
               a1 == One(drv'.rxPtr)
               c1 == One(drv'.rxState = "PROCESS" /\ drv'.over)
    <3>1. f <= n + lost + a + b + c BY <2>2
    <3>2. a1 = 0 /\ a = 1 /\ b1 = b /\ c1 = 0 /\ c = 0 /\ b \in {0, 1} BY <2>3
    <3>3. lost \in Nat /\ f \in Nat BY <2>4
    <3>4. m = n + 1 /\ n \in Nat BY <2>5
    <3> HIDE DEF f, n, m, a, b, c, a1, b1, c1
    <3>5. f <= m + lost + a1 + b1 + c1 BY ONLY <3>1, <3>2, <3>3, <3>4
    <3> QED BY <3>5 DEF f, n, m, a, b, c, a1, b1, c1
  <2> QED BY <2>2, <2>6
<1> QED BY <1>2, <1>5, <1>6, <1>8, <1>9, <1>10, <1>11, <1>12, <1>13, <1>14 DEF ReadInv

LEMMA ReadFrameReads ==
    ASSUME Types, LockInv, ReadInv, Undivided, ReadFrame
    PROVE  ReadInv' /\ drv' \in Driver /\ delivered' \in Seq(0 .. MaxRx) /\ lost' \in Nat
<1>1. Idle(drv) /\ turn = "read" BY DEF ReadFrame, TaskStep, Undivided
<1>2. UNCHANGED <<chip, received, faults, crossed>> BY DEF ReadFrame, spent
<1>3. delivered \in Seq(0 .. MaxRx) /\ lost \in Nat BY DEF Types
<1>4. CASE ReadStarts
  <2>1. /\ drv' = ReadFrameCallback([Take(drv, "read") EXCEPT !.readout = FALSE])
        /\ UNCHANGED <<delivered, lost>>
    BY <1>4 DEF ReadFrame
  <2> QED BY <1>1, <1>2, <1>3, <1>4, <2>1, ReadStartsReads
<1>5. CASE ~ReadStarts /\ ReadFailed
  <2>1. /\ lost' = IF drv.notifyLost THEN lost + 1 ELSE lost
        /\ drv' = EndFailedRead(drv) /\ UNCHANGED delivered
    BY <1>5 DEF ReadFrame
  <2> QED BY <1>1, <1>2, <1>3, <1>5, <2>1, EndFailedReadReads
<1>6. CASE ~ReadStarts /\ ~ReadFailed /\ drv.rxPtr
  <2>1. /\ delivered' = Append(delivered, drv.rxBuf)
        /\ drv' = [drv EXCEPT !.rxPtr = FALSE, !.readout = TRUE] /\ UNCHANGED lost
    BY <1>6 DEF ReadFrame
  <2>2. HandsOn BY <2>1 DEF HandsOn
  <2> QED BY <1>1, <1>2, <1>3, <1>6, <2>1, <2>2, DeliverReads
<1>7. CASE ~ReadStarts /\ ~ReadFailed /\ ~drv.rxPtr
  <2>1. UNCHANGED <<drv, delivered, lost>> BY <1>7 DEF ReadFrame
  <2>2. /\ drv' \in Driver /\ ~drv'.over /\ Idle(drv') /\ drv.irqDbus = {} /\ ~Reading(drv')
    BY <1>1, <2>1, Rest DEF Types
  <2>3. Turns' BY <1>7, <2>1, <2>2 DEF Turns
  <2>4. drv'.lock => drv'.cb \in {"send", "read"} BY <1>1, <2>1 DEF ReadInv, Control
  <2> QED BY <1>1, <1>2, <1>3, <2>1, <2>2, <2>3, <2>4, TaskKeeps
<1> QED BY <1>4, <1>5, <1>6, <1>7

-----------------------------------------------------------------------------
(* The transfers.                                                          *)

\* What the end of a transfer leaves alone.
Kept(d) == <<d.rxState, d.rxPtr, d.readErr, d.notifyLost, d.readout, d.newMsg, d.cb, d.lock, d.op,
             d.hdr, d.crcCheck>>

\* The message that a read of the fifo returns; 0 if there is none.
FirstRx == IF chip.rx = <<>> THEN 0 ELSE Head(chip.rx)

LEMMA DrvAfterIs ==
    ASSUME Types
    PROVE  /\ DrvAfter \in Driver /\ Kept(DrvAfter) = Kept(drv)
           /\ DrvAfter.irqDbus = IF drv.op = "IRQ" THEN chip.dbus ELSE drv.irqDbus
           /\ DrvAfter.rxBuf = IF drv.op = "RXF0" THEN FirstRx ELSE drv.rxBuf
           /\ drv.op = "RXF0S" => DrvAfter.reg = Len(chip.rx) /\ (DrvAfter.tooBig <=> FirstRx \in Big)
<1> DEFINE st == IF chip.txs = <<>> THEN NoStatus ELSE Head(chip.txs)
           tb == FirstRx \in Big
           lrx == Len(chip.rx)
           ltx == Len(chip.tx)
           ltxs == Len(chip.txs)
           A == [drv EXCEPT !.irqGlobal = chip.global, !.irqDbus = chip.dbus]
           B == [drv EXCEPT !.txStatus = st]
           C == [drv EXCEPT !.reg = ltxs]
           D == [drv EXCEPT !.reg = ltx]
           E == [drv EXCEPT !.reg = lrx, !.tooBig = tb]
           F == [drv EXCEPT !.rxBuf = FirstRx]
<1>1. drv \in Driver /\ chip.global \in SUBSET {"SPIERR"} /\ chip.dbus \in SUBSET {"RF0N", "TEFN"}
  BY DEF Types, Chip
<1>2. FirstRx \in 0 .. MaxRx
  <2>1. chip.rx \in Seq(1 .. MaxRx) BY DEF Types, Chip
  <2> QED BY <2>1, DbusCanDriverAssumption DEF FirstRx
<1>3. st \in Statuses
  <2>1. chip.txs \in Seq(Statuses) BY DEF Types, Chip
  <2>2. NoStatus \in Statuses BY DbusCanDriverAssumption DEF NoStatus, Statuses
  <2> QED BY <2>1, <2>2
<1>4. lrx \in Levels /\ ltx \in Levels /\ ltxs \in Levels /\ tb \in BOOLEAN
  <2>1. chip.rx \in Seq(1 .. MaxRx) /\ chip.tx \in Seq(0 .. MaxTx) /\ chip.txs \in Seq(Statuses)
        /\ Len(chip.rx) <= RxFifoMax /\ Len(chip.tx) <= FifoMax /\ Len(chip.txs) <= FifoMax
    BY DEF Types, Chip
  <2> QED BY <2>1, DbusCanDriverAssumption DEF Levels
<1>5. DrvAfter = CASE drv.op = "IRQ" -> A
          [] drv.op = "TXSF" -> B
          [] drv.op = "TXEFS" -> C
          [] drv.op = "TXFQS" -> D
          [] drv.op = "RXF0S" -> E
          [] drv.op = "RXF0" -> F
          [] OTHER -> drv
  BY DEF DrvAfter, FirstRx
<1> HIDE DEF st, tb, lrx, ltx, ltxs
<1>6. A \in Driver /\ Kept(A) = Kept(drv) /\ A.irqDbus = chip.dbus /\ A.rxBuf = drv.rxBuf
  <2>1. A \in Driver BY <1>1 DEF Driver
  <2> QED BY <1>1, <2>1 DEF Driver, Kept
<1>7. B \in Driver /\ Kept(B) = Kept(drv) /\ B.irqDbus = drv.irqDbus /\ B.rxBuf = drv.rxBuf
  <2>1. B \in Driver BY <1>1, <1>3 DEF Driver
  <2> QED BY <1>1, <2>1 DEF Driver, Kept
<1>8. C \in Driver /\ Kept(C) = Kept(drv) /\ C.irqDbus = drv.irqDbus /\ C.rxBuf = drv.rxBuf
  <2>1. C \in Driver BY <1>1, <1>4 DEF Driver
  <2> QED BY <1>1, <2>1 DEF Driver, Kept
<1>9. D \in Driver /\ Kept(D) = Kept(drv) /\ D.irqDbus = drv.irqDbus /\ D.rxBuf = drv.rxBuf
  <2>1. D \in Driver BY <1>1, <1>4 DEF Driver
  <2> QED BY <1>1, <2>1 DEF Driver, Kept
<1>10. E \in Driver /\ Kept(E) = Kept(drv) /\ E.irqDbus = drv.irqDbus /\ E.rxBuf = drv.rxBuf
       /\ E.reg = lrx /\ E.tooBig = tb
  <2>1. E \in Driver BY <1>1, <1>4 DEF Driver
  <2> QED BY <1>1, <2>1 DEF Driver, Kept
<1>11. F \in Driver /\ Kept(F) = Kept(drv) /\ F.irqDbus = drv.irqDbus /\ F.rxBuf = FirstRx
  <2>1. F \in Driver BY <1>1, <1>2 DEF Driver
  <2> QED BY <1>1, <2>1 DEF Driver, Kept
<1> HIDE DEF A, B, C, D, E, F
<1>12. lrx = Len(chip.rx) /\ (tb <=> FirstRx \in Big) BY DEF lrx, tb
<1> QED BY <1>1, <1>5, <1>6, <1>7, <1>8, <1>9, <1>10, <1>11, <1>12

\* No fifo of the chip holds more than it can.
Fits(c) == Len(c.rx) <= RxFifoMax /\ Len(c.tx) <= FifoMax /\ Len(c.txs) <= FifoMax

LEMMA ChipAfterIs ==
    ASSUME Types
    PROVE  /\ ChipAfter \in Chip /\ Fits(ChipAfter)
           /\ ChipAfter.rx = IF drv.op = "RXF0" /\ chip.rx # <<>> THEN Tail(chip.rx) ELSE chip.rx
           /\ ChipAfter.dbus = IF drv.op = "IR" THEN chip.dbus \ drv.irqDbus ELSE chip.dbus
<1> DEFINE db == chip.dbus \ drv.irqDbus
           ts == Tail(chip.txs)
           tr == Tail(chip.rx)
           at == Append(chip.tx, drv.txBuf)
           A == [chip EXCEPT !.dbus = db]
           B == [chip EXCEPT !.global = {}]
           C == [chip EXCEPT !.txs = ts]
           D == [chip EXCEPT !.rx = tr]
           E == [chip EXCEPT !.tx = at]
<1>1. /\ chip \in Chip /\ Fits(chip) /\ drv.txBuf \in 0 .. MaxTx
      /\ chip.rx \in Seq(1 .. MaxRx) /\ chip.tx \in Seq(0 .. MaxTx) /\ chip.txs \in Seq(Statuses)
  BY DEF Types, Chip, Fits, Driver
<1>2. db \in SUBSET {"RF0N", "TEFN"} BY <1>1 DEF Chip
<1>3. chip.txs # <<>> => ts \in Seq(Statuses) /\ Len(ts) <= FifoMax
  <2> SUFFICES ASSUME chip.txs # <<>> PROVE ts \in Seq(Statuses) /\ Len(ts) <= FifoMax OBVIOUS
  <2>1. ts \in Seq(Statuses) /\ Len(ts) = Len(chip.txs) - 1 /\ Len(chip.txs) \in Nat BY <1>1, HeadTailProperties
  <2>2. Len(chip.txs) <= FifoMax BY <1>1 DEF Fits
  <2> HIDE DEF ts
  <2> QED BY <2>1, <2>2, DbusCanDriverAssumption
<1>4. chip.rx # <<>> => tr \in Seq(1 .. MaxRx) /\ Len(tr) <= RxFifoMax
  <2> SUFFICES ASSUME chip.rx # <<>> PROVE tr \in Seq(1 .. MaxRx) /\ Len(tr) <= RxFifoMax OBVIOUS
  <2> DEFINE S == 1 .. MaxRx
  <2>1. chip.rx \in Seq(S) BY <1>1
  <2> HIDE DEF S
  <2>2. tr \in Seq(S) /\ Len(tr) = Len(chip.rx) - 1 /\ Len(chip.rx) \in Nat
    BY <2>1, HeadTailProperties
  <2>3. tr \in Seq(1 .. MaxRx) BY <2>2 DEF S
  <2>4. Len(chip.rx) <= RxFifoMax BY <1>1 DEF Fits
  <2> HIDE DEF tr
  <2> QED BY <2>2, <2>3, <2>4, DbusCanDriverAssumption
<1>5. Len(chip.tx) < FifoMax => at \in Seq(0 .. MaxTx) /\ Len(at) <= FifoMax
  <2>1. at \in Seq(0 .. MaxTx) /\ Len(at) = Len(chip.tx) + 1 /\ Len(chip.tx) \in Nat BY <1>1
  <2> HIDE DEF at
  <2> QED BY <2>1, DbusCanDriverAssumption
<1>6. ChipAfter = CASE drv.op = "IR" -> A
          [] drv.op = "CLEAR_STATUS" -> B
          [] drv.op = "TXSF" /\ chip.txs # <<>> -> C
          [] drv.op = "RXF0" /\ chip.rx # <<>> -> D
          [] drv.op = "TXF" /\ Len(chip.tx) < FifoMax -> E
          [] OTHER -> chip
  BY DEF ChipAfter
<1> HIDE DEF db, ts, tr, at
<1>7. A \in Chip /\ Fits(A) /\ A.rx = chip.rx /\ A.dbus = db BY <1>1, <1>2 DEF Chip, Fits
<1>8. B \in Chip /\ Fits(B) /\ B.rx = chip.rx /\ B.dbus = chip.dbus BY <1>1 DEF Chip, Fits
<1>9. chip.txs # <<>> => C \in Chip /\ Fits(C) /\ C.rx = chip.rx /\ C.dbus = chip.dbus
  BY <1>1, <1>3 DEF Chip, Fits
<1>10. chip.rx # <<>> => D \in Chip /\ Fits(D) /\ D.rx = tr /\ D.dbus = chip.dbus
  BY <1>1, <1>4 DEF Chip, Fits
<1>11. Len(chip.tx) < FifoMax => E \in Chip /\ Fits(E) /\ E.rx = chip.rx /\ E.dbus = chip.dbus
  BY <1>1, <1>5 DEF Chip, Fits
<1> HIDE DEF A, B, C, D, E
<1>12. db = chip.dbus \ drv.irqDbus /\ tr = Tail(chip.rx) BY DEF db, tr
<1>13. CASE drv.op = "TXSF" BY <1>1, <1>6, <1>9, <1>13
<1>14. CASE drv.op = "RXF0" BY <1>1, <1>6, <1>10, <1>12, <1>14
<1>15. CASE drv.op = "TXF" BY <1>1, <1>6, <1>11, <1>15
<1>16. CASE drv.op \in {"IR", "CLEAR_STATUS"} BY <1>1, <1>6, <1>7, <1>8, <1>12, <1>16
<1>17. CASE drv.op \notin {"IR", "CLEAR_STATUS", "TXSF", "RXF0", "TXF"} BY <1>1, <1>6, <1>17
<1> QED BY <1>13, <1>14, <1>15, <1>16, <1>17

LEMMA TransferIs ==
    ASSUME Types, NEW good \in BOOLEAN, NEW accepted \in BOOLEAN, good => accepted,
           Transferred(good, accepted)
    PROVE  /\ drv' \in Driver /\ drv'.over /\ (drv'.bad <=> ~good) /\ Kept(drv') = Kept(drv)
           /\ drv'.irqDbus = IF drv.op = "IRQ" /\ good THEN chip.dbus ELSE drv.irqDbus
           /\ drv'.rxBuf = IF drv.op = "RXF0" /\ good THEN FirstRx ELSE drv.rxBuf
           /\ drv.op = "RXF0S" /\ good => drv'.reg = Len(chip.rx) /\ (drv'.tooBig <=> FirstRx \in Big)
           /\ chip' \in Chip /\ Fits(chip')
           /\ chip'.rx = IF drv.op = "RXF0" /\ chip.rx # <<>> /\ accepted THEN Tail(chip.rx) ELSE chip.rx
           /\ chip'.dbus = IF drv.op = "IR" /\ accepted THEN chip.dbus \ drv.irqDbus ELSE chip.dbus
<1> DEFINE n == [drv EXCEPT !.txStatus = NoStatus]
           d == IF good THEN DrvAfter ELSE IF drv.op = "TXSF" THEN n ELSE drv
           se == IF drv.op \in WriteOps THEN chip.global # {} ELSE d.spiErr
           e == [d EXCEPT !.over = TRUE, !.bad = ~good, !.spiErr = se]
           c == [chip EXCEPT !.global = {"SPIERR"}]
<1>1. drv \in Driver /\ chip \in Chip /\ Fits(chip) BY DEF Types, Fits
<1>2. n \in Driver /\ Kept(n) = Kept(drv) /\ n.irqDbus = drv.irqDbus /\ n.rxBuf = drv.rxBuf
  <2>1. NoStatus \in Statuses BY DbusCanDriverAssumption DEF NoStatus, Statuses
  <2>2. n \in Driver BY <1>1, <2>1 DEF Driver
  <2> QED BY <1>1, <2>2 DEF Driver, Kept
<1>3. drv' = e
  BY DEF Transferred
<1>4. /\ d \in Driver /\ Kept(d) = Kept(drv)
      /\ d.irqDbus = IF drv.op = "IRQ" /\ good THEN chip.dbus ELSE drv.irqDbus
      /\ d.rxBuf = IF drv.op = "RXF0" /\ good THEN FirstRx ELSE drv.rxBuf
      /\ drv.op = "RXF0S" /\ good => d.reg = Len(chip.rx) /\ (d.tooBig <=> FirstRx \in Big)
  <2> HIDE DEF n
  <2> QED BY <1>1, <1>2, DrvAfterIs
<1> HIDE DEF d
<1>5. se \in BOOLEAN BY <1>4 DEF Driver
<1> HIDE DEF se
<1>6. e \in Driver BY <1>4, <1>5, ZenonT(30) DEF Driver
<1>7. e.over /\ (e.bad <=> ~good) /\ Kept(e) = Kept(d) /\ e.irqDbus = d.irqDbus /\ e.rxBuf = d.rxBuf
      /\ e.reg = d.reg /\ e.tooBig = d.tooBig
  BY <1>4 DEF Driver, Kept
<1>8. c \in Chip /\ Fits(c) /\ c.rx = chip.rx /\ c.dbus = chip.dbus BY <1>1 DEF Chip, Fits
<1>9. chip' = IF accepted THEN ChipAfter ELSE c BY DEF Transferred
<1> HIDE DEF e, c
<1>10. /\ chip' \in Chip /\ Fits(chip')
       /\ chip'.rx = IF drv.op = "RXF0" /\ chip.rx # <<>> /\ accepted THEN Tail(chip.rx) ELSE chip.rx
       /\ chip'.dbus = IF drv.op = "IR" /\ accepted THEN chip.dbus \ drv.irqDbus ELSE chip.dbus
  <2>1. CASE accepted BY <1>9, <2>1, ChipAfterIs
  <2>2. CASE ~accepted BY <1>8, <1>9, <2>2
  <2> QED BY <2>1, <2>2
<1> QED BY <1>3, <1>4, <1>6, <1>7, <1>10

\* The first message leaves the chip at the end of the transfer that reads it.
LEMMA RxAfter ==
    ASSUME Types, ReadInv, ~Idle(drv), ~drv.over, NEW accepted \in BOOLEAN,
           chip'.rx = IF drv.op = "RXF0" /\ chip.rx # <<>> /\ accepted THEN Tail(chip.rx) ELSE chip.rx,
           received' = received
    PROVE  /\ InChip' /\ Gone \in Nat /\ FirstRx \in Nat
           /\ IF drv.op = "RXF0" /\ accepted THEN Gone' = Gone + 1 /\ FirstRx = Gone + 1
              ELSE Gone' = Gone /\ chip'.rx = chip.rx
           /\ drv.op = "RXF0" => /\ FirstRx \in 1 .. MaxRx
                                 /\ (drv.rxState = "PROCESS" <=> FirstRx \notin Big)
<1> DEFINE S == 1 .. MaxRx
<1>1. chip.rx \in Seq(S) /\ received \in Nat BY DEF Types, Chip
<1>2. Gone \in Nat /\ \A i \in 1 .. Len(chip.rx) : chip.rx[i] = Gone + i BY DEF ReadInv, InChip
<1>3. Gone = received - Len(chip.rx) /\ Gone' = received - Len(chip'.rx) BY DEF Gone
<1>4. drv.op = "RXF0" => chip.rx # <<>> /\ (drv.rxState = "PROCESS" <=> FirstRx \notin Big)
  BY DEF ReadInv, Control, FirstKnown, FirstRx
<1>5. CASE drv.op = "RXF0" /\ accepted
  <2> DEFINE t == Tail(chip.rx)
  <2>1. chip'.rx = t /\ chip.rx # <<>> BY <1>4, <1>5
  <2> HIDE DEF S
  <2>2. /\ Head(chip.rx) \in S /\ Len(t) = Len(chip.rx) - 1 /\ Len(chip.rx) \in Nat /\ Len(t) \in Nat
        /\ \A i \in 1 .. Len(t) : t[i] = chip.rx[i + 1]
        /\ Head(chip.rx) = chip.rx[1]
    BY <1>1, <2>1, HeadTailProperties
  <2> HIDE DEF t
  <2>3. Gone' = Gone + 1
    <3>1. Len(chip'.rx) = Len(chip.rx) - 1 /\ Len(chip.rx) \in Nat BY <2>1, <2>2
    <3>2. received \in Nat BY <1>1
    <3> DEFINE n == Len(chip.rx)
               m == Len(chip'.rx)
    <3>3. Gone = received - n /\ Gone' = received - m BY <1>3
    <3> HIDE DEF n, m
    <3>4. m = n - 1 /\ n \in Nat BY <3>1 DEF n, m
    <3> QED BY <3>2, <3>3, <3>4
  <2>4. FirstRx = Gone + 1
    <3>1. 1 \in 1 .. Len(chip.rx) BY <2>2
    <3> QED BY <1>2, <2>1, <2>2, <3>1 DEF FirstRx
  <2>5. ASSUME NEW i \in 1 .. Len(t) PROVE t[i] = Gone' + i
    <3>1. i + 1 \in 1 .. Len(chip.rx) BY <2>2
    <3>2. t[i] = chip.rx[i + 1] /\ chip.rx[i + 1] = Gone + (i + 1) BY <1>2, <2>2, <3>1
    <3> QED BY <1>2, <2>2, <2>3, <3>2
  <2>6. FirstRx \in S BY <2>1, <2>2 DEF FirstRx
  <2>7. InChip' BY <1>2, <2>1, <2>3, <2>5 DEF InChip
  <2> QED BY <1>2, <1>4, <1>5, <2>3, <2>4, <2>6, <2>7 DEF S
<1>6. CASE ~(drv.op = "RXF0" /\ accepted)
  <2>1. chip'.rx = chip.rx /\ Gone' = Gone BY <1>3, <1>6
  <2>2. InChip' BY <1>2, <2>1 DEF InChip
  <2>3. chip.rx # <<>> => FirstRx \in 1 .. MaxRx
    <3> HIDE DEF S
    <3>1. chip.rx # <<>> => Head(chip.rx) \in S BY <1>1, HeadTailProperties
    <3> QED BY <3>1 DEF S, FirstRx
  <2>4. FirstRx \in Nat BY <2>3 DEF FirstRx
  <2> QED BY <1>2, <1>4, <1>6, <2>1, <2>2, <2>3, <2>4
<1> QED BY <1>5, <1>6

LEMMA KeptFields ==
    ASSUME NEW d, NEW e, Kept(e) = Kept(d)
    PROVE  /\ e.rxState = d.rxState /\ e.rxPtr = d.rxPtr /\ e.readErr = d.readErr
           /\ e.notifyLost = d.notifyLost /\ e.readout = d.readout /\ e.newMsg = d.newMsg
           /\ e.cb = d.cb /\ e.lock = d.lock /\ e.op = d.op /\ e.hdr = d.hdr /\ e.crcCheck = d.crcCheck
BY DEF Kept

\* A transfer, good or not.
LEMMA TransferReads ==
    ASSUME Types, ReadInv, ~Idle(drv), ~drv.over, NEW good \in BOOLEAN, NEW accepted \in BOOLEAN,
           good => accepted, Transferred(good, accepted), faults' = faults + One(~good)
    PROVE  ReadInv' /\ drv' \in Driver /\ chip' \in Chip /\ Fits(chip')
<1>1. /\ drv' \in Driver /\ drv'.over /\ (drv'.bad <=> ~good) /\ Kept(drv') = Kept(drv)
      /\ drv'.irqDbus = IF drv.op = "IRQ" /\ good THEN chip.dbus ELSE drv.irqDbus
      /\ drv'.rxBuf = IF drv.op = "RXF0" /\ good THEN FirstRx ELSE drv.rxBuf
      /\ drv.op = "RXF0S" /\ good => drv'.reg = Len(chip.rx) /\ (drv'.tooBig <=> FirstRx \in Big)
      /\ chip' \in Chip /\ Fits(chip')
      /\ chip'.rx = IF drv.op = "RXF0" /\ chip.rx # <<>> /\ accepted THEN Tail(chip.rx) ELSE chip.rx
      /\ chip'.dbus = IF drv.op = "IR" /\ accepted THEN chip.dbus \ drv.irqDbus ELSE chip.dbus
  BY TransferIs
<1>2. /\ drv'.rxState = drv.rxState /\ drv'.rxPtr = drv.rxPtr /\ drv'.readErr = drv.readErr
      /\ drv'.notifyLost = drv.notifyLost /\ drv'.readout = drv.readout /\ drv'.newMsg = drv.newMsg
      /\ drv'.cb = drv.cb /\ drv'.lock = drv.lock /\ drv'.op = drv.op /\ drv'.hdr = drv.hdr
      /\ drv'.crcCheck = drv.crcCheck
  BY <1>1, KeptFields
<1>3. UNCHANGED <<turn, received, lost, delivered, crossed>> BY DEF Transferred
<1>4. /\ (Idle(drv') <=> Idle(drv)) /\ (Emptying(drv') <=> Emptying(drv)) /\ (Reading(drv') <=> Reading(drv))
  BY <1>2 DEF Idle, Emptying, Reading
<1>5. /\ InChip' /\ Gone \in Nat /\ FirstRx \in Nat
      /\ IF drv.op = "RXF0" /\ accepted THEN Gone' = Gone + 1 /\ FirstRx = Gone + 1
         ELSE Gone' = Gone /\ chip'.rx = chip.rx
      /\ drv.op = "RXF0" => /\ FirstRx \in 1 .. MaxRx
                            /\ (drv.rxState = "PROCESS" <=> FirstRx \notin Big)
  BY <1>1, <1>3, RxAfter
<1>6. Gone' \in Nat /\ Gone <= Gone' BY <1>5
<1>7. Control(drv)'
  <2>1. drv.op = "IRQ" => drv.cb = "handleGlobal" BY DEF ReadInv, Control, SendOps, IrqSteps
  <2> QED BY <1>1, <1>2, <1>4, <2>1 DEF ReadInv, Control
<1>8. Turns' BY <1>2, <1>3, <1>4 DEF ReadInv, Turns
<1>9. Intact' BY <1>3, <1>5, <1>6 DEF ReadInv, Intact
<1>10. FirstKnown'
  <2>1. drv.op = "RXF0S" /\ good =>
          drv'.reg <= Len(chip'.rx) /\ (drv'.reg > 0 => (drv'.tooBig <=> Head(chip'.rx) \in Big))
    <3>1. chip.rx \in Seq(1 .. MaxRx) /\ Len(chip.rx) \in Nat BY DEF Types, Chip
    <3>2. drv.op = "RXF0S" => chip'.rx = chip.rx BY <1>5
    <3> QED BY <1>1, <3>1, <3>2 DEF FirstRx
  <2>2. drv.rxState = "PROCESS" /\ good => IsNext(drv.rxBuf)'
    <3> SUFFICES ASSUME drv.rxState = "PROCESS", good PROVE IsNext(drv.rxBuf)' OBVIOUS
    <3>1. drv.op = "RXF0" BY DEF ReadInv, Control, Emptying
    <3>2. drv'.rxBuf = Gone' /\ drv'.rxBuf \in (1 .. MaxRx) \ Big /\ Gone' = Gone + 1
      BY <1>1, <1>5, <3>1
    <3>3. \A i \in 1 .. Len(delivered) : delivered[i] \in 1 .. Gone BY DEF ReadInv, Intact
    <3>4. \A i \in 1 .. Len(delivered) : delivered[i] < drv'.rxBuf BY <1>5, <3>2, <3>3
    <3> QED BY <1>3, <3>2, <3>4 DEF IsNext
  <2>3. drv.rxPtr => IsNext(drv.rxBuf)'
    <3> SUFFICES ASSUME drv.rxPtr PROVE IsNext(drv.rxBuf)' OBVIOUS
    <3>1. drv.op # "RXF0" BY DEF ReadInv, Control, Emptying
    <3>2. drv'.rxBuf = drv.rxBuf /\ Gone' = Gone BY <1>1, <1>5, <3>1
    <3>3. IsNext(drv.rxBuf) BY DEF ReadInv, FirstKnown
    <3> QED BY <1>3, <3>2, <3>3 DEF IsNext
  <2> QED BY <1>1, <1>2, <1>4, <2>1, <2>2, <2>3 DEF FirstKnown
<1>11. Counted'
  <2> DEFINE had == "RF0N" \in chip.dbus
             flagged == "RF0N" \in drv.irqDbus
             cleared == drv.op = "IR" /\ good /\ flagged
  <2>1. ("RF0N" \in chip'.dbus => had) /\ (had => received >= 1)
    BY <1>1 DEF ReadInv, Counted
  <2>2. drv.op = "IR" => drv.cb = "handleDbus" /\ drv.irqDbus \subseteq chip.dbus
    BY DEF ReadInv, Control, SendOps, IrqSteps, Counted
  <2>3. drv'.cb # "finish" /\ ~(drv'.cb = "handleDbus" /\ drv'.over) => drv'.irqDbus \subseteq chip'.dbus
    BY <1>1, <1>2, <2>2 DEF ReadInv, Counted
  <2>4. drv.op = "IR" /\ drv'.over /\ ~drv'.bad /\ "RF0N" \in drv'.irqDbus <=> cleared
    <3>1. drv.op = "IR" => drv'.irqDbus = drv.irqDbus BY <1>1
    <3> QED BY <1>1, <3>1
  <2>5. cleared => had /\ "RF0N" \notin chip'.dbus BY <1>1, <2>2
  <2>6. One(cleared) + One("RF0N" \in chip'.dbus) <= One(had) /\ One(cleared) + One("RF0N" \in chip'.dbus) \in Nat
        /\ One(had) \in Nat
    BY <2>1, <2>5 DEF One
  <2>7. One(drv'.op = "IR" /\ drv'.over /\ ~drv'.bad /\ "RF0N" \in drv'.irqDbus) = One(cleared)
    BY <1>2, <2>4 DEF One
  <2>8. One(drv.op = "IR" /\ drv.over /\ ~drv.bad /\ "RF0N" \in drv.irqDbus) = 0 BY DEF One
  <2>9. drv.newMsg \in Nat /\ received \in Nat BY DEF Types, Driver
  <2>10. ~Emptying(drv) => drv.newMsg + One(had) <= received
    <3>1. One(had) \in Nat BY <2>6
    <3> QED BY <2>8, <2>9, <3>1 DEF ReadInv, Counted
  <2>11. One(cleared) \in Nat /\ One("RF0N" \in chip'.dbus) \in Nat BY DEF One
  <2> HIDE DEF cleared, had
  <2>12. ~Emptying(drv) => drv.newMsg + One(cleared) + One("RF0N" \in chip'.dbus) <= received
    BY <2>6, <2>9, <2>10, <2>11
  <2>13. Emptying(drv) => drv.newMsg <= received BY DEF ReadInv, Counted
  <2> QED BY <1>2, <1>3, <1>4, <2>1, <2>3, <2>7, <2>12, <2>13 DEF Counted
<1>12. Told'
  <2>1. One(drv'.over /\ drv'.bad) = One(~good) /\ One(drv.over /\ drv.bad) = 0
        /\ One(drv'.notifyLost) = One(drv.notifyLost) /\ One(drv.notifyLost) \in {0, 1}
        /\ One(~good) \in {0, 1}
    BY <1>1, <1>2 DEF One
  <2>2. lost \in Nat /\ faults \in Nat BY DEF Types
  <2> QED BY <1>1, <1>3, <2>1, <2>2 DEF ReadInv, Told
<1>13. Accounted'
  <2>1. SUFFICES ASSUME ~crossed
                 PROVE  Fitting(Gone') <= Len(delivered) + lost + One(drv.rxPtr) + One(drv.notifyLost)
                                          + One(drv.rxState = "PROCESS")
    <3>1. One(drv'.rxState = "PROCESS" /\ drv'.over) = One(drv.rxState = "PROCESS")
          /\ One(drv'.rxPtr) = One(drv.rxPtr) /\ One(drv'.notifyLost) = One(drv.notifyLost)
      BY <1>1, <1>2 DEF One
    <3>2. Fitting(Gone)' = Fitting(Gone') BY DEF Fitting
    <3> QED BY <1>2, <1>3, <1>4, <2>1, <3>1, <3>2 DEF ReadInv, Accounted
  <2>2. Fitting(Gone) <= Len(delivered) + lost + One(drv.rxPtr) + One(drv.notifyLost) + 0
    <3>1. One(drv.rxState = "PROCESS" /\ drv.over) = 0 BY DEF One
    <3> QED BY <2>1, <3>1 DEF ReadInv, Accounted
  <2>3. Fitting(Gone') <= Fitting(Gone) + One(drv.rxState = "PROCESS") /\ Fitting(Gone') \in Nat
        /\ Fitting(Gone) \in Nat
    <3>1. One(drv.rxState = "PROCESS") = IF drv.rxState = "PROCESS" THEN 1 ELSE 0 BY DEF One
    <3>2. Fitting(Gone) \in Nat /\ Fitting(Gone') \in Nat BY <1>5, <1>6, FittingNat
    <3>3. CASE Gone' = Gone BY <3>1, <3>2, <3>3
    <3>4. CASE Gone' # Gone
      <4>1. drv.op = "RXF0" /\ Gone' = Gone + 1 /\ FirstRx = Gone + 1 BY <1>5, <3>4
      <4>2. drv.rxState = "PROCESS" <=> Gone + 1 \notin Big BY <1>5, <4>1
      <4>3. Fitting(Gone + 1) = IF Gone + 1 \in Big THEN Fitting(Gone) ELSE Fitting(Gone) + 1
        BY <1>5, FittingNext
      <4> QED BY <3>1, <3>2, <4>1, <4>2, <4>3
    <3> QED BY <3>3, <3>4
  <2>4. Len(delivered) \in Nat /\ lost \in Nat BY DEF Types
  <2>5. One(drv.rxPtr) \in Nat /\ One(drv.notifyLost) \in Nat /\ One(drv.rxState = "PROCESS") \in Nat
    BY DEF One
  <2> DEFINE f == Fitting(Gone)
             g == Fitting(Gone')
             n == Len(delivered)
             a == One(drv.rxPtr)
             b == One(drv.notifyLost)
             c == One(drv.rxState = "PROCESS")
  <2>6. f <= n + lost + a + b + 0 /\ g <= f + c BY <2>2, <2>3
  <2>7. f \in Nat /\ g \in Nat /\ n \in Nat /\ lost \in Nat /\ a \in Nat /\ b \in Nat /\ c \in Nat
    BY <2>3, <2>4, <2>5
  <2> HIDE DEF f, g, n, a, b, c
  <2>8. g <= n + lost + a + b + c BY ONLY <2>6, <2>7
  <2> QED BY <2>8 DEF f, g, n, a, b, c
<1> QED BY <1>1, <1>5, <1>7, <1>8, <1>9, <1>10, <1>11, <1>12, <1>13 DEF ReadInv

-----------------------------------------------------------------------------
(* The steps of the scheduler that leave the driver alone, and the chip.   *)

LEMMA Undisturbing ==
    ASSUME Types, ReadInv, UNCHANGED <<drv, received, faults, lost, delivered, crossed>>,
           chip'.rx = chip.rx, chip.dbus \subseteq chip'.dbus,
           "RF0N" \in chip'.dbus => "RF0N" \in chip.dbus, Turns'
    PROVE  ReadInv'
<1>1. Control(drv)' /\ InChip' /\ Intact' /\ FirstKnown' /\ Told' /\ Accounted'
  <2>1. Gone' = Gone BY DEF Gone
  <2> QED BY <2>1 DEF ReadInv, Control, InChip, Intact, FirstKnown, IsNext, Told, Accounted
<1>2. Counted'
  <2>1. One("RF0N" \in chip'.dbus) = One("RF0N" \in chip.dbus) BY DEF One
  <2> QED BY <2>1 DEF ReadInv, Counted
<1> QED BY <1>1, <1>2 DEF ReadInv

LEMMA ChipReceivesReads ==
    ASSUME Types, ReadInv, ChipReceives
    PROVE  ReadInv' /\ chip' \in Chip /\ Fits(chip') /\ received' \in 0 .. MaxRx
<1> DEFINE S == 1 .. MaxRx
           rx == Append(chip.rx, received')
           db == chip.dbus \cup {"RF0N"}
           c == [chip EXCEPT !.rx = rx, !.dbus = db]
<1>1. /\ chip \in Chip /\ chip.rx \in Seq(S) /\ received \in Nat /\ received' = received + 1
      /\ received' \in S /\ received' \in 0 .. MaxRx /\ Len(chip.rx) < RxFifoMax
      /\ Len(chip.rx) \in Nat /\ Fits(chip) /\ db \in SUBSET {"RF0N", "TEFN"}
  BY DbusCanDriverAssumption, SMTT(30) DEF Types, Chip, ChipReceives, Fits
<1>2. UNCHANGED <<drv, turn, faults, lost, delivered, crossed>> BY DEF ChipReceives, history
<1>3. chip' = c BY DEF ChipReceives
<1> HIDE DEF S
<1>4. rx \in Seq(S) /\ Len(rx) = Len(chip.rx) + 1 /\ rx[Len(chip.rx) + 1] = received'
  BY <1>1
<1>5. \A i \in 1 .. Len(chip.rx) : rx[i] = chip.rx[i] BY <1>1
<1> HIDE DEF rx, db
<1>6. c.rx = rx /\ c.dbus = db /\ c.tx = chip.tx /\ c.txs = chip.txs /\ c \in Chip
  <2>1. rx \in Seq(1 .. MaxRx) BY <1>4 DEF S
  <2> QED BY <1>1, <2>1 DEF Chip
<1> HIDE DEF c
<1>7. Fits(chip') BY <1>1, <1>3, <1>4, <1>6, DbusCanDriverAssumption DEF Fits
<1>8. Gone' = Gone /\ Gone \in Nat
  <2> DEFINE n == Len(chip.rx)
             m == Len(chip'.rx)
  <2>1. Gone = received - n /\ Gone' = received' - m BY DEF Gone
  <2>2. m = n + 1 /\ n \in Nat BY <1>1, <1>3, <1>4, <1>6
  <2> HIDE DEF n, m
  <2>3. Gone' = Gone BY <1>1, <2>1, <2>2
  <2> QED BY <2>3 DEF ReadInv, InChip
<1>9. InChip'
  <2>1. ASSUME NEW i \in 1 .. Len(chip'.rx) PROVE chip'.rx[i] = Gone' + i
    <3>1. i \in 1 .. Len(chip.rx) \/ i = Len(chip.rx) + 1 BY <1>1, <1>3, <1>4, <1>6
    <3>2. CASE i \in 1 .. Len(chip.rx)
      BY <1>3, <1>5, <1>6, <1>8, <3>2 DEF ReadInv, InChip
    <3>3. CASE i = Len(chip.rx) + 1
      <4>1. rx[i] = received' BY <1>4, <3>3, Zenon
      <4>2. received' = Gone + i
        <5> DEFINE n == Len(chip.rx)
        <5>1. Gone = received - n BY DEF Gone
        <5>2. n \in Nat /\ i = n + 1 BY <1>1, <3>3
        <5> HIDE DEF n
        <5> QED BY <1>1, <5>1, <5>2
      <4> QED BY <1>3, <1>6, <1>8, <4>1, <4>2
    <3> QED BY <3>1, <3>2, <3>3
  <2> QED BY <1>8, <2>1 DEF InChip
<1>10. Control(drv)' /\ Turns' /\ Intact' /\ Told' /\ Accounted'
  BY <1>2, <1>8 DEF ReadInv, Control, Turns, Intact, Told, Accounted
<1>11. FirstKnown'
  <2>1. chip.rx # <<>> => Head(rx) = Head(chip.rx) /\ rx # <<>>
    <3> SUFFICES ASSUME chip.rx # <<>> PROVE Head(rx) = Head(chip.rx) /\ rx # <<>> OBVIOUS
    <3>1. Len(chip.rx) # 0 BY <1>1
    <3>2. 1 \in 1 .. Len(chip.rx) BY <1>1, <3>1
    <3>3. rx[1] = chip.rx[1] BY <1>5, <3>2
    <3>4. rx # <<>> BY <1>1, <1>4
    <3> QED BY <1>1, <1>4, <3>3, <3>4
  <2>2. ASSUME drv.op = "RXF0S", drv.over, ~drv.bad
        PROVE  drv.reg <= Len(rx) /\ (drv.reg > 0 => (drv.tooBig <=> Head(rx) \in Big))
    <3>1. drv.reg \in Nat BY DbusCanDriverAssumption DEF Types, Driver, Levels
    <3>4. drv.reg <= Len(chip.rx) /\ (drv.reg > 0 => (drv.tooBig <=> Head(chip.rx) \in Big))
      BY <2>2 DEF ReadInv, FirstKnown
    <3>2. drv.reg > 0 => chip.rx # <<>> BY <1>1, <3>1, <3>4
    <3> QED BY <1>1, <1>4, <2>1, <3>1, <3>2, <3>4
  <2>3. ASSUME NEW m, IsNext(m) PROVE IsNext(m)' BY <1>2, <1>8, <2>3 DEF IsNext
  <2> QED BY <1>2, <1>3, <1>6, <2>1, <2>2, <2>3 DEF ReadInv, FirstKnown
<1>12. Counted'
  <2>1. One("RF0N" \in chip'.dbus) = 1 BY <1>3, <1>6 DEF One, db
  <2>2. One("RF0N" \in chip.dbus) \in Nat /\ received' >= 1 BY <1>1 DEF One
  <2>3. One(drv.op = "IR" /\ drv.over /\ ~drv.bad /\ "RF0N" \in drv.irqDbus) \in Nat BY DEF One
  <2>4. drv.newMsg \in Nat BY DEF Types, Driver
  <2>5. chip.dbus \subseteq chip'.dbus BY <1>3, <1>6 DEF db
  <2> DEFINE a == One(drv.op = "IR" /\ drv.over /\ ~drv.bad /\ "RF0N" \in drv.irqDbus)
             b == One("RF0N" \in chip.dbus)
  <2>6. IF Emptying(drv) THEN drv.newMsg <= received ELSE drv.newMsg + a + b <= received
    BY DEF ReadInv, Counted
  <2>7. a \in Nat /\ b \in Nat BY <2>2, <2>3
  <2> HIDE DEF a, b
  <2>8. IF Emptying(drv) THEN drv.newMsg <= received' ELSE drv.newMsg + a + 1 <= received'
    BY <1>1, <2>4, <2>6, <2>7
  <2> QED BY <1>2, <2>1, <2>2, <2>5, <2>8 DEF ReadInv, Counted, a
<1> QED BY <1>1, <1>3, <1>6, <1>7, <1>9, <1>10, <1>11, <1>12 DEF ReadInv

LEMMA ChipSendsReads ==
    ASSUME Types, ReadInv, ChipSends PROVE ReadInv' /\ chip' \in Chip /\ Fits(chip')
<1>1. chip' = [chip EXCEPT !.tx = Tail(@), !.txs = Append(@, Head(chip.tx)), !.dbus = @ \cup {"TEFN"}]
  BY DEF ChipSends
<1> DEFINE tx == Tail(chip.tx)
           db == chip.dbus \cup {"TEFN"}
           st == Head(chip.tx)
           txs == Append(chip.txs, st)
           S == 0 .. MaxTx
<1>2. /\ chip \in Chip /\ chip.tx \in Seq(S) /\ chip.tx # <<>> /\ Fits(chip)
      /\ chip.txs \in Seq(Statuses) /\ Len(chip.txs) < FifoMax /\ db \in SUBSET {"RF0N", "TEFN"}
      /\ Len(chip.txs) \in Nat /\ Len(chip.tx) \in Nat
  BY DEF Types, Chip, ChipSends, Fits
<1>3. tx \in Seq(S) /\ Len(tx) = Len(chip.tx) - 1 /\ Head(chip.tx) \in S
  <2> HIDE DEF S
  <2> QED BY <1>2, HeadTailProperties
<1>4. st \in Statuses BY <1>3 DEF Statuses
<1> HIDE DEF st, tx
<1>5. txs \in Seq(Statuses) /\ Len(txs) = Len(chip.txs) + 1 BY <1>2, <1>4
<1> HIDE DEF db, txs
<1> DEFINE c == [chip EXCEPT !.tx = tx, !.txs = txs, !.dbus = db]
<1>6. chip' = c BY <1>1 DEF tx, db, txs, st
<1>7. c \in Chip /\ c.rx = chip.rx /\ c.dbus = db /\ c.tx = tx /\ c.txs = txs
  BY <1>2, <1>3, <1>5 DEF Chip
<1> HIDE DEF c
<1>8. Fits(chip')
  <2>1. Len(chip.rx) <= RxFifoMax /\ Len(chip.tx) <= FifoMax BY <1>2 DEF Fits
  <2> QED BY <1>2, <1>3, <1>5, <1>6, <1>7, <2>1, DbusCanDriverAssumption, SMTT(30) DEF Fits
<1>9. UNCHANGED <<drv, turn, received, faults, lost, delivered, crossed>>
  BY DEF ChipSends, spent, history
<1>10. Turns' BY <1>9 DEF ReadInv, Turns
<1> QED BY <1>6, <1>7, <1>8, <1>9, <1>10, Undisturbing DEF db

-----------------------------------------------------------------------------
(* Every step, and the theorems.                                           *)

LEMMA SpiInterruptReads ==
    ASSUME Types, LockInv, ReadInv, SpiInterrupt PROVE ReadInv' /\ drv' \in Driver
<1>1. ~Idle(drv) /\ drv.over /\ drv.event BY DEF SpiInterrupt, LockInv, Good
<1>2. drv' = Callback(Ended, chip)
  <2>1. Ended.event = drv.event BY DEF Ended, Types, Driver
  <2> QED BY <1>1, <2>1 DEF SpiInterrupt, Ended
<1>3. UNCHANGED Others BY DEF SpiInterrupt, Others, spent, history
<1> QED BY <1>1, <1>2, <1>3, IrqCallbackKeeps, SendCallbackKeeps, ReadCallbackKeeps

LEMMA TransmitReads ==
    ASSUME Types, ReadInv, Undivided, Transmit PROVE ReadInv' /\ drv' \in Driver /\ submitted' \in 0 .. MaxTx
<1>1. Idle(drv) /\ turn = "send" BY DEF Transmit, TaskStep, Undivided
<1>2. submitted' \in 0 .. MaxTx BY DbusCanDriverAssumption, SMTT(30) DEF Transmit, Types
<1>3. Flagged(drv')
  <2>1. FALSE \in BOOLEAN OBVIOUS
  <2> QED BY <1>1, <1>2, <2>1, OneFlag DEF Transmit
<1> QED BY <1>1, <1>2, <1>3, FlaggedKeeps DEF Transmit, Flagged, spent, history

LEMMA TransferEndsReads ==
    ASSUME Types, ReadInv, TransferEnds PROVE ReadInv' /\ drv' \in Driver /\ chip' \in Chip /\ Fits(chip')
<1>1. One(~TRUE) = 0 BY DEF One
<1>2. faults' = faults + One(~TRUE) BY <1>1 DEF TransferEnds, Types
<1> QED BY <1>2, TransferReads DEF TransferEnds

LEMMA TransferFailsReads ==
    ASSUME Types, ReadInv, TransferFails PROVE ReadInv' /\ drv' \in Driver /\ chip' \in Chip /\ Fits(chip')
<1>1. One(~FALSE) = 1 BY DEF One
<1>2. faults' = faults + One(~FALSE) BY <1>1 DEF TransferFails
<1>3. PICK accepted \in BOOLEAN : Transferred(FALSE, accepted) BY DEF TransferFails
<1> QED BY <1>2, <1>3, TransferReads DEF TransferFails

\* Every step, and what it does to the driver and to the chip.
LEMMA NextReads ==
    ASSUME Types, LockInv, ReadInv, Undivided, [Next]_vars
    PROVE  /\ ReadInv' /\ drv' \in Driver /\ chip' \in Chip /\ Fits(chip')
           /\ delivered' \in Seq(0 .. MaxRx) /\ lost' \in Nat
<1>1. drv \in Driver /\ chip \in Chip /\ Fits(chip) /\ delivered \in Seq(0 .. MaxRx) /\ lost \in Nat
  BY DEF Types, Fits
<1>2. CASE UNCHANGED vars
  <2>1. UNCHANGED <<drv, chip, turn, received, faults, lost, delivered, crossed>>
    BY <1>2 DEF vars, spent, history
  <2>2. Turns' BY <2>1 DEF ReadInv, Turns
  <2> QED BY <1>1, <2>1, <2>2, Undisturbing
<1>3. CASE Transmit
  <2>1. UNCHANGED <<chip, delivered, lost>> BY <1>3 DEF Transmit, history
  <2> QED BY <1>1, <1>3, <2>1, TransmitReads
<1>4. CASE HandleTask
  <2>1. UNCHANGED <<chip, delivered, lost>> BY <1>4 DEF HandleTask
  <2> QED BY <1>1, <1>4, <2>1, HandleTaskReads
<1>5. CASE SendFrameLocked \/ IrqTimeout \/ HandleInterruptLocked \/ HandleInterruptGoesOn
  <2>1. UNCHANGED <<drv, chip, received, faults, lost, delivered, crossed>>
    <3>1. CASE HandleInterruptGoesOn
      <4>1. drv.lock BY <3>1 DEF HandleInterruptGoesOn, TaskStep, LockInv, Locked
      <4> QED BY <3>1, <4>1 DEF HandleInterruptGoesOn, spent, history
    <3> QED BY <1>5, <3>1 DEF SendFrameLocked, IrqTimeout, HandleInterruptLocked, spent, history
  <2>2. Turns'
    <3>1. CASE IrqTimeout BY <2>1, <3>1 DEF IrqTimeout, ReadInv, Turns
    <3>2. CASE SendFrameLocked \/ HandleInterruptGoesOn
      <4>1. turn \in {"send", "irqLocked"} /\ Idle(drv)
        BY <3>2 DEF SendFrameLocked, HandleInterruptGoesOn, TaskStep, Undivided
      <4> QED BY <2>1, <4>1 DEF ReadInv, Turns, Reading, Idle
    <3>3. CASE HandleInterruptLocked
      <4>1. turn = "irq" /\ Idle(drv) /\ drv.lock
        BY <3>3 DEF HandleInterruptLocked, IrqLocked, TaskStep, Undivided
      <4> QED BY <2>1, <4>1 DEF ReadInv, Turns, Reading, Idle
    <3> QED BY <1>5, <3>1, <3>2, <3>3
  <2> QED BY <1>1, <2>1, <2>2, Undisturbing
<1>6. CASE SendFrameGoesOn
  <2>1. UNCHANGED <<chip, delivered, lost>> BY <1>6 DEF SendFrameGoesOn
  <2> QED BY <1>1, <1>6, <2>1, SendFrameGoesOnReads
<1>7. CASE HandleInterrupt
  <2>1. UNCHANGED <<chip, delivered, lost>> BY <1>7 DEF HandleInterrupt, history
  <2> QED BY <1>1, <1>7, <2>1, HandleInterruptReads
<1>8. CASE ReadFrame
  <2>1. UNCHANGED chip BY <1>8 DEF ReadFrame
  <2> QED BY <1>1, <1>8, <2>1, ReadFrameReads
<1>9. CASE ReadFrameGoesOn
  <2>1. UNCHANGED <<chip, delivered, lost>> BY <1>9 DEF ReadFrameGoesOn
  <2> QED BY <1>1, <1>9, <2>1, ReadFrameGoesOnReads
<1>10. CASE SpiInterrupt
  <2>1. UNCHANGED <<chip, delivered, lost>> BY <1>10 DEF SpiInterrupt, history
  <2> QED BY <1>1, <1>10, <2>1, SpiInterruptReads
<1>11. CASE TransferEnds
  <2>1. UNCHANGED <<delivered, lost>> BY <1>11 DEF TransferEnds, Transferred
  <2> QED BY <1>1, <1>11, <2>1, TransferEndsReads
<1>12. CASE TransferFails
  <2>1. UNCHANGED <<delivered, lost>> BY <1>12 DEF TransferFails, Transferred
  <2> QED BY <1>1, <1>12, <2>1, TransferFailsReads
<1>13. CASE ChipReceives
  <2>1. UNCHANGED <<drv, delivered, lost>> BY <1>13 DEF ChipReceives, history
  <2> QED BY <1>1, <1>13, <2>1, ChipReceivesReads
<1>14. CASE ChipSends
  <2>1. UNCHANGED <<drv, delivered, lost>> BY <1>14 DEF ChipSends, history
  <2> QED BY <1>1, <1>14, <2>1, ChipSendsReads
<1> QED
  BY <1>2, <1>3, <1>4, <1>5, <1>6, <1>7, <1>8, <1>9, <1>10, <1>11, <1>12, <1>13, <1>14 DEF Next, Task

LEMMA NextTypes ==
    ASSUME Types, LockInv, ReadInv, Undivided, [Next]_vars PROVE Types'
<1>1. /\ drv' \in Driver /\ chip' \in Chip /\ Fits(chip')
      /\ delivered' \in Seq(0 .. MaxRx) /\ lost' \in Nat
  BY NextReads
<1>2. /\ drv.txBuf \in 0 .. MaxTx /\ drv.txStatus \in 0 .. MaxTx /\ drv.irqDone \in BOOLEAN
      /\ faults \in 0 .. MaxFaults /\ submitted \in 0 .. MaxTx /\ received \in 0 .. MaxRx
      /\ dll \in {"IDLE", "MSG_TO_SEND", "WAIT_FOR_MSG_DELIVERY"} /\ pending \in BOOLEAN
      /\ turn \in {"send", "sendLocked", "irq", "irqLocked", "read", "readLocked"}
      /\ report \in [msg : 0 .. MaxTx, of : 0 .. MaxTx] /\ written \in 0 .. MaxTx
      /\ repeated \in BOOLEAN /\ crossed \in BOOLEAN /\ raced \in BOOLEAN
  BY DEF Types, Driver, Statuses
<1> DEFINE Small == <<dll, pending, turn, faults, submitted, received, report, written, repeated, crossed, raced>>
<1>3. /\ dll' \in {"IDLE", "MSG_TO_SEND", "WAIT_FOR_MSG_DELIVERY"} /\ pending' \in BOOLEAN
      /\ turn' \in {"send", "sendLocked", "irq", "irqLocked", "read", "readLocked"}
      /\ faults' \in 0 .. MaxFaults /\ submitted' \in 0 .. MaxTx /\ received' \in 0 .. MaxRx
      /\ report' \in [msg : 0 .. MaxTx, of : 0 .. MaxTx] /\ written' \in 0 .. MaxTx
      /\ repeated' \in BOOLEAN /\ crossed' \in BOOLEAN /\ raced' \in BOOLEAN
  <2>1. CASE UNCHANGED vars BY <1>2, <2>1 DEF vars, spent, history
  <2>2. CASE Transmit
    <3>1. submitted' \in 0 .. MaxTx BY <2>2, TransmitReads
    <3>2. dll' = "MSG_TO_SEND" /\ UNCHANGED <<pending, turn, faults, received, report, written, repeated, crossed, raced>>
      BY <2>2 DEF Transmit, history
    <3> QED BY <1>2, <3>1, <3>2
  <2>3. CASE HandleTask
    <3>1. UNCHANGED <<pending, faults, submitted, received, written, repeated, crossed, raced>> /\ turn' = "irq"
      BY <2>3 DEF HandleTask, spent
    <3>2. dll' \in {dll, "WAIT_FOR_MSG_DELIVERY", "IDLE"} BY <2>3, Zenon DEF HandleTask
    <3>3. report' \in {report, [msg |-> drv.txBuf, of |-> drv.txStatus]} BY <2>3, Zenon DEF HandleTask
    <3> QED BY <1>2, <3>1, <3>2, <3>3
  <2>4. CASE SendFrameLocked \/ IrqTimeout
    BY <1>2, <2>4 DEF SendFrameLocked, IrqTimeout, spent, history
  <2>11. CASE HandleInterrupt \/ HandleInterruptLocked \/ HandleInterruptGoesOn
    BY <1>2, <2>11 DEF HandleInterrupt, HandleInterruptLocked, HandleInterruptGoesOn, spent, history
  <2>5. CASE SendFrameGoesOn
    BY <1>2, <2>5 DEF SendFrameGoesOn, spent
  <2>6. CASE ReadFrameGoesOn
    BY <1>2, <2>6 DEF ReadFrameGoesOn, spent
  <2>7. CASE ReadFrame
    <3>1. UNCHANGED <<dll, pending, faults, submitted, received, report, written, repeated, crossed, raced>>
          /\ turn' \in {"send", "readLocked"}
      BY <2>7 DEF ReadFrame, spent
    <3> QED BY <1>2, <3>1
  <2>8. CASE SpiInterrupt \/ ChipSends
    BY <1>2, <2>8 DEF SpiInterrupt, ChipSends, spent, history
  <2>9. CASE TransferEnds \/ TransferFails
    <3>1. faults' \in 0 .. MaxFaults
      <4>1. faults' = faults \/ (faults < MaxFaults /\ faults' = faults + 1)
        BY <2>9 DEF TransferEnds, TransferFails
      <4> QED BY <1>2, <4>1, DbusCanDriverAssumption
    <3>2. PICK good \in BOOLEAN, accepted \in BOOLEAN : Transferred(good, accepted)
      BY <2>9 DEF TransferEnds, TransferFails
    <3>3. UNCHANGED <<dll, pending, turn, submitted, received, report, crossed, raced>>
          /\ written' \in {written, drv.txBuf} /\ repeated' \in BOOLEAN
      BY <1>2, <3>2 DEF Transferred
    <3> QED BY <1>2, <3>1, <3>3
  <2>10. CASE ChipReceives
    <3>1. received' \in 0 .. MaxRx BY <2>10, ChipReceivesReads
    <3> QED BY <1>2, <2>10, <3>1 DEF ChipReceives, history
  <2> QED BY <2>1, <2>2, <2>3, <2>4, <2>5, <2>6, <2>7, <2>8, <2>9, <2>10, <2>11 DEF Next, Task
<1> QED BY <1>1, <1>3 DEF Types, Fits

LEMMA InitReads == Init => Types /\ ReadInv
<1> SUFFICES ASSUME Init PROVE Types /\ ReadInv OBVIOUS
<1>1. 0 \in 0 .. MaxTx /\ 0 \in 0 .. MaxRx /\ 0 \in Levels /\ 0 \in 0 .. MaxFaults /\ 0 \in Nat
      /\ NoStatus \in Statuses
  BY DbusCanDriverAssumption DEF NoStatus, Statuses, Levels
<1>2. drv \in Driver
  BY <1>1 DEF Init, Driver, Callbacks, TxStates, RxStates, ReadOps, Ops
<1>3. chip \in Chip
  <2>1. <<>> \in Seq(1 .. MaxRx) /\ <<>> \in Seq(0 .. MaxTx) /\ <<>> \in Seq(Statuses) OBVIOUS
  <2> QED BY <2>1 DEF Init, Chip
<1>4. /\ drv.op = NoTransfer /\ drv.cb = "send" /\ drv.rxState = "CHECK_STATUS" /\ ~drv.rxPtr
      /\ ~drv.readErr /\ ~drv.notifyLost /\ drv.newMsg = 0 /\ ~drv.over /\ ~drv.bad /\ drv.irqDbus = {}
      /\ ~drv.lock /\ drv.readout
  BY DEF Init
<1>5. chip.rx = <<>> /\ chip.dbus = {} /\ Fits(chip) BY DbusCanDriverAssumption DEF Init, Fits
<1>6. Types
  <2>1. <<>> \in Seq(0 .. MaxRx) OBVIOUS
  <2> QED BY <1>1, <1>2, <1>3, <1>5, <2>1 DEF Init, Types, Fits
<1>7. Idle(drv) /\ ~Reading(drv) /\ ~Emptying(drv) /\ drv.op \notin {"IR", "RXF0", "RXF0S", "IRQ"}
  BY <1>4 DEF Idle, Reading, Emptying, NoTransfer
<1>8. received = 0 /\ delivered = <<>> /\ lost = 0 /\ faults = 0 BY DEF Init
<1>9. Gone = 0 /\ Len(chip.rx) = 0
  <2>1. Len(chip.rx) = 0 BY <1>5
  <2> QED BY <1>8, <2>1 DEF Gone
<1>10. Control(drv) /\ Turns BY <1>4, <1>7 DEF Control, Turns
<1>11. InChip /\ Intact BY <1>8, <1>9 DEF InChip, Intact
<1>12. FirstKnown BY <1>4, <1>7 DEF FirstKnown
<1>13. Counted BY <1>4, <1>5, <1>7, <1>8 DEF Counted, One
<1>14. Told BY <1>4, <1>7, <1>8 DEF Told, One
<1>15. Accounted
  <2>1. Fitting(0) = 0
    <3>1. {m \in 1 .. 0 : m \notin Big} = {} OBVIOUS
    <3> QED BY <3>1, FS_EmptySet DEF Fitting
  <2> QED BY <1>4, <1>7, <1>8, <1>9, <2>1 DEF Accounted, One
<1> QED BY <1>6, <1>10, <1>11, <1>12, <1>13, <1>14, <1>15 DEF ReadInv

\* The inductive invariant.
ReceiveInv == LockInv /\ Types /\ ReadInv

LEMMA ReceiveInductive == ASSUME Undivided PROVE Spec => []ReceiveInv
<1>1. Init => ReceiveInv BY InitLock, InitReads DEF ReceiveInv
<1>2. ReceiveInv /\ [Next]_vars => ReceiveInv' BY NextLock, NextReads, NextTypes DEF ReceiveInv
<1> QED BY <1>1, <1>2, PTL DEF Spec

\* Every variable has its type.  newMsg stays within the messages received, and
\* a loss is told at most once for each failed transfer: the counters of
\* DBCDBUS_irqCb* and of DBCDBUS_readFrameCallback never run away.
THEOREM TypesOK == ASSUME Undivided PROVE Spec => []TypeOK
<1>1. ReceiveInv => TypeOK
  <2> SUFFICES ASSUME ReceiveInv PROVE TypeOK OBVIOUS
  <2>1. /\ {drv.lock, drv.event, drv.irqDone, drv.frameSent, drv.txFinished, drv.sendErr, drv.readErr,
            drv.notifyLost, drv.crcCheck, drv.readout, drv.rxPtr, drv.tooBig, drv.bad, drv.spiErr,
            drv.over, pending, repeated, crossed, raced} \subseteq BOOLEAN
        /\ drv.cb \in Callbacks /\ {drv.txState, drv.rxState} \subseteq States
        /\ drv.op \in ReadOps \cup WriteOps \cup {NoTransfer} /\ drv.hdr \in ReadOps
    BY DEF ReceiveInv, Types, Driver, TxStates, RxStates, States, Ops
  <2>2. /\ dll \in {"IDLE", "MSG_TO_SEND", "WAIT_FOR_MSG_DELIVERY"}
        /\ turn \in {"send", "sendLocked", "irq", "irqLocked", "read", "readLocked"}
        /\ drv.reg \in 0 .. FifoMax \cup 0 .. RxFifoMax
        /\ submitted \in 0 .. MaxTx /\ {drv.txBuf, written, report.msg, report.of} \subseteq 0 .. MaxTx
        /\ received \in 0 .. MaxRx /\ drv.rxBuf \in 0 .. MaxRx /\ faults \in 0 .. MaxFaults
    BY DEF ReceiveInv, Types, Driver, Levels
  <2>3. Len(chip.rx) \in 0 .. RxFifoMax /\ {Len(chip.tx), Len(chip.txs)} \subseteq 0 .. FifoMax
    <3>1. Len(chip.rx) \in Nat /\ Len(chip.tx) \in Nat /\ Len(chip.txs) \in Nat
      BY DEF ReceiveInv, Types, Chip
    <3> QED BY <3>1, DbusCanDriverAssumption DEF ReceiveInv, Types
  <2>4. drv.newMsg \in 0 .. MaxRx
    <3>1. drv.newMsg \in Nat /\ received \in 0 .. MaxRx BY DEF ReceiveInv, Types, Driver
    <3>2. One(drv.op = "IR" /\ drv.over /\ ~drv.bad /\ "RF0N" \in drv.irqDbus) \in Nat
          /\ One("RF0N" \in chip.dbus) \in Nat
      BY DEF One
    <3>3. drv.newMsg <= received BY <3>1, <3>2 DEF ReceiveInv, ReadInv, Counted
    <3> QED BY <3>1, <3>3, DbusCanDriverAssumption
  <2>5. lost \in 0 .. faults
    <3>1. One(drv.notifyLost) \in Nat /\ One(drv.over /\ drv.bad) \in Nat /\ lost \in Nat /\ faults \in Nat
      BY DEF One, ReceiveInv, Types
    <3> QED BY <3>1 DEF ReceiveInv, ReadInv, Told
  <2> QED BY <2>1, <2>2, <2>3, <2>4, <2>5 DEF TypeOK
<1> QED BY <1>1, ReceiveInductive, PTL

\* What DBCDBUS_readFrame returns are messages that arrived and fit the buffer,
\* each once and in the order of the bus, whatever transfers fail and are
\* repeated, and also where a chain goes on under the lock of another one.
THEOREM DeliveredStaysIntact == ASSUME Undivided PROVE Spec => []DeliveredIntact
<1>1. ReceiveInv => DeliveredIntact
  <2> SUFFICES ASSUME ReceiveInv PROVE DeliveredIntact OBVIOUS
  <2>1. Gone \in Nat /\ Gone <= received /\ received \in Nat
    <3> DEFINE n == Len(chip.rx)
    <3>1. n \in Nat /\ received \in Nat BY DEF ReceiveInv, Types, Chip
    <3>2. Gone = received - n /\ Gone \in Nat BY DEF Gone, ReceiveInv, ReadInv, InChip
    <3> HIDE DEF n
    <3> QED BY <3>1, <3>2
  <2>2. ASSUME NEW i \in 1 .. Len(delivered) PROVE delivered[i] \in (1 .. received) \ Big
    <3>1. delivered[i] \in (1 .. Gone) \ Big BY DEF ReceiveInv, ReadInv, Intact
    <3> QED BY <2>1, <3>1
  <2> QED BY <2>2 DEF DeliveredIntact, ReceiveInv, ReadInv, Intact
<1> QED BY <1>1, ReceiveInductive, PTL

\* As long as no chain went on under the lock of another one, every message that
\* was taken out of the chip and fits the buffer was handed on or reported lost
\* when no read is going on (DBCDBUS_isNotifyRxMsgLost).
THEOREM NothingIsDropped == ASSUME Undivided PROVE Spec => []NoneDropped
<1>1. ReceiveInv => NoneDropped
  <2> SUFFICES ASSUME ReceiveInv, drv.readout, ~crossed
               PROVE  Cardinality({m \in 1 .. received - Len(chip.rx) : m \notin Big}) <= Len(delivered) + lost
    BY DEF NoneDropped
  <2>1. drv.rxState = "CHECK_STATUS" /\ ~drv.rxPtr /\ ~drv.readErr BY DEF ReceiveInv, ReadInv, Control
  <2>2. ~drv.notifyLost BY <2>1 DEF ReceiveInv, ReadInv, Accounted
  <2>3. One(drv.rxPtr) = 0 /\ One(drv.notifyLost) = 0 /\ One(drv.rxState = "PROCESS" /\ drv.over) = 0
    BY <2>1, <2>2 DEF One
  <2>4. Fitting(Gone) <= Len(delivered) + lost + 0 + 0 + 0
    BY <2>3 DEF ReceiveInv, ReadInv, Accounted
  <2>5. Len(delivered) \in Nat /\ lost \in Nat BY DEF ReceiveInv, Types
  <2>6. Fitting(Gone) <= Len(delivered) + lost BY <2>4, <2>5
  <2> QED BY <2>6 DEF Fitting, Gone
<1> QED BY <1>1, ReceiveInductive, PTL

=============================================================================
