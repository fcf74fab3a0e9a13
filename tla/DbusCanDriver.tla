---------------------------- MODULE DbusCanDriver ----------------------------
(***************************************************************************)
(* The data link layer over the DBusCAN chip: dbusdll_dbuscan.c, polled by *)
(* the scheduler, on top of dbuscan_dbus.c, whose three jobs (handle the   *)
(* chip's interrupt, write a frame, read a frame) are chains of            *)
(* non-blocking SPI transfers.  Each job takes DBCDBUS_isSpiLock; the      *)
(* callback of a finished transfer runs in the interrupt of the SPI and    *)
(* starts the next one.  The build with SPI CRC and without an operating   *)
(* system, while the chip is in its normal mode.                           *)
(*                                                                         *)
(* The callbacks are operators on drv, the record of the driver's          *)
(* variables; a step of the task, the end of a transfer and the interrupt  *)
(* that follows it are actions, and the chip acts at any time.             *)
(***************************************************************************)
EXTENDS Naturals, Sequences, FiniteSets

CONSTANTS
    MaxTx,          \* messages sent
    MaxRx,          \* messages received
    Big,            \* those of them that are longer than the receive buffer
    MaxMessages,    \* messages sent and received
    FifoMax,        \* DBC_DBUS_FIFO_MAX_MSG_CNT, DBC_DBUS_TXEFS_TEFFL_MAX: 8
    RxFifoMax,      \* messages that the chip keeps until they are read
    MaxFaults,      \* SPI transfers that fail their CRC
    Prompt          \* a chain of transfers ends before the task's next step

ASSUME DbusCanDriverAssumption ==
    /\ MaxTx \in Nat /\ MaxRx \in Nat /\ Big \subseteq 1 .. MaxRx
    /\ MaxMessages \in Nat /\ FifoMax \in Nat \ {0} /\ RxFifoMax \in Nat
    /\ MaxFaults \in Nat /\ Prompt \in BOOLEAN

VARIABLES
    drv,            \* the variables of dbuscan_dbus.c and dbuscan_drv.c
    dll,            \* DLL_taskState: IDLE, MSG_TO_SEND or WAIT_FOR_MSG_DELIVERY
    pending,        \* DLL_isDbuscanIrqPending
    turn,           \* the next step of the scheduler's loop
    chip,           \* the DBusCAN chip, external
    faults, submitted, received,    \* what is used up of the bounds
    \* History.
    report,         \* the last result reported: of which message, whose status
    delivered,      \* the messages handed to the presentation layer
    lost,           \* messages the application was told are lost
    written,        \* the last frame given to the chip
    repeated,       \* a frame was given to it twice
    crossed,        \* a chain went on with the lock of another one
    raced           \* the task acted on a lock or a flag that a chain had changed

spent == <<faults, submitted, received>>
history == <<report, delivered, lost, written, repeated, crossed, raced>>
vars == <<drv, dll, pending, turn, chip, spent, history>>

NoTransfer == "none"
ReadOps == {"IRQ", "STATUS", "TXSF", "TXEFS", "TXFQS", "RXF0S", "RXF0"}
WriteOps == {"IF", "CLEAR_STATUS", "IR", "TXF"}

\* The status of a frame, acknowledged or not, stands for the message it is of.
NoStatus == 0

Init ==
    /\ drv = [lock |-> FALSE, event |-> FALSE, cb |-> "send", irqDone |-> FALSE,
              frameSent |-> FALSE, txFinished |-> FALSE, sendErr |-> FALSE,
              readErr |-> FALSE, notifyLost |-> FALSE, crcCheck |-> FALSE,
              txState |-> "READ_FIFO_STATUS", rxState |-> "CHECK_STATUS",
              readout |-> TRUE, newMsg |-> 0, rxPtr |-> FALSE, rxBuf |-> 0, txBuf |-> 0,
              irqGlobal |-> {}, irqDbus |-> {}, txStatus |-> NoStatus,
              reg |-> 0, tooBig |-> FALSE, hdr |-> "IRQ", last |-> "IRQ",
              bad |-> FALSE, spiErr |-> FALSE, op |-> NoTransfer, over |-> FALSE]
    /\ dll = "IDLE" /\ pending = FALSE /\ turn = "send"
    /\ chip = [rx |-> <<>>, tx |-> <<>>, txs |-> <<>>, global |-> {}, dbus |-> {}]
    /\ faults = 0 /\ submitted = 0 /\ received = 0
    /\ report = [msg |-> 0, of |-> 0] /\ delivered = <<>> /\ lost = 0
    /\ written = 0 /\ repeated = FALSE /\ crossed = FALSE /\ raced = FALSE

-----------------------------------------------------------------------------
(* The SPI, DBCDRV_*Nbl: a transfer starts only if there is none, which is *)
(* always so in a callback that the end of a transfer calls.  The header   *)
(* of a read is set before that is known, and the CRC of what a read       *)
(* returned is computed with the header as it is when it is checked.  What *)
(* an earlier transfer returned is not used any more and is forgotten.     *)

Idle(d) == d.op = NoTransfer
SetHdr(d, op) == [d EXCEPT !.last = op, !.hdr = IF op \in ReadOps THEN op ELSE @]
Start(d, op) == [SetHdr(d, op) EXCEPT !.op = op, !.bad = FALSE, !.spiErr = FALSE,
                                      !.reg = 0, !.tooBig = FALSE]

\* Mutant of ReadBad: only the header counts.
ReadBadHeader(d, op) == d.hdr # op

ReadBad(d, op) == d.bad \/ d.hdr # op               \* DBCDRV_isSpiCrcReadError
WriteBad(d) == d.bad \/ d.last \notin WriteOps      \* DBCDRV_isSpiCrcWriteError
Interrupt(c) == c.global # {} \/ c.dbus # {}        \* DBCDRV_isIrqEvent: the pin is low

Take(d, cb) == [d EXCEPT !.cb = cb, !.event = TRUE, !.lock = TRUE]
Release(d) == [d EXCEPT !.event = FALSE, !.lock = FALSE]
Then(d, cb, op) == Start([d EXCEPT !.cb = cb], op)
WriteReg(d, op, cb) == Then([d EXCEPT !.crcCheck = TRUE], cb, op)

-----------------------------------------------------------------------------
(* The chain of the interrupt, DBCDBUS_irqCb*.                             *)

\* Whether the register write before failed its CRC, DBCDBUS_getCrcWriteOpCheck.
Unwritten(d) == d.crcCheck /\ WriteBad(d)
Checked(d) == [d EXCEPT !.crcCheck = FALSE]

FinishIrqHandling(d) == [Release(d) EXCEPT !.irqDone = TRUE, !.irqGlobal = {}, !.irqDbus = {}]

\* Mutant of HandleDbusFlags: a reception counts only if no transmission ended.
HandleDbusFlagsOne(d) ==
    IF d.spiErr \/ Unwritten(d) THEN FinishIrqHandling(Checked(d))
    ELSE IF "TEFN" \in d.irqDbus
         THEN Then([Checked(d) EXCEPT !.txFinished = TRUE], "finish", "TXSF")
         ELSE FinishIrqHandling([Checked(d) EXCEPT !.newMsg = @ + 1])

\* The flags are cleared in the chip; the status of a frame is still to be read.
HandleDbusFlags(d) ==
    LET counted == IF "RF0N" \in d.irqDbus THEN [Checked(d) EXCEPT !.newMsg = @ + 1] ELSE Checked(d)
    IN  IF d.spiErr \/ Unwritten(d) THEN FinishIrqHandling(Checked(d))
        ELSE IF "TEFN" \in d.irqDbus
             THEN Then([counted EXCEPT !.txFinished = TRUE], "finish", "TXSF")
             ELSE FinishIrqHandling(counted)

ClearDbusFlags(d) ==
    IF d.irqDbus # {} /\ ~Unwritten(d) THEN WriteReg(d, "IR", "handleDbus")
    ELSE FinishIrqHandling(Checked(d))

ClearSpiFlags(d) ==
    IF ReadBad(d, "STATUS") THEN FinishIrqHandling(d) ELSE WriteReg(d, "CLEAR_STATUS", "clearDbus")

ReadSpiFlags(d) ==
    IF Unwritten(d) THEN FinishIrqHandling(Checked(d)) ELSE Then(Checked(d), "clearSpi", "STATUS")

\* The only global flag is that of an SPI error.
HandleGlobalFlags(d) ==
    IF ReadBad(d, "IRQ") THEN FinishIrqHandling(d)
    ELSE IF d.irqGlobal # {} THEN WriteReg(d, "IF", "readSpi")
    ELSE ClearDbusFlags(d)

-----------------------------------------------------------------------------
(* The chain that writes a frame and the chain that reads one.  Both are   *)
(* started and, after an error, continued by the task.                     *)

\* Mutant of SendAgain: the task is not told to go on.
SendAgainUnflagged(d, state) == [d EXCEPT !.txState = state]

SendAgain(d, state) == [d EXCEPT !.txState = state, !.sendErr = TRUE]

WriteStart(d, c) ==
    IF Interrupt(c) THEN [d EXCEPT !.lock = FALSE, !.sendErr = TRUE]
    ELSE IF Idle(d) THEN Start([d EXCEPT !.txState = "WRITE_DONE"], "TXF")
    ELSE SendAgain(SetHdr(d, "TXF"), "WRITE_START")

\* Reads the register op, or begins again.
SendRead(d, op, state) ==
    IF Idle(d) THEN Start([d EXCEPT !.txState = state], op)
    ELSE SendAgain(SetHdr(d, op), "READ_FIFO_STATUS")

SendFrameCallback(d, c) ==
    CASE d.txState = "READ_FIFO_STATUS" ->
            SendRead([d EXCEPT !.sendErr = FALSE], "TXEFS", "CHECK_FIFO")
      [] d.txState = "CHECK_FIFO" ->
            IF ReadBad(d, "TXEFS") \/ d.reg >= FifoMax THEN SendAgain(d, "READ_FIFO_STATUS")
            ELSE SendRead(d, "TXFQS", "CHECK_FREE_SPACE")
      [] d.txState = "CHECK_FREE_SPACE" ->
            IF ReadBad(d, "TXFQS") \/ d.reg >= FifoMax THEN SendAgain(d, "READ_FIFO_STATUS")
            ELSE WriteStart(d, c)
      [] d.txState = "WRITE_START" -> WriteStart(d, c)
      [] d.txState = "WRITE_DONE" ->
            IF Interrupt(c) \/ WriteBad(d) THEN SendAgain(d, "WRITE_START")
            ELSE [Release(d) EXCEPT !.txState = "READ_FIFO_STATUS", !.sendErr = FALSE,
                                    !.frameSent = TRUE]

ReadAgain(d) == [d EXCEPT !.rxState = "CHECK_STATUS", !.readErr = TRUE]
OneLess(d) == [d EXCEPT !.newMsg = IF @ > 0 THEN @ - 1 ELSE 0]

\* Mutant of NotRead: the application is not to be told.
NotReadUntold(d) == [d EXCEPT !.readErr = TRUE]

NotRead(d) == [d EXCEPT !.readErr = TRUE, !.notifyLost = TRUE]

\* reg is the fill level, tooBig whether the first message exceeds rxBuf.
CheckAndRead(d) ==
    LET level == [d EXCEPT !.newMsg = d.reg]
    IN  IF ReadBad(d, "RXF0S") THEN ReadAgain(d)
        ELSE IF d.reg = 0 THEN ReadAgain(Release(level))
        ELSE IF ~Idle(d) THEN ReadAgain(Release(SetHdr(level, "RXF0")))
        ELSE Start([level EXCEPT !.rxState = IF d.tooBig THEN "CHECK_STATUS_AGAIN" ELSE "PROCESS"], "RXF0")

ReadFrameCallback(d) ==
    LET ReadLevel(e) == IF Idle(e) THEN Start([e EXCEPT !.rxState = "CHECK_AND_READ"], "RXF0S")
                        ELSE ReadAgain(SetHdr(e, "RXF0S"))
    IN  CASE d.rxState = "CHECK_STATUS" -> ReadLevel([d EXCEPT !.rxPtr = FALSE])
          [] d.rxState = "CHECK_AND_READ" -> CheckAndRead(d)
          [] d.rxState = "PROCESS" ->
                LET e == [Release(OneLess(d)) EXCEPT !.rxState = "CHECK_STATUS"]
                IN  IF ReadBad(d, "RXF0") THEN NotRead(e)
                    ELSE [e EXCEPT !.rxPtr = TRUE]
          [] d.rxState = "CHECK_STATUS_AGAIN" -> ReadLevel(OneLess(d))

-----------------------------------------------------------------------------
(* The end of a transfer and the interrupt of the SPI.                     *)

Callback(d, c) ==
    CASE d.cb = "handleGlobal" -> HandleGlobalFlags(d)
      [] d.cb = "readSpi" -> ReadSpiFlags(d)
      [] d.cb = "clearSpi" -> ClearSpiFlags(d)
      [] d.cb = "clearDbus" -> ClearDbusFlags(d)
      [] d.cb = "handleDbus" -> HandleDbusFlags(d)
      [] d.cb = "finish" -> FinishIrqHandling(d)
      [] d.cb = "send" -> SendFrameCallback(d, c)
      [] d.cb = "read" -> ReadFrameCallback(d)

SpiInterrupt ==
    /\ ~Idle(drv) /\ drv.over
    /\ LET d == [drv EXCEPT !.op = NoTransfer, !.over = FALSE]
       IN  drv' = IF d.event THEN Callback(d, chip) ELSE d
    /\ UNCHANGED <<dll, pending, turn, chip, spent, history>>

\* What the chip does at a transfer that it accepts.
ChipAfter ==
    CASE drv.op = "IR" -> [chip EXCEPT !.dbus = @ \ drv.irqDbus]
      [] drv.op = "CLEAR_STATUS" -> [chip EXCEPT !.global = {}]
      [] drv.op = "TXSF" /\ chip.txs # <<>> -> [chip EXCEPT !.txs = Tail(@)]
      [] drv.op = "RXF0" /\ chip.rx # <<>> -> [chip EXCEPT !.rx = Tail(@)]
      [] drv.op = "TXF" /\ Len(chip.tx) < FifoMax -> [chip EXCEPT !.tx = Append(@, drv.txBuf)]
      [] OTHER -> chip

\* What the driver's buffers hold after it, if it is good.
DrvAfter ==
    LET First(s, none) == IF s = <<>> THEN none ELSE Head(s)
    IN  CASE drv.op = "IRQ" -> [drv EXCEPT !.irqGlobal = chip.global, !.irqDbus = chip.dbus]
          [] drv.op = "TXSF" -> [drv EXCEPT !.txStatus = First(chip.txs, NoStatus)]
          [] drv.op = "TXEFS" -> [drv EXCEPT !.reg = Len(chip.txs)]
          [] drv.op = "TXFQS" -> [drv EXCEPT !.reg = Len(chip.tx)]
          [] drv.op = "RXF0S" -> [drv EXCEPT !.reg = Len(chip.rx), !.tooBig = First(chip.rx, 0) \in Big]
          [] drv.op = "RXF0" -> [drv EXCEPT !.rxBuf = First(chip.rx, 0)]
          [] OTHER -> drv

Transferred(good, accepted) ==
    LET d == IF good THEN DrvAfter ELSE IF drv.op = "TXSF" THEN [drv EXCEPT !.txStatus = NoStatus] ELSE drv
    IN  /\ drv' = [d EXCEPT !.over = TRUE, !.bad = ~good,
                            !.spiErr = IF drv.op \in WriteOps THEN chip.global # {} ELSE @]
        /\ chip' = IF accepted THEN ChipAfter ELSE [chip EXCEPT !.global = {"SPIERR"}]
        /\ IF chip'.tx # chip.tx
           THEN written' = drv.txBuf /\ repeated' = (repeated \/ written = drv.txBuf)
           ELSE UNCHANGED <<written, repeated>>
        /\ UNCHANGED <<dll, pending, turn, submitted, received, report, delivered, lost, crossed, raced>>

TransferEnds ==
    /\ ~Idle(drv) /\ ~drv.over /\ Transferred(TRUE, TRUE) /\ UNCHANGED faults

\* The chip does not accept what it received, or what it sent does not arrive.
TransferFails ==
    /\ ~Idle(drv) /\ ~drv.over /\ faults < MaxFaults /\ faults' = faults + 1
    /\ \E accepted \in BOOLEAN : Transferred(FALSE, accepted)

-----------------------------------------------------------------------------
(* The scheduler's loop: the switch of DLL_HandleTask, its handling of     *)
(* interrupts, DBPL_HandleTask with DLL_ptReceiveMessage.  Where the code  *)
(* finds the lock held, and before or after it tests a flag that a chain   *)
(* may set in between, the later tests are a step of their own.            *)

TaskStep(t) == turn = t /\ (Prompt => Idle(drv))

\* DLL_bTransmitMessage, called by the bus access layer if the layer is idle.
Transmit ==
    /\ TaskStep("send") /\ dll = "IDLE" /\ submitted < MaxTx
    /\ submitted + received < MaxMessages
    /\ submitted' = submitted + 1 /\ dll' = "MSG_TO_SEND"
    /\ drv' = [drv EXCEPT !.txBuf = submitted']
    /\ UNCHANGED <<pending, turn, chip, faults, received, history>>

SendLocked == dll = "MSG_TO_SEND" /\ ~drv.frameSent /\ drv.lock

\* DBCDBUS_sendFrame, from its test of the lock on, and all of it.
SendUnlocked(d) ==
    IF ~d.sendErr THEN SendFrameCallback(Take(d, "send"), chip)
    ELSE IF Interrupt(chip) THEN d
    ELSE [d EXCEPT !.sendErr = FALSE]
SendFrame(d) == IF d.frameSent THEN [d EXCEPT !.frameSent = FALSE] ELSE SendUnlocked(d)

\* Mutant of MsgTransmitted: the flag stays.
MsgTransmittedStays(d) == d

MsgTransmitted(d) == [d EXCEPT !.txFinished = FALSE]

HandleTask ==
    /\ TaskStep("send") /\ ~SendLocked
    /\ turn' = "irq"
    /\ CASE dll = "MSG_TO_SEND" ->
                /\ drv' = SendFrame(drv)
                /\ dll' = IF drv.frameSent THEN "WAIT_FOR_MSG_DELIVERY" ELSE dll
                /\ UNCHANGED report
         [] dll = "WAIT_FOR_MSG_DELIVERY" /\ drv.txFinished ->
                /\ drv' = MsgTransmitted(drv)
                /\ report' = [msg |-> drv.txBuf, of |-> drv.txStatus]
                /\ dll' = "IDLE"
         [] OTHER -> UNCHANGED <<drv, dll, report>>
    /\ UNCHANGED <<pending, chip, spent, delivered, lost, written, repeated, crossed, raced>>

SendFrameLocked ==
    /\ TaskStep("send") /\ SendLocked /\ turn' = "sendLocked"
    /\ UNCHANGED <<drv, dll, pending, chip, spent, history>>

\* No frame was sent; the lock was tested while it was held, or is tested now.
SendFrameGoesOn ==
    /\ TaskStep("sendLocked") /\ turn' = "irq"
    /\ \E locked \in {TRUE, drv.lock} :
        LET goes == locked /\ drv.sendErr
        IN  /\ drv' = IF goes THEN SendFrameCallback([drv EXCEPT !.sendErr = FALSE], chip)
                      ELSE IF locked THEN drv ELSE SendUnlocked(drv)
            /\ crossed' = (crossed \/ (goes /\ drv.cb # "send"))
            /\ raced' = \/ raced
                        \/ goes /\ ~(drv.lock /\ Idle(drv))
                        \/ ~locked /\ drv.frameSent
    /\ UNCHANGED <<dll, pending, chip, spent, report, delivered, lost, written, repeated>>

\* DBCDBUS_handleIrq: the flags are read if the lock is free and the SPI too.
ReadIrq(d) ==
    IF Idle(d) THEN Start(Take(d, "handleGlobal"), "IRQ")
    ELSE SetHdr(Release([d EXCEPT !.cb = "handleGlobal"]), "IRQ")
HandleIrq(d) == IF d.irqDone THEN [d EXCEPT !.irqDone = FALSE] ELSE ReadIrq(d)

\* Mutant of IrqLocked: the lock is not tested.
IrqUnlocked == FALSE

IrqLocked == (pending \/ Interrupt(chip)) /\ ~drv.irqDone /\ drv.lock

HandleInterrupt ==
    /\ TaskStep("irq") /\ ~IrqLocked /\ turn' = "read"
    /\ IF pending \/ Interrupt(chip)
       THEN /\ drv' = HandleIrq(drv)
            /\ pending' = ~drv.irqDone
       ELSE UNCHANGED <<drv, pending>>
    /\ UNCHANGED <<dll, chip, spent, history>>

HandleInterruptLocked ==
    /\ TaskStep("irq") /\ IrqLocked /\ turn' = "irqLocked" /\ pending' = TRUE
    /\ UNCHANGED <<drv, dll, chip, spent, history>>

\* The handling was not finished; the lock is tested now.
HandleInterruptGoesOn ==
    /\ TaskStep("irqLocked") /\ turn' = "read"
    /\ drv' = IF drv.lock THEN drv ELSE ReadIrq(drv)
    /\ UNCHANGED <<dll, pending, chip, spent, history>>

\* DLL_getIrqTimeout is over: the flags are read without an interrupt.
IrqTimeout ==
    /\ ~pending /\ pending' = TRUE
    /\ UNCHANGED <<drv, dll, turn, chip, spent, history>>

\* DBCDBUS_readFrame.
ReadStarts == drv.readout /\ drv.newMsg # 0 /\ ~drv.lock
ReadFailed == ~drv.lock /\ drv.readErr

\* Mutant of EndFailedRead: the application is told again at the next failure.
EndFailedReadTelling(d) == [d EXCEPT !.readout = TRUE, !.readErr = FALSE, !.rxPtr = FALSE]

EndFailedRead(d) ==
    [d EXCEPT !.notifyLost = FALSE, !.readout = TRUE, !.readErr = FALSE, !.rxPtr = FALSE]

ReadFrame ==
    /\ TaskStep("read")
    /\ \/ /\ ReadStarts /\ turn' = "send"
          /\ drv' = ReadFrameCallback([Take(drv, "read") EXCEPT !.readout = FALSE])
          /\ UNCHANGED <<delivered, lost>>
       \/ /\ ~ReadStarts /\ ReadFailed /\ turn' = "send"
          /\ lost' = IF drv.notifyLost THEN lost + 1 ELSE lost
          /\ drv' = EndFailedRead(drv)
          /\ UNCHANGED delivered
       \/ /\ ~ReadStarts /\ ~ReadFailed /\ drv.rxPtr /\ turn' = "send"
          /\ delivered' = Append(delivered, drv.rxBuf)
          /\ drv' = [drv EXCEPT !.rxPtr = FALSE, !.readout = TRUE]
          /\ UNCHANGED lost
       \/ /\ ~ReadStarts /\ ~ReadFailed /\ ~drv.rxPtr
          /\ turn' = IF drv.lock THEN "readLocked" ELSE "send"
          /\ UNCHANGED <<drv, delivered, lost>>
    /\ UNCHANGED <<dll, pending, chip, spent, report, written, repeated, crossed, raced>>

ReadFrameGoesOn ==
    /\ TaskStep("readLocked") /\ turn' = "send"
    /\ drv' = IF drv.readErr THEN ReadFrameCallback([drv EXCEPT !.readErr = FALSE]) ELSE drv
    /\ crossed' = (crossed \/ (drv.readErr /\ drv.cb # "read"))
    /\ raced' = (raced \/ (drv.readErr /\ ~(drv.lock /\ Idle(drv))))
    /\ UNCHANGED <<dll, pending, chip, spent, report, delivered, lost, written, repeated>>

-----------------------------------------------------------------------------
(* The chip.                                                               *)

ChipReceives ==
    /\ received < MaxRx /\ submitted + received < MaxMessages /\ Len(chip.rx) < RxFifoMax
    /\ received' = received + 1
    /\ chip' = [chip EXCEPT !.rx = Append(@, received'), !.dbus = @ \cup {"RF0N"}]
    /\ UNCHANGED <<drv, dll, pending, turn, faults, submitted, history>>

\* A frame was sent, with all the repetitions it took, or given up.
ChipSends ==
    /\ chip.tx # <<>> /\ Len(chip.txs) < FifoMax
    /\ chip' = [chip EXCEPT !.tx = Tail(@), !.txs = Append(@, Head(chip.tx)),
                            !.dbus = @ \cup {"TEFN"}]
    /\ UNCHANGED <<drv, dll, pending, turn, spent, history>>

Task ==
    \/ HandleTask \/ SendFrameLocked \/ SendFrameGoesOn
    \/ HandleInterrupt \/ HandleInterruptLocked \/ HandleInterruptGoesOn
    \/ ReadFrame \/ ReadFrameGoesOn

Next ==
    \/ Transmit \/ Task
    \/ SpiInterrupt \/ TransferEnds \/ TransferFails
    \/ IrqTimeout \/ ChipReceives \/ ChipSends

Spec == Init /\ [][Next]_vars

\* The scheduler's loop goes on, so do the SPI and the chip.
Fairness == WF_vars(Task) /\ WF_vars(TransferEnds) /\ WF_vars(SpiInterrupt) /\ WF_vars(ChipSends)

FairSpec == Spec /\ Fairness

-----------------------------------------------------------------------------
(* Properties.                                                             *)

States == {"READ_FIFO_STATUS", "CHECK_FIFO", "CHECK_FREE_SPACE", "WRITE_START", "WRITE_DONE",
           "CHECK_STATUS", "CHECK_AND_READ", "PROCESS", "CHECK_STATUS_AGAIN"}
Callbacks == {"handleGlobal", "readSpi", "clearSpi", "clearDbus", "handleDbus", "finish", "send", "read"}

\* Every variable has its type; every loss that is reported is a failed transfer.
TypeOK ==
    /\ {drv.lock, drv.event, drv.irqDone, drv.frameSent, drv.txFinished, drv.sendErr, drv.readErr,
        drv.notifyLost, drv.crcCheck, drv.readout, drv.rxPtr, drv.tooBig, drv.bad, drv.spiErr,
        drv.over, pending, repeated, crossed, raced} \subseteq BOOLEAN
    /\ drv.cb \in Callbacks /\ {drv.txState, drv.rxState} \subseteq States
    /\ drv.op \in ReadOps \cup WriteOps \cup {NoTransfer} /\ drv.hdr \in ReadOps
    /\ dll \in {"IDLE", "MSG_TO_SEND", "WAIT_FOR_MSG_DELIVERY"}
    /\ turn \in {"send", "sendLocked", "irq", "irqLocked", "read", "readLocked"}
    /\ drv.newMsg \in 0 .. MaxRx /\ drv.reg \in 0 .. FifoMax \cup 0 .. RxFifoMax
    /\ submitted \in 0 .. MaxTx /\ {drv.txBuf, written, report.msg, report.of} \subseteq 0 .. MaxTx
    /\ received \in 0 .. MaxRx /\ drv.rxBuf \in 0 .. MaxRx
    /\ Len(chip.rx) \in 0 .. RxFifoMax /\ {Len(chip.tx), Len(chip.txs)} \subseteq 0 .. FifoMax
    /\ faults \in 0 .. MaxFaults /\ lost \in 0 .. faults

\* No chain has acted yet on a test that another one made obsolete.
NotRaced == ~raced

\* The lock is held and the callback armed for as long as a transfer runs: no
\* second chain starts on the SPI, and none waits for a callback that never
\* comes, wherever the task's steps fall between the transfers.  It ends where
\* the code does not look: the lock was held when it was tested, so the chain
\* goes on after an error, whoever has it by then (dbuscan_dbus.c:192, 249).
LockCoversTransfer == ~raced /\ ~Idle(drv) => drv.lock /\ drv.event

\* What the presentation layer is handed are messages that arrived and fit the
\* buffer, each once and in the order of the bus, also when a transfer fails
\* and is repeated, or a chain goes on with the lock of another one
\* (DBCDBUS_readFrameCallback).
DeliveredIntact == ~raced =>
    /\ \A i \in 1 .. Len(delivered) : delivered[i] \in (1 .. received) \ Big
    /\ \A i, j \in 1 .. Len(delivered) : i < j => delivered[i] < delivered[j]

\* When no read is going on, every message taken out of the chip that fits the
\* buffer was handed on or reported lost, as long as no chain went on under the
\* lock of another one (DBCDBUS_readFrame, DBCDBUS_isNotifyRxMsgLost).
NoneDropped ==
    drv.readout /\ ~crossed /\ ~raced =>
        Cardinality({m \in 1 .. received - Len(chip.rx) : m \notin Big}) <= Len(delivered) + lost

\* A message that was read is handed on: only one that "has an incorrect CRC" or
\* "is longer than RX buffer" is ignored (dbuscan_dbus.c:231).
IgnoredIsCorrupt == [][drv.rxPtr /\ ~drv'.rxPtr => delivered' # delivered]_vars

\* No frame is given to the chip a second time unless a transfer failed
\* (STATE_TX_FRAME_WRITE_DONE).
WrittenOnce == faults = 0 => ~repeated

\* No transfer failed, no frame was given to the chip a second time.
Undisturbed == faults = 0 /\ ~repeated /\ ~raced

\* The chip said that a frame was sent, its status is still on the SPI.
StatusPending == drv.op = "TXSF" /\ ~drv.over

\* A message is reported with the status that the chip gave of this message,
\* not with that of one before, unless the task comes while the status is being
\* read: the code has set DBCDBUS_isMsgTxFinished before (dbuscan_dbus.c:889).
ReportIsTrue ==
    [][report' # report /\ Undisturbed' => report'.of = report'.msg \/ StatusPending]_vars

\* From some time on the chains end before the task goes on.
ChainsEnd == <>[][Task => Idle(drv)]_vars

\* A message that was accepted for transmission is reported at last, and the
\* layer accepts the next: the chains of the interrupt, of sending and of
\* reading do not block each other, whatever the task met before it leaves them
\* alone (DLL_HandleTask).
SendingEnds == []Undisturbed /\ ChainsEnd => (dll # "IDLE" ~> dll = "IDLE")

\* The messages in the chip are read at last, however their interrupts fall
\* together with other interrupts and chains, unless a chain goes on with the
\* lock of another one (DBCDBUS_newMsgCount).
NothingUnread == [](Undisturbed /\ ~crossed) /\ ChainsEnd => (chip.rx # <<>> ~> chip.rx = <<>>)
=============================================================================
