# Verification of the D-Bus-2 driver

TLA+ modules, TLC runs and TLAPS proofs for the D-Bus-2 driver of this
repository, from the bytes on the bus to the connections of the application:
the UART data link layer and the polled DBusCAN driver, the bus access layer with
its breaks and lock, the presentation layer's service messages, and DBal, the
application layer, with one and with several cross connections, on a link that
loses, repeats and delays what it carries.

Paths below are relative to `src/`. `AppLayer.c` is
`original_dbus_driver/DBal/BshDBus2AppLayer.c`, `crossQueue.c` is
`BshDBus2AppLayer_crossQueue.c` and `IoCon.c` is `IoConnectionHandling.c` in the
same directory; `bal.c`, `dbusdll.c`, `dbuspresentation.c`, `bal_breaks.c` and
`dbus_lock.c` are in `original_dbus_driver/`, `dbusdll_dbuscan.c` too;
`dbuscan_dbus.c` is in `original_dbus_driver/devices/dbuscan/`.

Contents: 1 the system, 2 the modules, 3 the runs, 4 the proofs, 5 where the
code and its documentation differ, 6 what is not modelled, 7 what is left.

## 1. The system

The repository ports a D-Bus-2 driver (a bus without master between the ECUs of
an appliance) to Zephyr. The complete driver is the original one; the Zephyr port
under `zephyr_dbus_driver/` is partial and consists of stubs in part.

| part | state it keeps | operations |
|---|---|---|
| DBal connection handling, `IoCon.c` | `IoCurrentConnectionState` (4 states), `IoCurrentCommState`, `PingReqTimer`, `PingRepetition`, `BreakProcessTimer` | `DBAL_connectionSm`, `DBAL_actionToConnected/ToDisconnected`, ping and break callbacks, enable and disable |
| DBal application layer, `AppLayer.c`, instances, types | `ConnectTransmitBuffer`, `TransmitBuffer`, `ConRepeatCnt`, `SendRetryCounter`, `ConMsgTimer`, `MsgTimer`, `MsgRptPtrs` (repeat queue), `SeqId2Send`, `LastSeqIdReceived`, `DisableReqReceived`; shared `DBALCR_ConInst`, `DBALCR_ReqRespInst`; the bit mask of non-task code sections | send events, commands, queries; receive and acknowledge; confirmation and failure of a transmission; repetition timers |
| DBal cross queue, `crossQueue.c` | queues of instances waiting for the shared connection and response frames | register, take the next instance |
| Presentation layer, `dbuspresentation.c` | task state, message buffer, repetitions, power trigger, wakeup state; identification, production and update data | service messages, responses, power messages, silence, going offline, resets |
| Bus access layer, `bal.c` | transmit bits per message, subsystem mask, current message, attempts and their limit | flag, search, hand over, retry, cancel, clear, dispatch, confirm |
| Wakeup and reset breaks, `bal_breaks*.c`; lock, `dbus_lock.c` | stage and timer of each break; one lock byte | start a break, its stages; take and release the bus |
| UART data link layer, `dbusdll.c` | task state, bus state bits, frame in transmission, own and partner's acknowledge, input buffer | an interrupt per byte, transmit, receive, timeouts, silent, offline |
| DBusCAN data link layer, `dbusdll_dbuscan.c`, and driver, `dbuscan_dbus.c` | state of the frame in transmission; SPI lock and callback, interrupt flags, states of sending and of reading, count of messages to read | three chains of non-blocking SPI transfers, polled |
| RTOS interface, flash and boot drivers | scheduler events, registers | wrappers, blocking sequences |
| Zephyr port, `zephyr_dbus_driver/src` | threads, message queue, mutex; initialisation and EEPROM of the chip | send, receive thread, initialisation |
| test applications, slave stub, product variants (`app/`) | none of the protocol's | configuration, glue, generated and vendor code |

Configuration (`DBal/cfg_templates/DBal_cfg.h`, the variants' `balXs.c`):
`DBAL_DBUS_RETRY_MAX` 5, `DBAL_RECOVERY_TIME_MS` 320, `DBAL_RESPONSE_TIME_MS`
200, `DBAL_MAX_MSGS2REPEAT` 4, `DBAL_PING_MAX_REPEAT` 2; retry limits per error of
the bus access layer; an input buffer of 0x32 bytes, two long messages and an end
too short for a third.

**How the parts interact.** An application calls DBal (`enable`, `disable`,
`sendEvent`). DBal writes a buffer of the instance, points a shared instance
pointer at it, or queues the instance behind it, and raises the *transmit flag*
of the message in the bus access layer. The bus access layer hands one flagged
message at a time to the data link layer, calling back a `DbalTransmit...`
function that fills the frame from the instance *at that moment*. The
presentation layer shares the link with it, for responses and power messages.
The data link layer confirms each frame, or reports why it failed; the bus access
layer repeats it up to a limit that depends on the errors, and then calls
`DbalTransmitCrPost_...` or `DBAL_nonDeliverableMessage`, where DBal repeats,
starts a timer or gives the connection up. Received frames are stored by the
receive interrupt into a ring buffer, from which the presentation layer's task
takes them, answers service messages and passes the others to the bus access
layer, which dispatches them to `DbalReceive...` functions. Breaks and frames
exclude each other by the lock. Timers call DBal and the breaks from the
scheduler.

**What is hard about it.**

- *Crossing requests.* Both ECUs run the same state machine, and either may
  enable or disable at any time, also while the other's request is on its way.
- *Nested retry loops.* Attempts in the bus access layer, `SendRetryCounter` for
  failed transmissions and `ConRepeatCnt` for confirmed requests that were not
  answered; one timer serves the last two, and a wakeup.
- *Shared pointers, flags and buffers.* A message flagged between the start of a
  transmission and its confirmation uses the instance pointer that the
  confirmation clears or moves; a response and a power message share a buffer.
- *Interrupts.* The byte of a reception, of an echo and of an acknowledge arrive
  by interrupt between any two steps of the tasks; flags may be raised there too.
- *Order.* With DBusCAN the confirmation is polled, so the partner's answer may
  be processed before the confirmation of the request. Three chains of SPI
  transfers share one lock, one callback and one buffer.
- *Bytes that wrap.* Fill level, offsets and lengths of the input buffer are bytes,
  the buffer's end is skipped if a message does not fit it.
- *Duplicates.* A lost acknowledge on the wire makes the link layer send a frame
  twice. Sequence ids of a byte with a window of half its range filter them,
  and are reset by every enable.
- *Silence.* A power failure of one ECU is only discovered by missing ping
  responses.

**What makes each part correct.**

- *Connection handling*: READY is the state machine's view; no handshake is left
  waiting with nothing under way; every handshake ends; both sides agree when
  nothing fails; a dead partner is noticed.
- *Events*: one is pending until its acknowledge or until the connection is given
  up; an acknowledge means that the partner's application got that event.
- *Cross queue*: no instance is queued twice, none forgotten; the queue has room.
- *Bus access layer*: a flagged message is found; a frame without a result is on
  the bus or repeated; attempts are bounded, whatever the mixture of errors.
- *Presentation layer*: a response releases the message it answers; a power trigger is
  withdrawn only when its message was sent or its failure told.
- *Breaks and lock*: breaks and frames exclude each other; the lock is released.
- *Data link layers*: each frame taken is confirmed once and truthfully; a message
  acknowledged is stored and handed out, in order, once.
- *Zephyr port*: see section 6.

## 2. Modules

| module | what it is |
|---|---|
| `DbalInstance` | one instance, `struct DBAL_Instance`, as a record, and every function that changes it as an operator from record to record |
| `DbalLink` | two ECUs (client and server) with their instances, link layers, timers, breaks, power failures and applications |
| `Handshake`, `EventChannel` | abstract: a session opened and closed by request and answer; one pending event, resolved by a truthful acknowledge or given up |
| `CrossConnections` | several instances of one ECU behind the two shared frames and their queues |
| `BusAccess` | the state of the bus access layer as a record, its functions as operators |
| `RxRing` | the input buffer of the UART data link layer as a record, its functions as operators |
| `LinkLayer` | abstract: a link that takes a frame and confirms it once |
| `NodeStack` | one node: bus access layer, presentation layer, breaks, lock and input buffer above one data link layer |
| `UartDll` | the UART data link layer, one action per interrupt, timeout and call |
| `DbusCanDriver` | the DBusCAN data link layer and driver, the SPI and the chip |
| `..._proofs` | the theorems of section 4 |

```
CrossConnections      DbalLink --implements--> Handshake, EventChannel
        \             /
         DbalInstance
                                  NodeStack  (one node of the bus)
                                 /    |    \
                        BusAccess  RxRing  LinkLayer
                                      |      ^
                                     UartDll-+ implements    DbusCanDriver
```

`NodeStack` stands on the abstract `LinkLayer`, and `UartDll` is shown to
implement it: what `NodeStack` assumes of the link is what the bytes give. Both
use the same `RxRing`. `DbalLink` and `CrossConnections` run the same
`DbalInstance`; below it they keep of the bus access layer only the flags, which
`NodeStack` shows to be found, retried a bounded number of times and confirmed.

### Correspondence: DBal (`DbalInstance`, `DbalLink`)

- A field of `Instance` is the field of `struct DBAL_Instance` named in its
  comment. `conInst` and `rrInst` say that the shared pointers `DBALCR_ConInst`
  and `DBALCR_ReqRespInst` point to this instance; `conFlag` and `rrFlag` are
  its transmit flags in the bus access layer; `told` remembers the last
  communication state callback.
- `InDisconnected`, `InConnecting`, `InConnected`, `InDisconnecting` are the
  four cases of `DBAL_connectionSm`; `ToConnected` and `ToDisconnected` its
  actions; `HandleConMsg` is `DBAL_handleConMsg`, with the rule that a disable
  request waits until the repeat queue is empty.
- `SendCon`, `SendEvent`, `SendAck`, `PrepareHeader`, `QueueFrame` are the
  sending functions. Sequence ids are used up also by a send that then fails,
  as in the code.
- `ConPost`, `RrPost`, `PostRepeatTrigger` run at a confirmation;
  `ConNonDeliverable`, `RrNonDeliverable`, `ConTxFail`, `RrTxFail` at a failure.
- `StartTx` is the hand-over in `BAL_HandleTask`: the flag is reset and the
  buffer filled from the instance. If the instance pointer is NULL the transmit
  function writes nothing and the bytes of the previous frame go out again:
  `StaleCon` and `StaleRr` say how a receiver reads them. `WritesNull` is the
  confirmation of such a response frame, `DbalTransmitCrPost_appLayerResponse`
  writing through the NULL pointer: the write is harmless or traps, so the ECU
  continues or restarts.
- `Transmit` is the UART link layer, whose acknowledge byte is the confirmation;
  `TransmitUnconfirmed` and `Confirm` are the DBusCAN layer, where the frame is
  already at the partner while the sender polls. With `ConfirmLag` each frame may
  go either way, without it only the first.
- `OnBus` is the external world: a frame arrives once and is acknowledged, or,
  at the cost of one fault, arrives twice, or arrives or not with the sender
  told that it was not acknowledged or that another error occurred. The sender's
  retries in `bal.c` are part of this one outcome.
- `Receive` dispatches the oldest received frame. `ConMsgTimerFires`,
  `MsgTimerFires`, `PingTimerFires`, `BreakTimerFires` are the timer callbacks;
  `BreakSeen` and `NodeToBeWokenUp` the wakeup break and the "wakeup sent
  request" with which its receiver answers.
- `Restart` is a power failure: the instance is initialised anew and what the
  link layers held is gone; the partner knows nothing of it.

### Correspondence: cross connections (`CrossConnections`)

- `con` and `rr` are the two shared frames: `user` the pointer, `flag` the
  transmit flag, `target` the address in the transmit object, `queue` the queue of
  `crossQueue.c`. `frame` is the buffer of the link layer, which keeps the bytes
  of the frame before if its transmit function finds no instance.
- `Ask` and `Enqueue` are `DBALCQ_register...`, called by the functions of
  `DbalInstance` when they ask for a frame; `NextCon` and `NextRr` are
  `DBALCQ_getConnectMsg` and `DBALCQ_getReqRespMsg` with what their callers do: the
  pointer moves and the flag is raised again. Entries of instances that are no longer
  READY are dropped from the response queue, as in the code.
- `Enable`, `Disable`, `Send` are the application's calls; `PartnerAsks`,
  `PartnerAnswers`, `PartnerAcks` what partners send; `TakeCon`, `TakeRr`,
  `ConfirmCon`, `ConfirmRr` the bus access layer; the timers are per instance.
- `astray` records the ways in which the pointer of the connection frame is
  left behind: the wait of a request for its recovery time is cut short, or a
  switch without a switch back (section 5); what is claimed of handshakes is claimed up to there.

### Correspondence: one node (`NodeStack`, `BusAccess`)

- `bal` is the module state of `bal.c`: `bits` and `mask` the transmit bits and
  the subsystem mask, `cur` the message in hand, `attempts` and the limit kept over
  all its errors. `TransmitMessage`, `CancelTransmitMessage`, `ClearMessagesToSend`
  are its calls.
- `BAL_HandleTask` is cut where an interrupt can come between its parts:
  `BalSearch` (search with interrupts on), `BalClear` (nothing found, the mask is
  reset), `BalTransmit` or `BalRefused` (hand-over with interrupts off), `BalReset`
  (reset of the transmit bit). Messages are requested between any of these, as
  `bal.c:505` allows; they are cancelled and cleared only after the last part of a
  call of the task (`bal.c:527`). Power messages are triggered at any moment.
- `DbplInit`, `BuildPowerMessage`, `Dispatch`, `DbplTransmit`, `Reset` are the cases
  of the presentation layer's task. `Dispatch` takes the message the buffer hands
  out by its kind: `Consume` (released at once or passed on), `Read`
  (answered at once, later or never; an answer releases it when it is
  confirmed), `Update` (answered with retries),
  `UnknownItem` (released *and* answered, `dbuspresentation.c:2163`),
  `WakeupRequest`, `Silence`, `GoOffline`, `ResetExecute`. `SkipEnd` is the
  search that skips the end of the buffer.
- `Confirm` is the call-back of the data link layer, to the bus access layer or to
  the presentation layer according to the user code; `FrameArrives` a whole
  reception, with the operators of `RxRing`.
- `SendBreak` and `BreakTimer` are the two break handlers with their stages;
  `lock` is taken and released by them and tested by the tasks.
- History: `due` (flagged and not copied since) and `lost`, those of them that the
  running step of the task made forgotten (`Undone` says which it is about to);
  `open` and `tries` (the frame copied last without a result, and how often it was on
  the bus); `inbox` (what was accepted and not released), `handled` (the oldest of it
  was answered), `stray` (a response released a message that it does not answer);
  `powerEnded` and `late` (the power message was triggered while a response was
  pending).

### Correspondence: UART data link layer (`UartDll`, `RxRing`)

- `taskState` is `DLL_TaskState`, `status` the bits of the bus status, `counter`
  the byte counter of both directions, `ack` the acknowledge read or to be sent.
- Actions `Rx...` are the cases of the receive interrupt: header, data, echo of an
  own byte, a collision, an acknowledge, an error of the UART; `Tx...` those of the
  transmit interrupt; `BusIdleSeen`, `ReceiveTimeout` and `AnswerTimeout` the timers
  of the bus; `Transmit`, `TransmitRefused`, `ReceiveMessage`, `ReleaseMessage`,
  `SetSilentMode`, `GoOffline`, `GoOnline` the calls of the layers above.
- `wire` is what the transmitter still has in its registers, so that the echo of a
  byte comes after the interrupt that loaded the next.
- `RxRing` keeps `cell` (a length at an offset, or nothing), read and write offset
  and fill level: `StoreHeader` and `StoreByte` for a reception, `IsFull` and
  `HasRoom` for its acknowledge, `Commit`, and reading and releasing with the
  dummy length that marks a skipped end.

### Correspondence: DBusCAN (`DbusCanDriver`)

- `drv` is the module state of `dbuscan_dbus.c`: lock, callback and its enabling,
  interrupt flags, states of sending and of reading, messages to be read, and the
  operation on the SPI. `hdr` is the header of the operation read last, `bad` and
  `spiErr` what a transfer left behind.
- `HandleTask`, `SendFrameLocked`, `SendFrameGoesOn`, `HandleInterrupt`,
  `HandleInterruptLocked`, `HandleInterruptGoesOn`, `ReadFrame`, `ReadFrameGoesOn`
  are the polled functions in the order in which `DLL_HandleTask` calls them
  (`turn`). Where the code tests the lock and a flag one after the other, what follows
  the first test is a step of its own, so that a chain may end, or go on, in between
  (`dbuscan_dbus.c:144-146`, `170-192`, `228-249`).
- `IrqTimeout` is the timeout of the interrupt; `TransferEnds` and `TransferFails` a
  transfer, `SpiInterrupt` the interrupt after it, in which the call-back runs and
  starts the next transfer.
- `chip` is the chip (external): its two groups of interrupt flags, received and
  sent frames and status, a status being the number of the message that it is of;
  `ChipReceives` and `ChipSends` are the bus.
- History: `report`, `delivered`, `lost` (told to be lost), `written` and `repeated`
  (a frame was given to the chip twice), `crossed` (a chain went on with the lock of
  another one), `raced` (the task acted on a test of the lock or of a flag that a
  chain had made obsolete since).
- `Prompt` says that the task runs only while no transfer is under way: a chain of
  a few bytes over SPI is usually shorter than the cycle of the scheduler. It is set in
  the two runs that look for one trace, and not in `dbuscan_driver`, where the task
  steps anywhere in a chain.

### Abstractions

- One instance per ECU in `DbalLink`, several in `CrossConnections`, whose partners
  are reduced to what they answer. A repeat queue of one slot (4 in the
  template) and at most two DBal frames in a transmit buffer.
- Events and their acknowledges only. Commands and queries share their queue and
  buffers; the main instance (temporary connections, `TxRepeat` buffer, stored
  partner address) is not modelled.
- Bytes: a connection message is its type; a DBal frame is the event it carries
  or acknowledges; a byte on the UART is right, disturbed or a collision; a received
  message is its length or its kind. CRC values, marshalling, addresses and versions
  are left out.
- Widths: offsets and lengths of the input buffer wrap at `ByteMod`, sequence ids
  at `SeqMod`; every counter that the code leaves unbounded is bounded by its limit.
- Time: a running timer may fire at any moment; with `Timely` it fires only
  when nothing is queued, on the bus or unprocessed. The second is what the
  200 ms and 320 ms of the configuration mean against frames of some
  milliseconds; the first asks what happens if that fails.
- Each handler of DBal runs to its end, and applications call between handlers.
  The tasks of `NodeStack` are cut where interrupts matter.

## 3. Runs

| run | module | states | what it shows |
|---|---|---:|---|
| `contended_link` | `DbalLink` | 2,258,364 | three calls of both applications against each other, one fault and one power failure, timers at any moment and confirmations that come late: `CommStateCoherent`, and `QuietMeansSettled`, no handshake is left with nothing under way |
| `quiet_link` | `DbalLink` | 1,913 | six calls, no fault, applications that wait for each other: both ends agree, sequence ids stay in step; the state machines implement `Handshake` |
| `pinged_link` | `DbalLink` | 125,857 | one fault and one power failure with pings: the bounds of all counters (`TypeOK`), `PingOnlyWhenReady`, every handshake ends, the client does not stay READY for ever towards a server that is not, an enable that fails less often than there are retries succeeds |
| `events` | `DbalLink` | 483,637 | two events with one fault: an event has its timer, and the service implements `EventChannel`, also where a response loses its instance pointer and the ECU resets |
| `uart_receive` | `UartDll` | 987,292 | every byte, collision, error and timeout against both tasks: each frame taken is confirmed once (`ImplementsLinkLayer`), truthfully, and in the end; messages acknowledged are stored, and lost in one way only |
| `node_services` | `NodeStack` | 2,697,945 | two user messages flagged at any moment, also by interrupts within the task's steps, requests of three kinds, among them one for an unknown item, power messages triggered at any moment: what a flag, a response, the buffer and a trigger promise, and where the code breaks it |
| `node_access` | `NodeStack` | 302,664 | a message requested by interrupts, cancelled and cleared, breaks, offline and resets under fairness: breaks exclude frames, retries and services end |
| `cross_queue` | `CrossConnections` | 63,098 | three instances, three calls, one fault: queues without repetition, nobody is forgotten, handshakes and events end |
| `dbuscan_driver` | `DbusCanDriver` | 652,543 | three messages, up to two each way, one too long, one transfer that fails, the task's steps anywhere in the chains: the lock covers every transfer, messages are handed on intact, once and in order, none is dropped untold, reports are true, sending and reading end |

Three further runs find what section 5 describes: `frame_sent_twice`
(`DbusCanDriver`, `WrittenOnce`), `message_ignored` (`DbusCanDriver`,
`IgnoredIsCorrupt`) and `frame_without_user` (`CrossConnections`, `FlagHasInstance`).

Every property of a passing run has a mutant: a change of one definition, of
the kind a slip in that function would be, under which TLC finds the property
violated in that very run. `PROJECT.json` lists them; the operators stand before
the definition they change, with the word "Mutant" in their comment.

### Bounds and why they are enough

- `MaxFaults`, `MaxRestarts`, `MaxCalls`, `MaxTx`, `MaxRx` are budgets of the
  environment. They are what the named cases need: three calls in
  `contended_link` so that a side closes what the other has just asked for; six in
  `quiet_link` so that a link is opened, used, closed and opened again; three
  instances in `cross_queue` so that two wait behind one; three messages
  (`MaxMessages`) in `dbuscan_driver`, so that one is received while another is written
  or read and another was reported, or read, before.
- The chip's fifos: `FifoMax` 1 for transmission instead of 8, so that a full fifo, which
  sends the chain back to its start, occurs; `RxFifoMax` 2 for reception, so that a
  message is read with another one behind it.
- `CONSTRAINT NotRaced` in `dbuscan_driver.cfg`: a state in which the task has acted on
  an obsolete test is looked at, and not what follows. The properties of this run are
  claimed only up to there ("Conditions of the properties"), so that no behaviour
  they speak of is left out; types are checked up to there too.
- Retry limits are 0 to 2 instead of 5 (`RetryMax`, `CollisionRetries`,
  `MissingAckRetries`, `NackRetries`, `PowerRetries`, `ResponseRetries`): one
  suffices to take the give-up path and both sides of every comparison, and two
  different limits are what a frame that fails in two ways needs. The theorems
  hold for any.
- `RxBuffers` limits the received frames an ECU holds; a frame that finds no room
  waits on the bus. `SeqMod` is 4 or 8: ids wrap, as the first one after an enable
  is one past the last, and the window of 3 at 8 is more than two events put
  in flight.
- The input buffer: 8 bytes in `uart_receive`, for one long or two short messages,
  so that it wraps, fills and skips its end; 10 in `node_services`, two messages
  and an end too short for a third, like the 0x32 bytes of the code; 4 in
  `node_access`. `ByteMod` 16 stands for 256: as in the code it is larger than
  the buffer, and the dummy length is its last value. Only lengths near it wrap
  (`dbusdll.c:548`); such frames do not fit the buffer in any case.
- `TxChars` 2 and `WireMax` 2: a frame with a first, a middle and a last byte, and
  a transmitter with a shift register behind its data register.
- `MessagesPer` 2 in `node_services`, so that one message waits while the other is
  repeated.

A cfg states `CHECK_DEADLOCK FALSE` where the system rests once the budgets are
spent and both sides are idle; being stuck *inside* a handshake, a
transmission or a retry is what `QuietMeansSettled`, `NobodyForgotten`,
`NoFrameForgotten` and the liveness properties exclude. The models of the UART
and of the node never stop.

### Conditions of the properties

- `Agreement` and `SequenceInStep` are claimed of an undisturbed link only, for
  the reasons in section 5; `QuietMeansSettled` of every link.
- `LostOnlyByOverrun`: messages leave the order of the buffer only after the dummy
  length has been written over an unread message (`dbusdll.c:603`); the branch of
  the release that "should never be reached" is not, even then.
- `PingOnlyWhenReady` and the bound of the ping counter are checked with `Timely` timers
  and proved without it (section 4): pings multiply the states of `contended_link`
  beyond what a run can cover.
- `DueIsFlagged`: an interrupt may request a message at any moment, and the code
  undoes the request in two of them: after the search found nothing and before the
  mask is reset (`bal.c:413`), and after the frame was copied and before its flag is reset
  (`bal.c:406`). The property says that these are the only two, and that a request is
  forgotten no longer than to the next one of that message, or, at 413, of its subsystem.
- `PowerTriggerHonoured`: a power message that was triggered while a response was
  pending is the one that the response's confirmation takes for sent
  (`dbuspresentation.c:766`); every other trigger is honoured.
- `AnsweredOnce` names the three outcomes of the end of a response: it releases the
  oldest message, which it answers; it withdraws such a late trigger instead, so that the
  message stays and is answered again; or it follows `unknownItem`, which was released
  before (`dbuspresentation.c:2163`), so that the next message is released unread.
  `BufferIsInbox` is claimed until the last of these happened (`stray`): the buffer is
  then released beyond its contents.
- `NobodyForgotten` and the handshakes of `CrossConnections` are claimed until the
  pointer goes `astray`.
- `DbusCanDriver`: nothing is claimed after the task acted on an obsolete test
  (`raced`). The reports and the liveness are claimed as long as no transfer failed and
  no frame was written twice, `NoneDropped` and `NothingUnread` as long as no chain
  went on under the lock of another one (`crossed`, section 5). `ReportIsTrue` excepts a
  report while the status is still being read (`StatusPending`), which is the moment in
  which the code reports a status of before (`dbuscan_dbus.c:889`). The two liveness
  properties ask that from some time on the chains end before the task goes on
  (`ChainsEnd`): a task that always comes while the lock is held never starts anything.

### Fairness

- `DbalLink`: weak fairness of each task of an ECU (hand-over, transmission,
  confirmation, reception, wakeup) and of each timer. `BAL_HandleTask` and
  `DLL_HandleTask` are called from the scheduler's cyclic task or event, dispatch
  drains the receive queue, and a running timer expires. Nothing is assumed of the
  applications, of power, or of the bus's choice between delivering and failing:
  its failures are bounded by the budget, which is the assumption that a bus does
  not fail for ever.
- `CrossConnections`: weak fairness of the bus, of the timers, and of the partners'
  answers and acknowledges, whose loss is a fault of the budget.
- `UartDll`: weak fairness of the task's timeout alone. That every transmission
  ends needs no byte to arrive and no interrupt to come.
- `NodeStack`: weak fairness of the parts of the task that go on once begun, of
  initialisation, reset, the break timers and of the confirmation, which
  `TransmissionEnds` of the layer below provides. Strong fairness of the search, of
  the hand-over and of the presentation layer's transmission: each waits for a
  free link and for the lock, which the other task, breaks and received frames take
  and give back again. Weak fairness would allow one of them to find the link taken
  each time it is polled. The scheduler calls both tasks in every cycle, and a
  response or a retry is offered in each, so that one that is possible again and
  again is made.
- `DbusCanDriver`: weak fairness of the task, of the transfers and their
  interrupt, and of the chip's sending. The timeout of the interrupt is not assumed
  to help.

## 4. Proofs

TLAPS proves the following for every value of the constants that the named
assumptions of the modules allow.

| theorem | property | assuming besides | says |
|---|---|---|---|
| `DbalLink_proofs!Inductive` | `IInv` | | the inductive invariant of the link |
| `TypeCorrect` | `TypeOK` | | types and all bounds: retry and ping counters, transmit buffer, received frames |
| `Coherence` | `CommStateCoherent` | | READY exactly in CONNECTED and DISCONNECTING, and the last callback agrees |
| `OutstandingTimed` | `OutstandingEventIsTimed` | | an event in the repeat queue has its timer running |
| `PingOwned` | `PingOnlyWhenReady` | | only the client of a READY connection pings |
| `EventChannelImplemented` | safety of `ImplementsEventChannel` | `~SameKind` | repeat queue and acknowledges implement `EventChannel`: an event is resolved because the client's application got it, or given up |
| `DbalHandshake_proofs!QuietIsSettled` | `QuietMeansSettled` | | nobody waits within a handshake with nothing under way |
| `UndisturbedInductive` | `UInv` | `Undisturbed` | the link rests, or exactly one message is under way |
| `EndsAgree` | `Agreement` | `Undisturbed` | both applications were told the same once the link rests |
| `SequenceKept` | `SequenceInStep` | `Undisturbed` | the next event is not ignored |
| `HandshakeImplemented` | safety of `ImplementsHandshake` | `Undisturbed` | the two state machines implement `Handshake` |
| `CrossConnections_proofs!QueuesStaySound` | `QueuesSound` | | no instance waits twice, or for a frame that it uses or that is free |
| `QueuesNeverFill` | `QueuesFit` | | the queues have room for one more instance |
| `TypesOK` | `TypeOK` | | types of the instances, the shared frames, their queues and the bus |
| `NobodyIsForgotten` | `NobodyForgotten` | | until the pointer goes astray, neither a frame nor an instance within a handshake is left behind |
| `UartDll_proofs!LinkInvariant` | `LinkInv` | | states, counters and transmission belong together |
| `Refinement` | `ImplementsLinkLayer` | | the bytes implement the abstract link: one confirmation per frame |
| `SentBeforeOk` | `OkMeansSent` | | OK only for a frame of which every byte was sent |
| `BufferInvariant` | `BufferInv` | | the bytes of the input buffer are the messages accepted and skipped ends |
| `TypesOK` | `TypeOK` | | types; no offset leaves the input buffer |
| `LossOnlyByOverrun` | `LostOnlyByOverrun` | | the oldest message is handed out, and none is lost unless a dummy length was written over one |
| `AcknowledgeIsTrue` | `AcknowledgedIsStored` | | OK only for a message that is stored, in free bytes |
| `NodeStack_proofs!AccessInvariant` | `AccessInv` | | the inductive invariant of the bus access layer |
| `NoFrameIsForgotten` | `NoFrameForgotten` | | a frame without a result is on the bus or repeated |
| `TriesAreBounded` | `TriesBounded` | | attempts stay within the largest limit |
| `BreaksExclude` | `BreakExclusive` | | one break at a time, no frame during a break |
| `DueStaysFlagged` | `DueIsFlagged` | | what was requested, also by an interrupt, is found by the search, but for the two moments in which the task undoes it |
| `PowerIsHonoured` | `PowerTriggerHonoured` | | no trigger is withdrawn before its message was sent or failed, but for one that came while a response was pending |
| `NodeBuffer_proofs!BufferStaysInbox` | `BufferIsInbox` | | the input buffer is a queue, until a response releases a message that it does not answer |
| `AnsweredOnceOnly` | `AnsweredOnce` | | the end of a response has one of the three outcomes that the property names |
| `TypesOK` | `TypeOK` | | types and bounds of the whole node: offsets of the buffer, retries, breaks, also where messages are released twice |
| `DbusCanDriver_proofs!LockCovers` | `LockCoversTransfer` | | the lock covers every SPI transfer, wherever the task's steps fall in the chains, until it acts on an obsolete test |
| `TypesOK` | `TypeOK` | `Undivided` | types; no message is counted twice, no loss is told without a failed transfer |
| `DeliveredStaysIntact` | `DeliveredIntact` | `Undivided` | messages are handed on intact, once and in order, whatever fails |
| `NothingIsDropped` | `NoneDropped` | `Undivided` | a message taken out of the chip is handed on or told to be lost |

`Undivided` is `Prompt`: the three theorems that follow a message through the reading
chain assume that the task does not step within it; TLC checks their properties without.
`Undisturbed` is what `quiet_link` sets: no faults, no restarts, confirmations
before receptions (`~ConfirmLag`), timeouts longer than an exchange (`Timely`),
applications that wait for the link to rest (`Patient`), and at least four sequence
ids; the number of calls, of events and of retries, the receive buffers and the
pings are left open. `SameKind` says that events share their service and command id,
which is all that an acknowledge is matched by (`AppLayer.c:1609`, section 5). Where
nothing stands in the third column, nothing is assumed of the bus, the schedule,
the timers or the applications, and all budgets are any numbers.
The properties of `NodeStack` are checked on two messages of one subsystem, and proved
for any number of both. The bounds that remain are `FramesMax \in 1 .. 2`, for which the loop over the events of a
frame (`ReceiveEvents`) is written out, and `Lengths = {2}` in `NodeStack`: all
messages of the buffer are equally long, four bytes with their header.

### The arguments

**DBal.** `IInv` is a conjunction: `InstOK` (each instance is `Good`), `LinkOK`,
`BreaksOK`, `HistoryOK` and `BudgetsOK` (types of the rest). `Good` is type
correctness of an instance together with `Sound`, the conjunction of `Coherent`,
`Timed` and `Pinging`, each about one instance. None of the properties is
inductive alone: `PingOnlyWhenReady` needs to know that the state machine leaves
READY only through `ToDisconnected`, which needs coherence; `DBAL_msgTimerAction`
gives up through `DISABLE_SILENT`, which CONNECTED alone answers, so that the
timer's invariant needs the queue to be cleared first; the bounds of the counters
need the guards that protect them. That all of it is about one instance gives the
proof its shape: `DbalInstance_proofs` shows of each operator, bottom up as
functions call each other, that it takes a `Good` instance to a `Good` one;
`DbalLink_proofs` shows of each action that it replaces an instance by the value of
such an operator, and treats the link's own state.

**Waiting.** `QuietMeansSettled` relates the instance to its link layer. Its
strengthening `WaitInv` says where the request of an instance in CONNECTING or
DISCONNECTING is: the connection buffer still holds a request, and it is flagged,
or in the link layer with the instance pointer set, or the timer runs. The
predicate `Hears(i, b)` states this of an instance, given whether its connection
frame is in the link layer; each operator keeps it, as each keeps `Good`.

**Events.** `EventChannel` asks that what is resolved was delivered. The strengthening
`EventInv` says of every place where a frame can be, that is the buffers of an instance,
its link layer and the inbox of its partner, that the events of the server in it were
sent and the acknowledges of the client in it are of delivered events, and that the
event in the repeat queue was sent. Each function of the instance carries on only
what it was given (`Carries`), so that the invariant follows frame by frame; a step that
empties the queue then is `Acknowledge` if an acknowledge matched and `GiveUp` otherwise.
With `SameKind` the acknowledge of one event resolves another, and the refinement is
false. Faults, restarts, late confirmations and timeouts at any moment are all
allowed.

**The undisturbed link.** `UInv` describes the link completely: `AtRest`, both
connection states equal, no timer of a handshake or of an event, no flag, ids in
step; or one connection message or one event under way from one side, at one of
three places (`flagged` in the instance, `loaded` in the link layer, `arrived` at
the partner), and for each message the states and ids of both sides (`Exchange`). `Timely` and `Patient` keep timers and applications
out while it travels; without `~ConfirmLag` the answer could overtake the
confirmation. Each step takes one place to the next, or a message to its answer; the
lemmas before say field by field what each function of the instance does in these
states. From `UInv` the three results are read off: a quiet link is `AtRest`, and
the steps of `Handshake` are the receptions that change a connection state.

**Cross queue.** `QueuesInv` adds to `QueuesSound` the types of users and queues.
That a queue has room follows by counting: the queue and the user are distinct
members of `1 .. Count`. `NobodyForgotten` needs more: `IInv` adds that every
instance is `Good`, as in DBal, and `WaitInv`, which says that an instance within a
handshake waits in the queue, has its timer running, or is the user of a frame that is
flagged or on the bus, and that a used frame is flagged, on the bus or waiting for
the recovery time of its user. An instance's function either asks for the frame or
leaves its request alone (`Follows`), so that a call for one instance keeps what
is said of the others; the lemmas on what a function leaves alone are shared with
DBal (`DbalInstance_proofs`). The proof needed a case that the run's one fault does
not reach: a failing event gives the connection up while its request waits for
recovery (`CutShort`).

**UART.** `LinkInv` says in which states, and with which counters, a frame is being
sent or its acknowledge awaited, and that the bytes still to be sent, on the wire
and read back add up to the frame. From it each action maps to a step of `LinkLayer`
or to a stutter, and OK can only follow the last byte.

`BufferInv` is about reception, for messages of any lengths in a buffer of any even
size up to half the values of a byte. `Queue` numbers the bytes stored on from the one
to be read next, past the end of the buffer, which the writer skips at most twice
ahead of the reader, and says that there is a set of points that divides them
(`Chain`): at each point a message begins that does not cross the end, or a skipped end
with its dummy length, and the next point follows it. A second function counts the
messages before each point (`Numbered`), so that those between the first and the last
are the ones accepted; the length byte of a message being read is taken from where
`DLL_ptReceiveMessage` left it, since the byte in the buffer may have been overwritten
meanwhile. Points and counts are sets and functions given by the invariant, not computed
from the buffer, which would need recursion. One lemma per function of the buffer says
what it makes of a `Queue` (`ReceiveQueue`, `ReleaseQueue`, `HeaderQueue`, `ByteQueue`,
`CommitQueue`). After an overrun only the division is claimed, and that is why the
branch that "should never be reached" is not even then. `FrameOK` follows the frame
that is received: bytes to come and bytes stored add up to its length, and it is
complete, or its overflow known, when the acknowledge is due. TLC confirmed the
invariant for buffers of 8 and 10 bytes and up to four lengths before it was proved.

**Bus access, breaks, power.** `AccessInv` ties `attempts` to the message in hand,
to the step of the task, to the frame on the bus and to the number of times it was
there; `LockInv` ties the stages of the breaks to the lock and to the step of the
task, which tests the lock before the search and transmits after it. `DueInv` follows
a request through the steps of the task: what the next step will undo (`Undone`) is
already counted as lost if it was requested after the search, so that every other
request keeps its bits. `PowerInv` says that a power message in the buffer has its
trigger, and that a trigger beside a pending response is `late`.

**Input buffer.** `InboxInv` counts the buffer in places of four bytes with
`BufferLength % 4` bytes at its end: reader at place *a*, writer at place *b*,
*n* messages between them that are the messages accepted, and a fill level of 4*n*
plus the skipped ends that reader or writer have passed. An end that the writer
skips is marked with the dummy length. As long as `handled` holds, the reader stands at
the message that was answered. All of it is claimed up to `stray`, and only a release
without `handled` sets that; what a response does when it ends is then read off from
the invariant, case by case (`AnsweredOnce`).
`TypeOK` holds beyond `stray`: `TypesInv` follows no message, only that the reader
stays before the end of the buffer and the writer within it, that every function of the
bus access layer keeps its record in its type, whatever its state, and that a counter
of retries is never below zero.

**DBusCAN.** `Good` says of the driver that a lock taken means an armed callback and a
transfer a lock taken; each callback keeps it or releases both. `Covered` is `Good` up
to `raced`, and is inductive for a task that steps anywhere: a chain is begun under
a lock found free and taken at once, and a chain that goes on after an error does so
under a lock that is still held with the SPI idle, or else sets `raced`.

The reading chain is followed with `Undivided`. `LockInv` adds to `Good` that
between the task's test of the lock and its test of the error flag the lock is held
and no transfer could release it.

`ReadInv` stands on it and says what a message meets on its way. `Control` ties the
callback to the transfers that it starts and the state of the reading chain to both;
`Turns` says when an error of the reading chain can be seen beside a message or a
transfer of it. `InChip` keeps the messages in the chip the last ones received, so
that `Gone`, how many were taken out, is also the last of them. `FirstKnown` is
what the chain knows at each place: a fill level read without an error is not above
the true one, and the message whose length was read is still the first when it is
read out, so that the message handed on is `Gone` and was not handed on before; from
it `Intact` follows. `Counted` bounds `newMsg`, which is raised by a flag seen
together with its message and set from the fill level: a flag is counted at most
once, in the chip, in the flags read or in `newMsg`. `Told` ties every loss to a
failed transfer of its own. `Accounted` is `NoneDropped` in every state: the messages
taken out are handed on, told, or about to be. It is claimed up to `crossed`.
TLC, run on the invariant with two faults, found that what was first assumed
(that no frame is written twice) is not enough, which is how the run `message_ignored`
came about.

### Only model-checked

Liveness under fairness (`HandshakeEnds`, `ClientNotices`, `EnableSucceeds`,
`TransmissionEnds`, `RetryEnds`, `ServiceEnds`, `EventEnds`, `SendingEnds`,
`NothingUnread`) is out of the prover's reach, and with it the parts of
`ImplementsHandshake` and `ImplementsEventChannel` that say that a request is answered
and an event resolved. `ReportIsTrue` is checked only: what it says is about the
interleaving of the task with the chain of the interrupt, which the proofs about single
messages leave out. Every other property of the passing runs is proved, those of
the third column under what it names.

## 5. Where the code and its documentation differ

Three runs end with TLC's trace of a defect.

| run | statement | what the code does |
|---|---|---|
| `frame_sent_twice` | `dbuscan_dbus.c:622` "retry to write the frame because some error occurred during previous write operation" | a low interrupt pin is taken for that error. If the chip raises it because a message was received or an earlier one sent, the frame is written, and sent, a second time |
| `message_ignored` | `dbuscan_dbus.c:231`: a message that is ignored "has an incorrect CRC" or "is longer than RX buffer" | the driver continues a frame after an error of its own if the lock is taken, not asking by whom (192). If a failed read holds it, the callback of the read, still installed, completes that read while its error stays set: the intact message is ignored (233-242) and nobody is told. One failed transfer suffices |
| `frame_without_user` | `AppLayer.c:1873`, "Must never be called" of the branch without an instance | after the last repetition of a request the pointer is moved to the next instance of the queue twice (`AppLayer.c:1888` after `DBAL_handleConMsgTxFail`), so that the frame of the first is sent without an instance |

Further statements that the models contradict, met while modelling:

| statement | what the code does |
|---|---|
| `DBal/doc/dbal.md:246`: the application is notified NOT_READY when a connection message could not be delivered | REJECT in CONNECTING (`IoCon.c:404`) only assigns DISCONNECTED; no callback, and `ConRepeatCnt` keeps its value for the next attempt |
| `BshDBus2AppLayer_internal.h:246` "messages still to be delivered" | a disable request arriving in DISCONNECTED with an event still queued sets `DisableReqReceived` (`AppLayer.c:1365`); it survives into the next connection, which rejects everything |
| `dbal.md:283`: an unresponded frame is repeated | an event delivered twice is acknowledged twice; the second acknowledge matches the next event of the same service and command id (`AppLayer.c:1609`) |
| `AppLayer.c:2081` "Must never be called." | giving a response frame up clears the pointer while the next repetition is flagged (`AppLayer.c:1242`); it is sent without an instance |
| `IoCon.c:813` "We expect, that first ID to receive is zero." | an enable request delivered again resets the ids of the receiver only; events are ignored until the ids meet again |
| `dbusdll.c:96` "No message is received until at least one message has been read" | a header that does not fit writes the dummy length first, also over an unread message (`dbusdll.c:603`) |
| `bal.c:505` "to allow BAL_vTransmitMessage() to be called from interrupt" | the search ends before interrupts are disabled (`bal.c:413`); a flag raised between them is lost from the subsystem mask |
| `dbuspresentation.c`, response and power message | a power message triggered while a response is on the bus is taken for sent by the response's confirmation (`dbuspresentation.c:766`) |
| `readFrame`, `dbuscan_dbus.c:231`: lost messages are notified | messages too long for the buffer are dropped without setting `DBCDBUS_isNotifyRxMsgLost` |

Also observed:

- *DBal.* The last repetition of a request is given up at its confirmation, before
  its answer can arrive; a late DISABLE_RESPONSE completes an enable request, because
  both responses raise ACCEPT; a repetition keeps the sequence id of the frame it
  repeats; an enable response that is not acknowledged leaves its sender READY.
- *Cross queue.* If an answer, a break or a failing event ends the wait of a request for its
  recovery time, its timer is stopped and the pointer stays with the instance: the others
  wait until its next message (`astray`). Entries that are not READY are dropped
  from the response queue while the next is looked for (`crossQueue.c:184-201`).
- *Bus access.* A message of a high index can starve behind one of a low index that is
  flagged again and again; flagged messages are still sent in silent mode;
  cancelling a message in its retries allows one more attempt.
- *Presentation.* An unknown item of appliance data is released and answered
  (`dbuspresentation.c:2163`): the confirmation releases the next message unread.
  Going offline drops the frame on its way without a confirmation
  (`dbusdll.c:1336`); a reset follows, which begins anew.
- *UART.* If the echo of the own acknowledge is disturbed, a message is dropped that
  the sender takes for delivered (`dbusdll.c:797`). A refused frame still skips the
  end of the buffer, and the gap may be counted twice. That does no harm as long as
  the fill level, a byte, can count two buffers: `UartDllAssumption` asks for it, and
  the sizes of 50 and 80 bytes in `dbusdll.h` and `build.mak` satisfy it. A
  `__MESSAGE_INPUT_BUFFER_SIZE` above 128, which nothing refuses, does not: the level
  wraps (`dbusdll.c:604`), and without the assumption TLC finds accepted messages
  forgotten in a buffer of 10 bytes with bytes of 14 values.
- *DBusCAN.* The status of a transmission is read with its CRC unchecked, and flags
  cleared with a corrupted CRC are lost (`dbuscan_dbus.c:855-900`): the layer above
  waits for ever. The flag of a finished transmission is set before its status is read
  (889-900): a task that comes in between reports the status of an earlier frame.
- *DBusCAN, task within a chain.* The polled functions test the lock or the "frame sent"
  flag and then an error flag, without the interrupt of the SPI disabled. If
  the chain that held the lock ends or moves on in between, the task goes on with a
  chain without the lock, or while a transfer of another one runs
  (192, 249); a frame whose end is missed by the first test is begun again (170-174).
  TLC finds these behaviours in `DbusCanDriver` without the constraint; `raced` marks
  where they begin. If a message that is too long is read while another chain goes on
  under its lock, `isMsgReadoutFinished` stays false and nothing is read any more.
- `bal_breaks_dbuscan.c` releases the lock twice when it gives up.

## 6. Not modelled

`PROJECT.json` lists every component with its status, and every hazard with the
properties that cover it or the reason why none does.

- *Zephyr port.* No protocol runs in it that a model could check: the receive
  callback is stored and never called and the queue never filled
  (`spi_abstraction.c:68-80`), timers are never started, connection requests never
  sent; the result of `spi_abstraction_send`, zero on success, is compared with true
  (`dbus_app_layer.c:619`); messages are sent twice (294-314, 558-622); the
  interrupt handler uses the blocking SPI (`dbus_driver.c:85-113`). A model of it
  would state what it may become.
- *DBusCAN*: the wakeup flag (`dbuscan_dbus.c:902-970`), power-on reset,
  initialisation and offline states, blocking accesses, the frame that is too long
  for the chip (580-586), and the builds with a bootloader or an operating system.
- *UART*: CRC values, bit timing, statistics, initialisation.
- *Presentation*: contents of memory, identification and production services, baud rate.
- *DBal*: commands and queries, the main instance and temporary connections,
  applications that call DBal from its callbacks, and the bit mask of critical
  sections, which matters to interrupts that call DBal.
- *RTOS interface, flash and boot drivers*: wrappers and blocking sequences.
- *Product variants, test applications*: configuration tables, generated filters,
  register headers and microcontroller code of several vendors. They are most of
  the repository's lines and have no protocol state of their own, so that the share
  of all lines that the models cover stays small although the driver's own core
  is modelled.

## 7. What is left

In this order:

1. *The repeat queue* `MsgRptPtrs` with several slots, commands and queries.
2. *Initialisation and power-on reset of the DBusCAN chip*, and its wakeup.
3. *Applications that call from callbacks*, and the critical sections of DBal.
