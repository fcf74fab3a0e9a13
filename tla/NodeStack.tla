----------------------------- MODULE NodeStack ------------------------------
(***************************************************************************)
(* One node of the bus over the UART: the presentation layer's service     *)
(* messages (dbuspresentation.c), the bus access layer (bal.c), the breaks *)
(* and the bus lock (bal_breaks.c, dbus_lock.c), sharing one data link     *)
(* layer and one input buffer.                                             *)
(*                                                                         *)
(* The tasks and the timers' callbacks run in one scheduler, each to its   *)
(* end.  Only the receive interrupt confirms frames and stores messages,   *)
(* and the tasks disable it; other interrupts may call BAL_vTransmitMessage*)
(* and the functions that trigger a power message.                         *)
(***************************************************************************)
EXTENDS BusAccess, Sequences

CONSTANTS
    BufferLength, ByteMod, Lengths,     \* the input buffer, see RxRing
    PowerRetries, ResponseRetries,      \* DBPL_POWER_..., DBPL_UPDATE_MSG_SEND_RETRIES
    Kinds,              \* the received messages that are considered
    Handlers            \* the breaks the application asks for

Kind == {"consumed", "read", "update", "unknownItem", "wakeup", "silence",
         "goOffline", "resetExecute"}

ASSUME NodeStackAssumption ==
    /\ PowerRetries \in Nat /\ ResponseRetries \in Nat
    /\ Kinds \subseteq Kind /\ Handlers \subseteq {"WAKEUP", "RESET"} /\ Lengths = {2}
    /\ BufferLength \in Nat /\ BufferLength >= 4 /\ BufferLength % 2 = 0
    /\ ByteMod \in Nat /\ ByteMod > BufferLength + 2

Rx == INSTANCE RxRing

VARIABLES
    \* The data link layer.
    link,           \* "free", "busy" with a frame, "down"
    user,           \* DLL_uiUserCode: a message, or Service
    silent,         \* DLL_bSilent
    ring,           \* the input buffer
    kinds,          \* kind of the message stored at an offset of the buffer
    \* The bus access layer.
    bal,
    step,           \* of BAL_HandleTask: "done", "found", "notFound", "taken"
    asked,          \* BAL_ucSubsystemIndex, the subsystem searched last
    \* The presentation layer.
    state,          \* DBPL_TaskState
    send,           \* DBPL_bSendMsg
    buffer,         \* DBPL_tMessageBuffer: "response" or "power"
    reps,           \* DBPL_ucRepetitions
    trigger,        \* DBPL_uiSendPowerMsgUserTrigger # 0
    wakeupSent,     \* DBPL_bWakeupBreakSent
    \* The breaks.
    lock,           \* DBLK_isDbusLockActive
    breaks,         \* the two break handlers
    \* History.
    due,            \* messages flagged whose frame was not copied since
    lost,           \* those of them that the running step of the task made forgotten
    open, tries,    \* the message whose frame was copied last, and how often; NoMessage when settled
    inbox,          \* kinds of the messages accepted and not released
    stray,          \* a response released a message that it did not answer
    handled,        \* the first of them was answered and is not released
    powerEnded,     \* the power message last triggered was sent, or reported as failed
    late            \* it was triggered while a response was pending

dll == <<link, user>>
input == <<ring, kinds, inbox, stray>>
access == <<bal, step, asked, due, lost, open, tries>>
response == <<send, buffer, reps, handled>>
power == <<trigger, powerEnded, late>>
breaking == <<lock, breaks, wakeupSent>>
vars == <<dll, silent, input, access, state, response, power, breaking>>

\* The result of a frame is handled where it is given and not kept.
Dll == INSTANCE LinkLayer WITH result <- "none"

Service == <<"service">>         \* a user code from BAL_FIRST_SERVICE_MSGID on

Init ==
    /\ Dll!Init /\ user = NoMessage /\ silent = FALSE
    /\ ring = Rx!EmptyRing /\ kinds = [i \in 0 .. (BufferLength - 1) |-> "stale"]
    /\ inbox = <<>> /\ stray = FALSE
    /\ bal = NewAccess /\ step = "done" /\ asked = Min(Subsystems)
    /\ due = {} /\ lost = {} /\ open = NoMessage /\ tries = 0
    /\ state = "INIT" /\ send = FALSE /\ buffer = "response" /\ reps = 0 /\ handled = FALSE
    /\ trigger = FALSE /\ powerEnded = TRUE /\ late = FALSE /\ wakeupSent = FALSE
    /\ lock = FALSE /\ breaks = [h \in Handlers |-> [stage |-> 0, timer |-> FALSE]]

-----------------------------------------------------------------------------
(* The bus access layer: the calls and BAL_HandleTask.                     *)

\* The requests that the next step of the running task will undo: the subsystem
\* where nothing was found is cleared, and the flag of the frame that was copied.
Undone ==
    CASE step = "notFound" -> {m \in Messages : m[1] = asked}
      [] step = "taken" -> {bal.cur}
      [] OTHER -> {}

\* Also from an interrupt.  A message is forgotten until it, or another one of its
\* subsystem if it is still flagged, is requested at a better time.
TransmitMessage(m) ==
    /\ ~silent
    /\ bal' = Flag(bal, m) /\ due' = due \cup {m}
    /\ lost' = {n \in lost : n # m /\ (n[1] = m[1] => n \notin bal.bits)}
                \cup (Undone \cap (lost \cup {m}))
    /\ UNCHANGED <<dll, silent, input, step, asked, open, tries, state, response, power, breaking>>

CancelTransmitMessage(m) ==
    /\ step = "done"
    /\ bal' = Cancel(bal, m) /\ due' = due \ {m} /\ lost' = lost \ {m}
    /\ UNCHANGED <<dll, silent, input, step, asked, open, tries, state, response, power, breaking>>

ClearMessagesToSend ==
    /\ step = "done"
    /\ bal' = ClearMessages(bal) /\ due' = {} /\ lost' = {}
    /\ UNCHANGED <<dll, silent, input, step, asked, open, tries, state, response, power, breaking>>

\* The bus is ready for a transmission; the search is wasted if the lock is held
\* or a power message is due.
BalSearch ==
    /\ step = "done" /\ link = "free" /\ bal.mask # {}
    /\ bal' = Search(bal)
    /\ asked' = IF IsSendingRetry(bal) THEN asked ELSE Min(bal.mask)
    /\ step' = IF lock \/ trigger THEN "done"
               ELSE IF bal'.cur = NoMessage THEN "notFound" ELSE "found"
    /\ UNCHANGED <<dll, silent, input, due, lost, open, tries, state, response, power, breaking>>

BalClear ==
    /\ step = "notFound" /\ step' = "done"
    /\ bal' = ClearSubsystem(bal, asked)
    /\ UNCHANGED <<dll, silent, input, asked, due, lost, open, tries, state, response, power, breaking>>

\* DLL_bTransmitMessage copies the message with its service function.
BalTransmit ==
    /\ step = "found" /\ step' = "taken"
    /\ Dll!Start /\ user' = bal.cur
    /\ due' = due \ {bal.cur} /\ lost' = lost \ {bal.cur} /\ open' = bal.cur
    /\ tries' = IF IsSendingRetry(bal) THEN tries + 1 ELSE 1
    /\ UNCHANGED <<silent, input, bal, asked, state, response, power, breaking>>

\* A byte is just being received.
BalRefused ==
    /\ step = "found" /\ step' = "done"
    /\ UNCHANGED <<dll, silent, input, bal, asked, due, lost, open, tries, state, response, power, breaking>>

BalReset ==
    /\ step = "taken" /\ step' = "done"
    /\ bal' = ResetTransmissionBit(bal, bal.cur)
    /\ UNCHANGED <<dll, silent, input, asked, due, lost, open, tries, state, response, power, breaking>>

-----------------------------------------------------------------------------
(* The presentation layer.                                                 *)

\* DLL_vReleaseDataFromReceivedMessage.
Release(r) ==
    /\ ring' = Rx!Release(r)
    /\ kinds' = [kinds EXCEPT ![r.read] = "stale"]
    /\ inbox' = SubSeq(inbox, 2, Len(inbox))
    /\ handled' = FALSE

\* Mutant of StopRepeat: the message received is not released.
StopRepeatUnreleased ==
    /\ reps' = 0 /\ send' = FALSE /\ UNCHANGED <<buffer, late, input, handled>>
    /\ trigger' = FALSE

\* DBPL_vStopRepeatServiceMsg: the power message was sent, or the response to the
\* message received.
StopRepeat ==
    /\ reps' = 0 /\ send' = FALSE /\ UNCHANGED <<buffer, late>>
    /\ IF trigger
       THEN trigger' = FALSE /\ UNCHANGED <<input, handled>>
       ELSE Release(ring) /\ stray' = (stray \/ ~handled) /\ UNCHANGED trigger

\* Mutants of DecrementRepeat: the last failure is not reported; no limit.
DecrementRepeatUnreported ==
    IF reps > 0 THEN reps' = reps - 1 /\ UNCHANGED <<send, buffer, handled, power, input>>
    ELSE StopRepeat /\ UNCHANGED powerEnded
DecrementRepeatUnlimited ==
    reps' = reps - 1 /\ UNCHANGED <<send, buffer, handled, power, input>>

\* DBPL_vDecrementRepeatServiceMsg.
DecrementRepeat ==
    IF reps > 0 THEN reps' = reps - 1 /\ UNCHANGED <<send, buffer, handled, power, input>>
    ELSE StopRepeat /\ powerEnded' = (powerEnded \/ trigger)

\* DBPL_bSendPowerFailMsg and the others, from the application or an interrupt.
TriggerPower ==
    /\ ~trigger
    /\ trigger' = TRUE /\ powerEnded' = FALSE /\ late' = send
    /\ UNCHANGED <<dll, silent, input, access, state, response, breaking>>

DbplInit ==
    /\ state = "INIT" /\ state' = "ONLINE"
    /\ UNCHANGED <<dll, silent, input, access, response, power, breaking>>

Online == state = "ONLINE" /\ step = "done" /\ ~lock

BuildPowerMessage ==
    /\ Online /\ ~send /\ trigger
    /\ send' = TRUE /\ buffer' = "power" /\ reps' = PowerRetries
    /\ UNCHANGED <<dll, silent, input, access, state, handled, power, breaking>>

Respond(r) == send' = TRUE /\ buffer' = "response" /\ reps' = r
Answer(r) == Respond(r) /\ handled' = TRUE
\* BAL_bDispatchRcvdDbus2Msg and the service functions, by the kind of message.
Received == Rx!Receive(ring)
\* What is left of a message that was released is taken for any message.
Handles(k) == k \in Kinds /\ Rx!HasMessage(Received) /\ kinds[Received.read] \in {k, "stale"}
Keep == ring' = Received /\ UNCHANGED <<kinds, inbox, stray>>
Discard == Release(Received) /\ UNCHANGED <<stray, send, buffer, reps>>

\* Only the unused end of the buffer is read.
SkipEnd ==
    /\ ~Rx!HasMessage(Received) /\ Received # ring /\ Keep
    /\ UNCHANGED <<dll, silent, state, response>>

\* Messages of the application, unknown ones and services without a response.
Consume == Handles("consumed") /\ Discard /\ UNCHANGED <<dll, silent, state>>

\* Read and write: at once, later, or never.
Read ==
    /\ Handles("read")
    /\ (Keep /\ Answer(reps)) \/ (Keep /\ UNCHANGED response) \/ Discard
    /\ UNCHANGED <<dll, silent, state>>

Update ==
    /\ Handles("update") /\ Keep /\ Answer(ResponseRetries)
    /\ UNCHANGED <<dll, silent, state>>

\* DBPL_vReadApplianceDataRequest for an item that does not exist.
UnknownItem ==
    /\ Handles("unknownItem") /\ Release(Received) /\ UNCHANGED stray /\ Respond(ResponseRetries)
    /\ UNCHANGED <<dll, silent, state>>

WakeupRequest ==
    /\ Handles("wakeup")
    /\ IF wakeupSent THEN Keep /\ Answer(PowerRetries) ELSE Discard
    /\ UNCHANGED <<dll, silent, state>>

\* The transition to silent mode and the return from it are answered, the broadcast is not.
Silence ==
    /\ Handles("silence")
    /\ \/ silent' \in BOOLEAN /\ Keep /\ Answer(ResponseRetries)
       \/ silent' = TRUE /\ Discard
    /\ UNCHANGED <<dll, state>>

\* Ours is the node to update, or another one for some time or until the reset.
\* A frame on its way is dropped without a confirmation.
GoOffline ==
    /\ Handles("goOffline") /\ Discard
    /\ state' \in {"WAIT_FOR_RESET", "STAY_OFFLINE"} /\ Dll!Down /\ user' = NoMessage
    /\ UNCHANGED silent

\* The data link layer stays online.
ResetExecute ==
    /\ Handles("resetExecute") /\ Discard
    /\ state' = "WAIT_FOR_RESET" /\ UNCHANGED <<dll, silent>>

Dispatch ==
    /\ Online /\ ~send /\ ~trigger
    /\ SkipEnd \/ Consume \/ Read \/ Update \/ UnknownItem \/ WakeupRequest \/ Silence
        \/ GoOffline \/ ResetExecute
    /\ UNCHANGED <<access, power, breaking>>

DbplTransmit ==
    /\ Online /\ send
    /\ Dll!Start /\ user' = Service
    /\ UNCHANGED <<silent, input, access, state, response, power, breaking>>

\* The timer of the reset or offline delay.
Reset ==
    /\ state = "WAIT_FOR_RESET" /\ step = "done"
    /\ link' = "free" /\ user' = NoMessage /\ silent' = FALSE
    /\ ring' = Rx!EmptyRing /\ kinds' = [i \in 0 .. (BufferLength - 1) |-> "stale"]
    /\ inbox' = <<>> /\ stray' = FALSE
    /\ bal' = NewAccess /\ due' = {} /\ lost' = {} /\ open' = NoMessage /\ tries' = 0 /\ UNCHANGED <<step, asked>>
    /\ state' = "INIT" /\ send' = FALSE /\ buffer' = "response" /\ reps' = 0 /\ handled' = FALSE
    /\ trigger' = FALSE /\ powerEnded' = TRUE /\ late' = FALSE /\ wakeupSent' = FALSE
    /\ lock' = FALSE /\ breaks' = [h \in Handlers |-> [stage |-> 0, timer |-> FALSE]]

-----------------------------------------------------------------------------
(* The breaks: BAL_vSendWakeupBreak, BAL_vSendResetBreak and their timers. *)

LastStage == [h \in Handlers |-> IF h = "WAKEUP" THEN 1 ELSE 3]

\* Mutant of MayApplyLock: whatever happens on the bus.
MayApplyLockAnytime == ~lock

\* DBLK_ApplyDbusLock, refused while a frame is sent or received.
MayApplyLock == link # "busy" /\ ~lock

\* BAL_BREAK_START of the callback; it tries again later if the bus is not free.
StartBreak(h) ==
    \/ /\ MayApplyLock /\ lock' = TRUE
       /\ breaks' = [breaks EXCEPT ![h] = [stage |-> 1, timer |-> TRUE]]
    \/ /\ breaks' = [breaks EXCEPT ![h] = [stage |-> 0, timer |-> TRUE]]
       /\ UNCHANGED lock

\* Mutant of EndBreak: the lock is kept.
EndBreakLocked(h) ==
    /\ UNCHANGED lock
    /\ breaks' = [breaks EXCEPT ![h] = [stage |-> 0, timer |-> FALSE]]

EndBreak(h) ==
    /\ lock' = FALSE
    /\ breaks' = [breaks EXCEPT ![h] = [stage |-> 0, timer |-> FALSE]]

SendBreak(h) ==
    /\ step = "done" /\ breaks[h].stage = 0
    /\ StartBreak(h)
    /\ UNCHANGED <<dll, silent, input, access, state, response, power, wakeupSent>>

BreakTimer(h) ==
    /\ step = "done" /\ breaks[h].timer
    /\ CASE breaks[h].stage = 0 -> StartBreak(h) /\ UNCHANGED wakeupSent
         [] breaks[h].stage = LastStage[h] ->
                EndBreak(h) /\ wakeupSent' = (wakeupSent \/ h = "WAKEUP")
         [] OTHER -> breaks' = [breaks EXCEPT ![h].stage = @ + 1]
                     /\ UNCHANGED <<lock, wakeupSent>>
    /\ UNCHANGED <<dll, silent, input, access, state, response, power>>

-----------------------------------------------------------------------------
(* The receive interrupt.                                                  *)

\* DLL_vMessageTransmitted.
ConfirmAccess(ack) ==
    /\ bal' = MessageTransmitted(bal, ack)
    /\ IF ack = "OK" \/ IsGivenUp(bal, ack) THEN open' = NoMessage /\ tries' = 0
       ELSE UNCHANGED <<open, tries>>
    /\ UNCHANGED <<input, step, asked, due, lost, response, power>>

ConfirmService(ack) ==
    /\ IF ack = "OK"
       THEN StopRepeat /\ powerEnded' = (powerEnded \/ buffer = "power")
       ELSE DecrementRepeat
    /\ UNCHANGED access

Confirm(ack) ==
    /\ step = "done"
    /\ Dll!EndFrame /\ user' = NoMessage
    /\ IF user = Service THEN ConfirmService(ack) ELSE ConfirmAccess(ack)
    /\ UNCHANGED <<silent, state, breaking>>

\* A whole message is received, stored and acknowledged.  Without room it is not,
\* but the end of the buffer may have been skipped for it.
FrameArrives(k) ==
    /\ step = "done" /\ link = "free"
    /\ LET r == Rx!StoreHeader(ring, 2 + Rx!Overhead)
       IN  IF r[2]
           THEN /\ ring' = Rx!Commit(Rx!StoreByte(Rx!StoreByte(r[1])))
                /\ kinds' = [kinds EXCEPT ![r[1].write] = k]
                /\ inbox' = IF stray THEN <<>> ELSE Append(inbox, k)
           ELSE ring' = r[1] /\ UNCHANGED <<kinds, inbox>>
    /\ UNCHANGED <<stray, dll, silent, access, state, response, power, breaking>>

-----------------------------------------------------------------------------
Application ==
    \/ \E m \in Messages : TransmitMessage(m) \/ CancelTransmitMessage(m)
    \/ ClearMessagesToSend \/ TriggerPower
    \/ \E h \in Handlers : SendBreak(h)

Tasks ==
    \/ BalSearch \/ BalClear \/ BalTransmit \/ BalRefused \/ BalReset
    \/ DbplInit \/ BuildPowerMessage \/ Dispatch \/ DbplTransmit

Timers == Reset \/ \E h \in Handlers : BreakTimer(h)

Bus == \E ack \in Dll!Results : Confirm(ack)

Next == Application \/ Tasks \/ Timers \/ Bus \/ \E k \in Kinds : FrameArrives(k)

Spec == Init /\ [][Next]_vars

\* The tasks are called in turn, the timers run out, a transmission ends, and the
\* bus, the lock and the power messages leave a gap for the other task in the end.
FairSpec ==
    /\ Spec
    /\ WF_vars(BalClear \/ BalReset) /\ WF_vars(DbplInit) /\ WF_vars(Reset) /\ WF_vars(Bus)
    /\ \A h \in Handlers : WF_vars(BreakTimer(h))
    /\ SF_vars(BalSearch /\ step' # "done") /\ SF_vars(BalTransmit)
    /\ SF_vars(BuildPowerMessage \/ DbplTransmit)

-----------------------------------------------------------------------------
(* Properties.                                                             *)

TypeOK ==
    /\ link \in {"free", "busy", "down"}
    /\ user \in Messages \cup {NoMessage, Service} /\ silent \in BOOLEAN
    /\ ring \in Rx!Ring
    /\ kinds \in [0 .. (BufferLength - 1) -> Kinds \cup {"stale"}]
    /\ bal \in Access /\ step \in {"done", "found", "notFound", "taken"} /\ asked \in Subsystems
    /\ state \in {"INIT", "ONLINE", "WAIT_FOR_RESET", "STAY_OFFLINE"}
    /\ send \in BOOLEAN /\ buffer \in {"response", "power"}
    /\ reps \in 0 .. Max({PowerRetries, ResponseRetries})
    /\ trigger \in BOOLEAN /\ wakeupSent \in BOOLEAN /\ lock \in BOOLEAN
    /\ breaks \in [Handlers -> [stage : 0 .. 3, timer : BOOLEAN]]
    /\ due \subseteq Messages /\ lost \subseteq Messages /\ open \in Messages \cup {NoMessage}
    /\ tries \in 0 .. (MaxRetries + 1)
    /\ inbox \in Seq(Kinds) /\ {stray, handled, powerEnded, late} \subseteq BOOLEAN

\* Between two calls of the task a message that was requested, and whose contents
\* were not copied since, is found by the next search of its subsystem, unless an
\* interrupt requested it just before the task reset a flag (bal.c:406, bal.c:413);
\* and those are only forgotten until a request of theirs comes at a better time.
DueIsFlagged ==
    step = "done" => \A m \in due \ lost : m \in bal.bits /\ m[1] \in bal.mask

\* A frame without a result is on the bus, or the next call of the task repeats it.
NoFrameForgotten ==
    open # NoMessage /\ link # "down" =>
        \/ link = "busy" /\ user = open
        \/ IsSendingRetry(bal) /\ bal.cur = open /\ bal.mask # {}

\* A message is not put on the bus more often than the largest limit allows, in
\* whatever way and order its transmissions fail and it is cancelled.
TriesBounded == tries <= MaxRetries + 1 /\ (bal.attempts # Cancelled => bal.attempts <= tries)

\* A response that ends releases the message it answers, the oldest one, unless a
\* power message was triggered while it was pending, whose trigger it withdraws
\* (DBPL_vStopRepeatServiceMsg), or it answers a message released before.
AnsweredOnce ==
    [][send /\ buffer = "response" /\ ~send' /\ state' # "INIT" =>
        \/ handled /\ ~handled' /\ (~stray => inbox # <<>> /\ inbox' = Tail(inbox))
        \/ late /\ trigger /\ ~trigger' /\ inbox' = inbox
        \/ ~handled /\ stray']_vars

\* What the buffer hands out is the oldest message accepted, wherever its end was
\* skipped, and nothing is handed out that was released, until a response releases
\* a message that it does not answer (dbuspresentation.c:2163).
BufferIsInbox ==
    ~stray =>
        IF inbox = <<>> THEN ~Rx!HasMessage(Received)
        ELSE Rx!HasMessage(Received) /\ kinds[Received.read] = Head(inbox)

\* A power message is sent, or its failure reported, before its trigger is withdrawn,
\* unless this one was triggered while a response was pending.
PowerTriggerHonoured == trigger \/ powerEnded \/ late

\* One break at a time, and no transmission during a break.
BreakExclusive ==
    /\ \A g, h \in Handlers : breaks[g].stage > 0 /\ breaks[h].stage > 0 => g = h
    /\ lock <=> \E h \in Handlers : breaks[h].stage > 0
    /\ lock => link # "busy"

\* A message is not repeated for ever, nor left between two attempts.
RetryEnds == IsSendingRetry(bal) ~> ~IsSendingRetry(bal) \/ link = "down"

\* Neither is a response or a power message.
ServiceEnds == send \/ trigger ~> (~send /\ ~trigger) \/ link = "down"
=============================================================================
