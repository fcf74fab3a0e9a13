-------------------------- MODULE NodeStack_proofs --------------------------
(***************************************************************************)
(* Proofs about one node's stack, for any number of subsystems, messages   *)
(* and retries, any buffer and any mix of received messages.               *)
(***************************************************************************)
EXTENDS NodeStack, TLAPS

-----------------------------------------------------------------------------
(* The breaks and the bus lock.                                            *)

\* A search that ended with a message found the lock open, and no break starts
\* before the message is handed over.
LockInv ==
    /\ lock \in BOOLEAN /\ breaks \in [Handlers -> [stage : 0 .. 3, timer : BOOLEAN]]
    /\ \A h \in Handlers : breaks[h].stage <= LastStage[h]
    /\ BreakExclusive
    /\ step = "found" => ~lock

LEMMA LastStages == \A h \in Handlers : LastStage[h] \in {1, 3}
BY DEF LastStage

LEMMA LockInit == Init => LockInv
<1> SUFFICES ASSUME Init PROVE LockInv
  OBVIOUS
<1>1. lock = FALSE /\ step = "done" /\ \A h \in Handlers : breaks[h] = [stage |-> 0, timer |-> FALSE]
  BY DEF Init
<1>2. breaks \in [Handlers -> [stage : 0 .. 3, timer : BOOLEAN]]
  BY DEF Init
<1>3. \A h \in Handlers : breaks[h].stage = 0
  BY <1>1
<1>4. /\ ~ \E h \in Handlers : breaks[h].stage > 0
      /\ \A h \in Handlers : breaks[h].stage <= LastStage[h]
  BY <1>3, LastStages
<1> QED BY <1>1, <1>2, <1>4 DEF LockInv, BreakExclusive

\* Actions that keep the lock and the breaks.
LEMMA LockKept ==
    ASSUME LockInv, UNCHANGED <<lock, breaks>>,
           link' = "busy" => link = "busy" \/ ~lock,
           step' = "found" => step = "found" \/ ~lock
    PROVE LockInv'
BY DEF LockInv, BreakExclusive

LEMMA StartBreakGood ==
    ASSUME LockInv, NEW h \in Handlers, breaks[h].stage = 0, step = "done",
           StartBreak(h), UNCHANGED <<link, step>>
    PROVE LockInv'
<1>1. CASE /\ MayApplyLock /\ lock' = TRUE
           /\ breaks' = [breaks EXCEPT ![h] = [stage |-> 1, timer |-> TRUE]]
  <2>1. \A g \in Handlers : breaks[g].stage = 0
    BY <1>1 DEF LockInv, BreakExclusive, MayApplyLock
  <2>2. /\ breaks' \in [Handlers -> [stage : 0 .. 3, timer : BOOLEAN]]
        /\ breaks'[h].stage = 1
        /\ \A g \in Handlers : g # h => breaks'[g].stage = 0
    BY <1>1, <2>1 DEF LockInv
  <2> QED BY <1>1, <2>1, <2>2, LastStages DEF LockInv, BreakExclusive, MayApplyLock
<1>2. CASE /\ breaks' = [breaks EXCEPT ![h] = [stage |-> 0, timer |-> TRUE]]
           /\ UNCHANGED lock
  <2>1. /\ breaks' \in [Handlers -> [stage : 0 .. 3, timer : BOOLEAN]]
        /\ \A g \in Handlers : breaks'[g].stage = breaks[g].stage
    BY <1>2 DEF LockInv
  <2> QED BY <1>2, <2>1 DEF LockInv, BreakExclusive
<1> QED BY <1>1, <1>2 DEF StartBreak

LEMMA BreakTimerGood ==
    ASSUME LockInv, NEW h \in Handlers, BreakTimer(h) PROVE LockInv'
<1>1. step = "done" /\ UNCHANGED <<link, step>>
  BY DEF BreakTimer, dll, access
<1>2. CASE breaks[h].stage = 0
  <2>1. StartBreak(h)
    BY <1>2, LastStages DEF BreakTimer
  <2> QED BY <1>1, <1>2, <2>1, StartBreakGood
<1>3. CASE breaks[h].stage # 0 /\ breaks[h].stage = LastStage[h]
  <2>1. lock' = FALSE /\ breaks' = [breaks EXCEPT ![h] = [stage |-> 0, timer |-> FALSE]]
    BY <1>3 DEF BreakTimer, EndBreak
  <2>2. breaks[h].stage > 0
    BY <1>3 DEF LockInv
  <2>3. /\ breaks' \in [Handlers -> [stage : 0 .. 3, timer : BOOLEAN]]
        /\ \A g \in Handlers : breaks'[g].stage = 0
    BY <2>1, <2>2 DEF LockInv, BreakExclusive
  <2>4. ~ \E g \in Handlers : breaks'[g].stage > 0
    BY <2>3
  <2>5. \A g \in Handlers : breaks'[g].stage <= LastStage[g]
    BY <2>3, LastStages
  <2> QED BY <1>1, <2>1, <2>3, <2>4, <2>5 DEF LockInv, BreakExclusive
<1>4. CASE breaks[h].stage # 0 /\ breaks[h].stage # LastStage[h]
  <2>1. breaks' = [breaks EXCEPT ![h].stage = @ + 1] /\ UNCHANGED lock
    BY <1>4 DEF BreakTimer
  <2>2. breaks[h].stage \in 1 .. 2 /\ breaks[h].stage + 1 <= LastStage[h]
    BY <1>4, LastStages DEF LockInv
  <2>3. /\ breaks' \in [Handlers -> [stage : 0 .. 3, timer : BOOLEAN]]
        /\ \A g \in Handlers : breaks'[g].stage > 0 <=> breaks[g].stage > 0
    BY <2>1, <2>2 DEF LockInv
  <2>4. \A g \in Handlers : breaks'[g].stage <= LastStage[g]
    BY <2>1, <2>2 DEF LockInv
  <2>5. (\E g \in Handlers : breaks'[g].stage > 0) <=> lock
    BY <2>3 DEF LockInv, BreakExclusive
  <2> QED BY <1>1, <2>1, <2>3, <2>4, <2>5 DEF LockInv, BreakExclusive
<1> QED BY <1>2, <1>3, <1>4
LEMMA ResetLock == ASSUME Reset PROVE LockInv'
<1>1. /\ lock' = FALSE /\ step' = "done"
      /\ breaks' = [h \in Handlers |-> [stage |-> 0, timer |-> FALSE]]
  BY DEF Reset
<1>2. /\ breaks' \in [Handlers -> [stage : 0 .. 3, timer : BOOLEAN]]
      /\ \A h \in Handlers : breaks'[h].stage = 0
  BY <1>1
<1>3. /\ ~ \E h \in Handlers : breaks'[h].stage > 0
      /\ \A h \in Handlers : breaks'[h].stage <= LastStage[h]
  BY <1>2, LastStages
<1> QED BY <1>1, <1>2, <1>3 DEF LockInv, BreakExclusive

LEMMA LockStep == LockInv /\ [Next]_vars => LockInv'
<1> SUFFICES ASSUME LockInv, [Next]_vars PROVE LockInv'
  OBVIOUS
<1> USE DEF dll, access, breaking
<1>1. CASE UNCHANGED vars
  BY <1>1, LockKept DEF vars
<1>2. CASE Application
  <2>1. ASSUME NEW m \in Messages, TransmitMessage(m) \/ CancelTransmitMessage(m) PROVE LockInv'
    BY <2>1, LockKept DEF TransmitMessage, CancelTransmitMessage
  <2>2. CASE ClearMessagesToSend \/ TriggerPower
    BY <2>2, LockKept DEF ClearMessagesToSend, TriggerPower
  <2>3. ASSUME NEW h \in Handlers, SendBreak(h) PROVE LockInv'
    BY <2>3, StartBreakGood DEF SendBreak
  <2> QED BY <1>2, <2>1, <2>2, <2>3 DEF Application
<1>3. CASE Tasks
  <2>1. CASE BalSearch
    BY <2>1, LockKept DEF BalSearch
  <2>2. CASE BalClear \/ BalRefused \/ BalReset
    BY <2>2, LockKept DEF BalClear, BalRefused, BalReset
  <2>3. CASE BalTransmit
    BY <2>3, LockKept DEF BalTransmit, LockInv
  <2>4. CASE DbplInit \/ BuildPowerMessage
    BY <2>4, LockKept DEF DbplInit, BuildPowerMessage
  <2>5. CASE Dispatch
    BY <2>5, LockKept DEF Dispatch, SkipEnd, Consume, Read, Update, UnknownItem, WakeupRequest, Silence,
       GoOffline, ResetExecute, Dll!Down
  <2>6. CASE DbplTransmit
    BY <2>6, LockKept DEF DbplTransmit, Online
  <2> QED BY <1>3, <2>1, <2>2, <2>3, <2>4, <2>5, <2>6 DEF Tasks
<1>4. CASE Timers
  BY <1>4, ResetLock, BreakTimerGood DEF Timers
<1>5. CASE Bus
  BY <1>5, LockKept DEF Bus, Confirm, Dll!EndFrame, ConfirmAccess, ConfirmService
<1>6. ASSUME NEW k \in Kinds, FrameArrives(k) PROVE LockInv'
  BY <1>6, LockKept DEF FrameArrives
<1> QED BY <1>1, <1>2, <1>3, <1>4, <1>5, <1>6 DEF Next

-----------------------------------------------------------------------------
(* Transmissions of the bus access layer and their repetition.             *)

\* A frame of the bus access layer is on the bus.
OnBus == link = "busy" /\ user # Service

LimitInv ==
    /\ DOMAIN bal = {"mask", "bits", "cur", "attempts", "max"}
    /\ bal.attempts \in 0 .. MaxRetries \cup {Cancelled}
    /\ bal.max \in 0 .. MaxRetries /\ tries \in Nat

\* The step of BAL_HandleTask tells what the search found and what was handed over.
StepInv ==
    /\ bal.cur # Service /\ open # Service
    /\ step \in {"found", "notFound"} => link # "busy"
    /\ step = "found" => bal.cur # NoMessage /\ bal.mask # {}
    /\ step = "notFound" => bal.cur = NoMessage /\ bal.attempts = 0

\* Frame, retry and message go together.
RetryInv ==
    /\ bal.attempts > 0 => bal.cur = open /\ open # NoMessage /\ bal.mask # {}
    /\ OnBus => user = open /\ bal.cur = open /\ open # NoMessage /\ bal.mask # {}
    /\ NoFrameForgotten

\* The frame on the bus is counted by tries and not yet by attempts; a cancelled
\* message is sent at most once more.
TriesInv ==
    /\ TriesBounded
    /\ link # "down" /\ bal.attempts # Cancelled =>
           tries = IF OnBus THEN bal.attempts + 1 ELSE bal.attempts
    /\ link # "down" /\ bal.attempts = Cancelled /\ ~OnBus => tries <= MaxRetries

AccessInv == LimitInv /\ StepInv /\ RetryInv /\ TriesInv

LEMMA LargestOfThree ==
    ASSUME NEW a \in 0 .. 254, NEW b \in 0 .. 254, NEW c \in 0 .. 254
    PROVE /\ Max({a, b, c}) \in {a, b, c}
          /\ a <= Max({a, b, c}) /\ b <= Max({a, b, c}) /\ c <= Max({a, b, c})
<1>1. CASE a >= b /\ a >= c
  <2>1. \A y \in {a, b, c} : a >= y
    BY <1>1
  <2> QED BY <2>1 DEF Max
<1>2. CASE b >= a /\ b >= c
  <2>1. \A y \in {a, b, c} : b >= y
    BY <1>2
  <2> QED BY <2>1 DEF Max
<1>3. CASE c >= a /\ c >= b
  <2>1. \A y \in {a, b, c} : c >= y
    BY <1>3
  <2> QED BY <2>1 DEF Max
<1> QED BY <1>1, <1>2, <1>3

LEMMA Limits ==
    /\ MaxRetries \in 0 .. 254
    /\ {CollisionRetries, MissingAckRetries, NackRetries} \subseteq 0 .. MaxRetries
<1>1. CollisionRetries \in 0 .. 254 /\ MissingAckRetries \in 0 .. 254 /\ NackRetries \in 0 .. 254
  BY BusAccessAssumption
<1>2. /\ MaxRetries \in {CollisionRetries, MissingAckRetries, NackRetries}
      /\ CollisionRetries <= MaxRetries /\ MissingAckRetries <= MaxRetries
      /\ NackRetries <= MaxRetries
  BY <1>1, LargestOfThree DEF MaxRetries
<1> HIDE DEF MaxRetries
<1> QED BY <1>1, <1>2

\* The limit after an error is one of the three limits.
LEMMA LimitAfterBounded ==
    ASSUME NEW b, b.max \in 0 .. MaxRetries, NEW ack
    PROVE LimitAfter(b, ack) \in 0 .. MaxRetries
<1>1. LimitOf(ack) \in 0 .. MaxRetries
  BY Limits DEF LimitOf
<1>2. MaxRetries \in Nat
  BY Limits
<1>3. \E x \in {b.max, LimitOf(ack)} : \A y \in {b.max, LimitOf(ack)} : x >= y
  BY <1>1, <1>2
<1> QED BY <1>1, <1>3 DEF LimitAfter, Max

LEMMA LowestFlaggedIsMessage ==
    ASSUME NEW b PROVE LowestFlagged(b) # Service
BY DEF LowestFlagged, Service, NoMessage

LEMMA AccessInit == Init => AccessInv
BY Limits DEF Init, AccessInv, LimitInv, StepInv, RetryInv, TriesInv, NoFrameForgotten, TriesBounded,
   OnBus, Dll!Init, NewAccess, Service, NoMessage, Cancelled, IsSendingRetry

\* Steps of the other parts, which may put a service message on the bus, take it
\* from there or bring the link down.
LEMMA AccessKept ==
    ASSUME AccessInv, UNCHANGED <<bal, step, open, tries>>,
           \/ UNCHANGED <<link, user>>
           \/ step = "done" /\ link = "free" /\ link' = "busy" /\ user' = Service
           \/ step = "done" /\ link = "busy" /\ user = Service /\ link' = "free" /\ user' = NoMessage
           \/ step = "done" /\ link' = "down"
    PROVE AccessInv'
BY Limits DEF AccessInv, LimitInv, StepInv, RetryInv, TriesInv, NoFrameForgotten, TriesBounded, OnBus,
   IsSendingRetry

LEMMA CallsGood ==
    ASSUME AccessInv, NEW m \in Messages,
           TransmitMessage(m) \/ CancelTransmitMessage(m) \/ ClearMessagesToSend
    PROVE AccessInv'
<1> USE Limits DEF AccessInv, LimitInv, StepInv, RetryInv, TriesInv, NoFrameForgotten, TriesBounded,
    OnBus, IsSendingRetry, dll
<1>1. CASE TransmitMessage(m)
  BY <1>1 DEF TransmitMessage, Flag
<1>2. CASE CancelTransmitMessage(m)
  BY <1>2 DEF CancelTransmitMessage, Cancel, Cancelled
<1>3. CASE ClearMessagesToSend
  BY <1>3 DEF ClearMessagesToSend, ClearMessages
<1> QED BY <1>1, <1>2, <1>3

LEMMA SearchGood == ASSUME AccessInv, BalSearch PROVE AccessInv'
<1>1. /\ step = "done" /\ link = "free" /\ bal' = Search(bal) /\ bal.mask # {}
      /\ UNCHANGED <<link, user, open, tries>>
      /\ step' \in {"done", "notFound", "found"}
      /\ step' = "notFound" => bal'.cur = NoMessage
      /\ step' = "found" => bal'.cur # NoMessage
  BY DEF BalSearch, dll
<1>2. /\ bal'.attempts = bal.attempts /\ bal'.max = bal.max /\ bal'.mask = bal.mask
      /\ DOMAIN bal' = DOMAIN bal
  BY <1>1 DEF Search, AccessInv, LimitInv
<1>3. bal.attempts > 0 => bal'.cur = bal.cur
  BY <1>1 DEF Search, IsSendingRetry
<1>4. bal'.cur # Service
  BY <1>1, LowestFlaggedIsMessage DEF Search, AccessInv, StepInv
<1>5. bal.attempts \in Nat
  BY Limits DEF AccessInv, LimitInv, Cancelled
<1> QED
  BY <1>1, <1>2, <1>3, <1>4, <1>5, Limits DEF AccessInv, LimitInv, StepInv, RetryInv, TriesInv,
     NoFrameForgotten, TriesBounded, OnBus, IsSendingRetry

LEMMA HandOverGood ==
    ASSUME AccessInv, BalClear \/ BalTransmit \/ BalRefused \/ BalReset PROVE AccessInv'
<1> USE Limits DEF AccessInv, LimitInv, StepInv, RetryInv, TriesInv, NoFrameForgotten, TriesBounded,
    OnBus, IsSendingRetry, dll
<1>1. CASE BalClear
  <2>1. PICK s : bal' = ClearSubsystem(bal, s)
    BY <1>1 DEF BalClear
  <2>2. /\ bal.attempts = 0 /\ bal'.attempts = 0 /\ bal'.max = bal.max
        /\ bal'.cur = NoMessage /\ DOMAIN bal' = DOMAIN bal
    BY <1>1, <2>1 DEF BalClear, ClearSubsystem
  <2>3. link # "busy" /\ step' = "done" /\ UNCHANGED <<link, user, open, tries>>
    BY <1>1 DEF BalClear
  <2>4. NoMessage # Service
    BY DEF NoMessage, Service
  <2>5. LimitInv' /\ StepInv'
    BY <2>2, <2>3, <2>4
  <2>6. RetryInv' /\ TriesInv'
    BY <2>2, <2>3
  <2> QED BY <2>5, <2>6
<1>2. CASE BalTransmit
  <2>1. /\ step = "found" /\ step' = "taken" /\ bal' = bal
        /\ link = "free" /\ link' = "busy" /\ user' = bal.cur /\ open' = bal.cur
        /\ tries' = IF bal.attempts > 0 THEN tries + 1 ELSE 1
    BY <1>2 DEF BalTransmit, Dll!Start
  <2>2. bal.mask # {}
    BY <2>1
  <2>3. OnBus' /\ ~OnBus
    BY <2>1
  <2>4. bal.attempts \in Nat /\ (bal.attempts = Cancelled => bal.attempts > 0)
    BY DEF Cancelled
  <2>5. LimitInv' /\ StepInv' /\ RetryInv'
    BY <2>1, <2>2, <2>4
  <2>6. TriesInv'
    BY <2>1, <2>3, <2>4
  <2> QED BY <2>5, <2>6
<1>3. CASE BalRefused
  BY <1>3 DEF BalRefused
<1>4. CASE BalReset
  BY <1>4 DEF BalReset, ResetTransmissionBit
<1> QED BY <1>1, <1>2, <1>3, <1>4

LEMMA ConfirmGood == ASSUME AccessInv, NEW ack, Confirm(ack) PROVE AccessInv'
<1>1. /\ step = "done" /\ link = "busy" /\ link' = "free" /\ user' = NoMessage
      /\ step' = step
  BY DEF Confirm, Dll!EndFrame, ConfirmAccess, ConfirmService, access
<1>2. CASE user = Service
  BY <1>1, <1>2, AccessKept DEF Confirm, ConfirmService, access
<1>3. CASE user # Service
  <2>1. /\ bal' = MessageTransmitted(bal, ack)
        /\ IF ack = "OK" \/ IsGivenUp(bal, ack) THEN open' = NoMessage /\ tries' = 0
           ELSE UNCHANGED <<open, tries>>
    BY <1>3 DEF Confirm, ConfirmAccess
  <2>2. OnBus
    BY <1>1, <1>3 DEF OnBus
  <2>3. NoMessage # Service
    BY DEF NoMessage, Service
  <2> USE DEF AccessInv, LimitInv, StepInv, RetryInv, TriesInv, NoFrameForgotten, TriesBounded,
      IsSendingRetry
  <2>4. CASE ack = "OK" \/ IsGivenUp(bal, ack)
    <3>1. /\ bal'.attempts = 0 /\ bal'.max = 0 /\ bal'.cur = bal.cur /\ bal'.mask = bal.mask
          /\ DOMAIN bal' = DOMAIN bal
      BY <2>1, <2>4 DEF MessageTransmitted
    <3> QED BY <1>1, <2>1, <2>2, <2>3, <2>4, <3>1, Limits DEF OnBus, Cancelled
  <2>5. CASE ~(ack = "OK" \/ IsGivenUp(bal, ack))
    <3>1. /\ bal'.attempts = bal.attempts + 1 /\ bal'.max = LimitAfter(bal, ack)
          /\ bal'.cur = bal.cur /\ bal'.mask = bal.mask /\ DOMAIN bal' = DOMAIN bal
      BY <2>1, <2>5 DEF MessageTransmitted
    <3>2. LimitAfter(bal, ack) \in 0 .. MaxRetries /\ bal.attempts < LimitAfter(bal, ack)
      BY <2>5, LimitAfterBounded, Limits DEF IsGivenUp, Cancelled
    <3>3. bal'.attempts \in 1 .. MaxRetries /\ bal.attempts # Cancelled
      BY <3>1, <3>2, Limits DEF Cancelled
    <3> QED BY <1>1, <2>1, <2>2, <2>3, <2>5, <3>1, <3>2, <3>3, Limits DEF OnBus, Cancelled
  <2> QED BY <2>4, <2>5
<1> QED BY <1>2, <1>3

LEMMA AccessStep == AccessInv /\ [Next]_vars => AccessInv'
<1> SUFFICES ASSUME AccessInv, [Next]_vars PROVE AccessInv'
  OBVIOUS
<1> USE DEF dll, access
<1>1. CASE UNCHANGED vars
  BY <1>1, AccessKept DEF vars
<1>2. CASE Application
  <2>1. CASE TriggerPower \/ \E h \in Handlers : SendBreak(h)
    BY <2>1, AccessKept DEF TriggerPower, SendBreak
  <2>2. ASSUME NEW m \in Messages, TransmitMessage(m) \/ CancelTransmitMessage(m) PROVE AccessInv'
    BY <2>2, CallsGood
  <2>3. CASE ClearMessagesToSend
    <3>1. PICK s \in Subsystems : TRUE
      BY BusAccessAssumption
    <3>2. <<s, 0>> \in Messages
      BY <3>1, BusAccessAssumption DEF Messages
    <3> QED BY <2>3, <3>2, CallsGood
  <2> QED BY <1>2, <2>1, <2>2, <2>3 DEF Application
<1>3. CASE Tasks
  <2>1. CASE DbplInit \/ BuildPowerMessage
    BY <2>1, AccessKept DEF DbplInit, BuildPowerMessage
  <2>2. CASE Dispatch
    BY <2>2, AccessKept DEF Dispatch, Online, SkipEnd, Consume, Read, Update, UnknownItem, WakeupRequest,
       Silence, GoOffline, ResetExecute, Dll!Down
  <2>3. CASE DbplTransmit
    BY <2>3, AccessKept DEF DbplTransmit, Online, Dll!Start
  <2> QED BY <1>3, <2>1, <2>2, <2>3, SearchGood, HandOverGood DEF Tasks
<1>4. CASE Reset
  BY <1>4, Limits DEF Reset, AccessInv, LimitInv, StepInv, RetryInv, TriesInv, NoFrameForgotten,
     TriesBounded, OnBus, NewAccess, Service, NoMessage, Cancelled, IsSendingRetry
<1>5. ASSUME NEW h \in Handlers, BreakTimer(h) PROVE AccessInv'
  BY <1>5, AccessKept DEF BreakTimer
<1>6. ASSUME NEW k \in Kinds, FrameArrives(k) PROVE AccessInv'
  BY <1>6, AccessKept DEF FrameArrives
<1> QED BY <1>1, <1>2, <1>3, <1>4, <1>5, <1>6, ConfirmGood DEF Next, Timers, Bus

-----------------------------------------------------------------------------
(* Requests of the application.                                            *)

\* What the running step of the task will undo was requested too late.
DueInv ==
    /\ due \subseteq Messages
    /\ \A m \in due \ lost : m \in bal.bits /\ m[1] \in bal.mask
    /\ Undone \cap due \subseteq lost

LEMMA DueKept ==
    ASSUME DueInv, UNCHANGED <<bal, due, lost>>,
           UNCHANGED <<step, asked>> \/ step' \notin {"notFound", "taken"}
    PROVE DueInv'
BY DEF DueInv, Undone

\* The search fails only where nothing is flagged.
LEMMA NothingFlagged ==
    ASSUME NEW b, LowestFlagged(b) = NoMessage
    PROVE \A m \in b.bits : m[1] # Min(b.mask)
BY DEF LowestFlagged, NoMessage

LEMMA DueSearch == ASSUME DueInv, LimitInv, StepInv, RetryInv, BalSearch PROVE DueInv'
<1>1. /\ step = "done" /\ bal' = Search(bal) /\ UNCHANGED <<due, lost>>
      /\ bal'.mask = bal.mask /\ bal'.bits = bal.bits
      /\ step' \in {"done", "notFound", "found"}
      /\ step' = "notFound" => bal'.cur = NoMessage
      /\ asked' = IF IsSendingRetry(bal) THEN asked ELSE Min(bal.mask)
  BY DEF BalSearch, Search
<1>2. ASSUME step' = "notFound" PROVE \A m \in bal.bits : m[1] # asked'
  <2>1. CASE IsSendingRetry(bal)
    BY <1>1, <1>2, <2>1 DEF Search, IsSendingRetry, RetryInv
  <2>2. CASE ~IsSendingRetry(bal)
    <3>1. LowestFlagged(bal) = NoMessage
      BY <1>1, <1>2, <2>2 DEF Search, LimitInv
    <3> QED BY <1>1, <2>2, <3>1, NothingFlagged
  <2> QED BY <2>1, <2>2
<1>3. \A m \in due \ lost : m \in bal.bits /\ m[1] \in bal.mask
  BY DEF DueInv
<1>4. Undone' \cap due \subseteq lost
  <2>1. CASE step' = "notFound"
    BY <1>2, <1>3, <2>1 DEF Undone
  <2>2. CASE step' # "notFound"
    BY <1>1, <2>2 DEF Undone
  <2> QED BY <2>1, <2>2
<1> QED BY <1>1, <1>3, <1>4 DEF DueInv

LEMMA DueTransmit ==
    ASSUME DueInv, LimitInv, NEW m \in Messages, TransmitMessage(m) PROVE DueInv'
<1>1. /\ bal' = Flag(bal, m) /\ due' = due \cup {m} /\ UNCHANGED <<step, asked>>
      /\ lost' = {n \in lost : n # m /\ (n[1] = m[1] => n \notin bal.bits)}
                  \cup (Undone \cap (lost \cup {m}))
  BY DEF TransmitMessage
<1>2. /\ bal'.bits = bal.bits \cup {m} /\ bal'.mask = bal.mask \cup {m[1]} /\ bal'.cur = bal.cur
  BY <1>1 DEF Flag, LimitInv
<1>3. Undone' = Undone
  BY <1>1, <1>2 DEF Undone
<1>4. ASSUME NEW n \in due' \ lost' PROVE n \in bal'.bits /\ n[1] \in bal'.mask
  <2>1. CASE n = m
    BY <1>2, <2>1
  <2>2. CASE n # m /\ n \in lost
    BY <1>1, <1>2, <1>4, <2>2
  <2>3. CASE n # m /\ n \notin lost
    BY <1>1, <1>2, <1>4, <2>3 DEF DueInv
  <2> QED BY <2>1, <2>2, <2>3
<1>5. Undone' \cap due' \subseteq lost'
  BY <1>1, <1>3 DEF DueInv
<1> QED BY <1>1, <1>4, <1>5 DEF DueInv

LEMMA DueStep ==
    ASSUME DueInv, LimitInv, StepInv, RetryInv, [Next]_vars PROVE DueInv'
<1> USE DEF access
<1>1. CASE UNCHANGED vars
  BY <1>1, DueKept DEF vars
<1>2. CASE Application
  <2>1. CASE TriggerPower \/ \E h \in Handlers : SendBreak(h)
    BY <2>1, DueKept DEF TriggerPower, SendBreak
  <2>2. ASSUME NEW m \in Messages, CancelTransmitMessage(m) PROVE DueInv'
    BY <2>2 DEF CancelTransmitMessage, Cancel, DueInv, LimitInv, Undone
  <2>3. CASE ClearMessagesToSend
    BY <2>3 DEF ClearMessagesToSend, ClearMessages, DueInv, LimitInv, Undone
  <2> QED BY <1>2, <2>1, <2>2, <2>3, DueTransmit DEF Application
<1>3. CASE Tasks
  <2>1. CASE BalClear
    <3>1. /\ step = "notFound" /\ step' = "done" /\ UNCHANGED <<due, lost>>
          /\ bal'.bits = bal.bits /\ bal'.mask = bal.mask \ {asked}
      BY <2>1 DEF BalClear, ClearSubsystem, LimitInv
    <3>2. \A m \in due \ lost : m[1] # asked
      BY <3>1 DEF DueInv, Undone
    <3> QED BY <3>1, <3>2 DEF DueInv, Undone
  <2>2. CASE BalTransmit
    BY <2>2 DEF BalTransmit, DueInv, Undone
  <2>3. CASE BalRefused
    BY <2>3, DueKept DEF BalRefused
  <2>4. CASE BalReset
    BY <2>4 DEF BalReset, ResetTransmissionBit, DueInv, LimitInv, Undone
  <2>5. CASE DbplInit \/ BuildPowerMessage \/ Dispatch \/ DbplTransmit
    BY <2>5, DueKept DEF DbplInit, BuildPowerMessage, Dispatch, DbplTransmit
  <2> QED BY <1>3, <2>1, <2>2, <2>3, <2>4, <2>5, DueSearch DEF Tasks
<1>4. CASE Reset
  BY <1>4 DEF Reset, DueInv, Undone
<1>5. ASSUME NEW h \in Handlers, BreakTimer(h) PROVE DueInv'
  BY <1>5, DueKept DEF BreakTimer
<1>6. ASSUME NEW ack, Confirm(ack) PROVE DueInv'
  <2>1. /\ step = "done" /\ step' = "done" /\ UNCHANGED <<due, lost>>
        /\ bal' = bal \/ bal' = MessageTransmitted(bal, ack)
    BY <1>6 DEF Confirm, ConfirmAccess, ConfirmService
  <2>2. bal'.bits = bal.bits /\ bal'.mask = bal.mask
    BY <2>1 DEF MessageTransmitted, LimitInv
  <2> QED BY <2>1, <2>2 DEF DueInv, Undone
<1>7. ASSUME NEW k \in Kinds, FrameArrives(k) PROVE DueInv'
  BY <1>7, DueKept DEF FrameArrives
<1> QED BY <1>1, <1>2, <1>3, <1>4, <1>5, <1>6, <1>7 DEF Next, Timers, Bus

-----------------------------------------------------------------------------
(* Power messages.                                                         *)

\* Only a trigger builds a power message; a service message on the bus is still
\* pending.
PowerInv ==
    /\ buffer \in {"response", "power"}
    /\ send /\ buffer = "power" => trigger
    /\ send /\ buffer = "response" /\ trigger => late
    /\ link = "busy" /\ user = Service => send
    /\ PowerTriggerHonoured

LEMMA PowerKept ==
    ASSUME PowerInv, UNCHANGED <<send, buffer, power>>,
           link' = "busy" /\ user' = Service => send \/ (link = "busy" /\ user = Service)
    PROVE PowerInv'
BY DEF PowerInv, PowerTriggerHonoured, power

LEMMA PowerDispatch == ASSUME PowerInv, Dispatch PROVE PowerInv'
<1>1. /\ ~send /\ ~trigger /\ UNCHANGED power
      /\ (link' = link /\ user' = user) \/ link' = "down"
      /\ UNCHANGED <<send, buffer>> \/ (send' = TRUE /\ buffer' = "response")
  BY DEF Dispatch, SkipEnd, Consume, Read, Update, UnknownItem, WakeupRequest, Silence, GoOffline,
     ResetExecute, Answer, Respond, Discard, Dll!Down, dll, response
<1> QED BY <1>1 DEF PowerInv, PowerTriggerHonoured, power

LEMMA PowerConfirm == ASSUME PowerInv, NEW ack, Confirm(ack) PROVE PowerInv'
<1>1. link = "busy" /\ link' = "free"
  BY DEF Confirm, Dll!EndFrame
<1>2. CASE user # Service
  BY <1>1, <1>2 DEF Confirm, ConfirmAccess, PowerInv, PowerTriggerHonoured, response, power
<1>3. CASE user = Service
  <2>1. send
    BY <1>1, <1>3 DEF PowerInv
  <2>2. ASSUME StopRepeat PROVE send' = FALSE /\ trigger' = FALSE /\ UNCHANGED <<buffer, late>>
    BY <2>2 DEF StopRepeat, PowerInv
  <2>3. CASE ack = "OK"
    BY <1>1, <1>3, <2>1, <2>2, <2>3 DEF Confirm, ConfirmService, PowerInv, PowerTriggerHonoured
  <2>4. CASE ack # "OK"
    BY <1>1, <1>3, <2>1, <2>2, <2>4 DEF Confirm, ConfirmService, DecrementRepeat, PowerInv,
       PowerTriggerHonoured, power
  <2> QED BY <2>3, <2>4
<1> QED BY <1>2, <1>3

LEMMA PowerStep ==
    ASSUME PowerInv, StepInv, [Next]_vars PROVE PowerInv'
<1> USE DEF dll, response, power
<1>1. CASE UNCHANGED vars
  BY <1>1, PowerKept DEF vars
<1>2. CASE Application
  <2>1. CASE TriggerPower
    BY <2>1 DEF TriggerPower, PowerInv, PowerTriggerHonoured
  <2>2. ASSUME NEW m \in Messages, TransmitMessage(m) \/ CancelTransmitMessage(m) PROVE PowerInv'
    BY <2>2, PowerKept DEF TransmitMessage, CancelTransmitMessage
  <2>3. CASE ClearMessagesToSend \/ \E h \in Handlers : SendBreak(h)
    BY <2>3, PowerKept DEF ClearMessagesToSend, SendBreak
  <2> QED BY <1>2, <2>1, <2>2, <2>3 DEF Application
<1>3. CASE Tasks
  <2>1. CASE BalSearch \/ BalClear \/ BalRefused \/ BalReset \/ DbplInit
    BY <2>1, PowerKept DEF BalSearch, BalClear, BalRefused, BalReset, DbplInit
  <2>2. CASE BalTransmit
    BY <2>2, PowerKept DEF BalTransmit, StepInv
  <2>3. CASE BuildPowerMessage
    BY <2>3 DEF BuildPowerMessage, PowerInv, PowerTriggerHonoured
  <2>4. CASE DbplTransmit
    BY <2>4, PowerKept DEF DbplTransmit
  <2> QED BY <1>3, <2>1, <2>2, <2>3, <2>4, PowerDispatch DEF Tasks
<1>4. CASE Reset
  BY <1>4 DEF Reset, PowerInv, PowerTriggerHonoured
<1>5. ASSUME NEW h \in Handlers, BreakTimer(h) PROVE PowerInv'
  BY <1>5, PowerKept DEF BreakTimer
<1>6. ASSUME NEW k \in Kinds, FrameArrives(k) PROVE PowerInv'
  BY <1>6, PowerKept DEF FrameArrives
<1> QED BY <1>1, <1>2, <1>3, <1>4, <1>5, <1>6, PowerConfirm DEF Next, Timers, Bus

-----------------------------------------------------------------------------
(* Theorems.                                                               *)

\* Wakeup and reset breaks exclude each other and transmissions, although the bus
\* access layer tests the lock of dbus_lock.c long before it hands a message over.
THEOREM BreaksExclude == Spec => []BreakExclusive
<1>1. LockInv => BreakExclusive
  BY DEF LockInv
<1> QED BY <1>1, LockInit, LockStep, PTL DEF Spec

\* The inductive invariant of the bus access layer.
THEOREM AccessInvariant == Spec => []AccessInv
BY AccessInit, AccessStep, PTL DEF Spec

\* bal.c never leaves a frame between two attempts.
THEOREM NoFrameIsForgotten == Spec => []NoFrameForgotten
<1>1. AccessInv => NoFrameForgotten
  BY DEF AccessInv, RetryInv
<1> QED BY <1>1, AccessInvariant, PTL

\* bal.c never puts a message on the bus more often than its limits allow, whatever
\* they are and whatever is cancelled.
THEOREM TriesAreBounded == Spec => []TriesBounded
<1>1. AccessInv => TriesBounded
  BY DEF AccessInv, TriesInv
<1> QED BY <1>1, AccessInvariant, PTL

\* A request of the application is found by the search of BAL_HandleTask until its
\* frame is copied, although interrupts call BAL_vTransmitMessage at any moment of the
\* task, unless this was just before the task reset the flag or the subsystem's mask.
THEOREM DueStaysFlagged == Spec => []DueIsFlagged
<1>1. Init => DueInv
  BY DEF Init, DueInv, Undone
<1>2. AccessInv /\ DueInv /\ [Next]_vars => DueInv'
  BY DueStep DEF AccessInv
<1>3. DueInv => DueIsFlagged
  BY DEF DueInv, DueIsFlagged
<1> QED BY <1>1, <1>2, <1>3, AccessInvariant, PTL DEF Spec

LEMMA PowerInvariant == Spec => []PowerInv
<1>1. Init => PowerInv
  BY DEF Init, PowerInv, PowerTriggerHonoured, Dll!Init
<1>2. AccessInv /\ PowerInv /\ [Next]_vars => PowerInv'
  BY PowerStep DEF AccessInv
<1> QED BY <1>1, <1>2, AccessInvariant, PTL DEF Spec

\* A power message is sent, or its failure reported, before its trigger is withdrawn,
\* whenever it is triggered, unless that was while a response was pending.
THEOREM PowerIsHonoured == Spec => []PowerTriggerHonoured
<1>1. PowerInv => PowerTriggerHonoured
  BY DEF PowerInv
<1> QED BY <1>1, PowerInvariant, PTL
=============================================================================
