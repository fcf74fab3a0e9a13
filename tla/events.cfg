\* Events with repetition and acknowledgement over either link layer, with
\* one bus fault; over DBusCAN a response can be lost with its instance
\* pointer, and the write through NULL may reset the ECU.
SPECIFICATION FairSpec

CONSTANTS
    RetryMax = 1
    PingMaxRepeat = 1
    SeqMod = 8
    FramesMax = 2
    MaxEvents = 2
    SameKind = FALSE
    Pings = FALSE
    ConfirmLag = TRUE
    Timely = TRUE
    Patient = FALSE
    RxBuffers = 2
    MaxFaults = 1
    MaxRestarts = 0
    MaxCalls = 3

INVARIANTS
    OutstandingEventIsTimed
PROPERTIES
    ImplementsEventChannel

\* The link rests once the budgets are spent.
CHECK_DEADLOCK FALSE
