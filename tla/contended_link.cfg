\* Both applications open and close the connection at will over DBusCAN,
\* whose answers may overtake the confirmation of the request they answer,
\* against each other and the timers, which fire at any moment, with one bus
\* fault and one power failure.
SPECIFICATION Spec

CONSTANTS
    RetryMax = 1
    PingMaxRepeat = 1
    SeqMod = 8
    FramesMax = 2
    MaxEvents = 0
    SameKind = FALSE
    Pings = FALSE
    ConfirmLag = TRUE
    Timely = FALSE
    Patient = FALSE
    RxBuffers = 2
    MaxFaults = 1
    MaxRestarts = 1
    MaxCalls = 3

INVARIANTS
    CommStateCoherent
    QuietMeansSettled

\* The link rests once the budgets are spent.
CHECK_DEADLOCK FALSE
