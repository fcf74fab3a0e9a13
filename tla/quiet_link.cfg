\* Six calls on a link without faults whose applications wait for each other:
\* what the protocol promises when nothing goes wrong.
SPECIFICATION FairSpec

CONSTANTS
    RetryMax = 2
    PingMaxRepeat = 1
    SeqMod = 8
    FramesMax = 2
    MaxEvents = 2
    SameKind = FALSE
    Pings = FALSE
    ConfirmLag = FALSE
    Timely = TRUE
    Patient = TRUE
    RxBuffers = 2
    MaxFaults = 0
    MaxRestarts = 0
    MaxCalls = 6

INVARIANTS
    Agreement
    SequenceInStep
PROPERTIES
    ImplementsHandshake

\* The link rests once the budgets are spent.
CHECK_DEADLOCK FALSE
