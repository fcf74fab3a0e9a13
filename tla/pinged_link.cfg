\* A supervised connection over either link layer under a bus fault and a
\* power failure: all counters keep their bounds, handshakes end, the client
\* notices a server that is gone, and a request to enable succeeds if the bus
\* fails fewer times than there are retries.
SPECIFICATION FairSpec

CONSTANTS
    RetryMax = 2
    PingMaxRepeat = 1
    SeqMod = 8
    FramesMax = 2
    MaxEvents = 0
    SameKind = FALSE
    Pings = TRUE
    ConfirmLag = TRUE
    Timely = TRUE
    Patient = FALSE
    RxBuffers = 2
    MaxFaults = 1
    MaxRestarts = 1
    MaxCalls = 2

INVARIANTS
    TypeOK
    PingOnlyWhenReady
PROPERTIES
    HandshakeEnds
    ClientNotices
    EnableSucceeds

\* The link rests once the budgets are spent.
CHECK_DEADLOCK FALSE
