\* Three cross connections share the connection and the response frame, with three
\* calls of their applications and partners and one fault of the bus, a partner
\* or a break.
SPECIFICATION FairSpec

CONSTANTS
    RetryMax = 2
    PingMaxRepeat = 0
    SeqMod = 4
    FramesMax = 1
    MaxEvents = 1
    SameKind = FALSE
    Count = 3
    MaxFaults = 1
    MaxCalls = 3

INVARIANTS
    TypeOK
    QueuesSound
    NobodyForgotten

PROPERTIES
    HandshakeEnds
    EventEnds

\* The connections rest once the budgets are spent.
CHECK_DEADLOCK FALSE
