\* Giving up after the last repetition moves the pointer of the connection frame
\* on twice: a queued request is sent without an instance.
SPECIFICATION Spec

CONSTANTS
    RetryMax = 2
    PingMaxRepeat = 0
    SeqMod = 4
    FramesMax = 1
    MaxEvents = 1
    SameKind = FALSE
    Count = 2
    MaxFaults = 0
    MaxCalls = 5

INVARIANT
    FlagHasInstance
CHECK_DEADLOCK FALSE
