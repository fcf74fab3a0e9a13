\* Two nodes' worth of bytes in every order, with losses, collisions and timeouts,
\* against the task and the presentation layer: an eight byte buffer holds one
\* long message or two short ones, so that it wraps, fills and skips its end.
SPECIFICATION FairSpec

CONSTANTS
    BufferLength = 8
    ByteMod = 16
    Lengths = {2, 4}
    TxChars = 2
    WireMax = 2

INVARIANTS
    TypeOK
    LostOnlyByOverrun
    AcknowledgedIsStored

PROPERTIES
    OkMeansSent
    ImplementsLinkLayer
    TransmissionEnds
