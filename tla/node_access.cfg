\* Retries, breaks, service messages, power messages, going offline and resets under
\* fairness, with a message requested, cancelled and cleared meanwhile; a buffer for
\* one message.
SPECIFICATION FairSpec
CONSTANTS
    Subsystems = {0}
    MessagesPer = 1
    CollisionRetries = 1
    MissingAckRetries = 0
    NackRetries = 0
    BufferLength = 4
    ByteMod = 16
    Lengths = {2}
    PowerRetries = 1
    ResponseRetries = 0
    Kinds = {"update", "wakeup", "silence", "goOffline", "resetExecute"}
    Handlers = {"WAKEUP", "RESET"}
INVARIANTS
    BreakExclusive
PROPERTIES
    RetryEnds
    ServiceEnds
