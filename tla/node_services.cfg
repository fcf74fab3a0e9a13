\* Service messages, power messages and two messages of the bus access layer share
\* the link, with requests and triggers at any moment, also from interrupts; a buffer
\* for two messages and an end too short for a third, as in the code.
SPECIFICATION Spec
CONSTANTS
    Subsystems = {0}
    MessagesPer = 2
    CollisionRetries = 1
    MissingAckRetries = 0
    NackRetries = 0
    BufferLength = 10
    ByteMod = 16
    Lengths = {2}
    PowerRetries = 1
    ResponseRetries = 1
    Kinds = {"consumed", "read", "unknownItem"}
    Handlers = {}
INVARIANTS
    TypeOK
    NoFrameForgotten
    TriesBounded
    DueIsFlagged
    BufferIsInbox
    PowerTriggerHonoured
PROPERTIES
    AnsweredOnce
