\* The polled DBusCAN driver: three messages, at most two of them each way, the first
\* one received too long for the buffer, one SPI transfer that fails, and steps of
\* the task anywhere in a chain, until it acts on a test that has become obsolete.
SPECIFICATION FairSpec

CONSTANTS
    MaxTx = 2
    MaxRx = 2
    Big = {1}
    MaxMessages = 3
    FifoMax = 1
    RxFifoMax = 2
    MaxFaults = 1
    Prompt = FALSE

CONSTRAINT
    NotRaced

INVARIANTS
    TypeOK
    LockCoversTransfer
    DeliveredIntact
    NoneDropped
PROPERTIES
    ReportIsTrue
    SendingEnds
    NothingUnread

\* The driver rests once the budgets are spent.
CHECK_DEADLOCK FALSE
