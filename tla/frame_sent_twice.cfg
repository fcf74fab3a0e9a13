\* A frame that was written without error is written and sent again if the chip
\* raises an interrupt before the end of the transfer is handled.
SPECIFICATION Spec

CONSTANTS
    MaxTx = 2
    MaxRx = 2
    Big = {}
    MaxMessages = 4
    FifoMax = 2
    RxFifoMax = 2
    MaxFaults = 0
    Prompt = TRUE

INVARIANTS
    WrittenOnce

\* The driver rests once the budgets are spent.
CHECK_DEADLOCK FALSE
