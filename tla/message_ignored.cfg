\* A reading chain that failed is continued by the chain of sending: one message
\* each way, one SPI transfer that fails.
SPECIFICATION FairSpec

CONSTANTS
    MaxTx = 1
    MaxRx = 1
    Big = {}
    MaxMessages = 2
    FifoMax = 1
    RxFifoMax = 1
    MaxFaults = 1
    Prompt = TRUE

PROPERTIES
    IgnoredIsCorrupt

CHECK_DEADLOCK FALSE
