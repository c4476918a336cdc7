SPECIFICATION FairSpec
CONSTANTS
    Sends = {s1, s2}
    FileIds = {f1, f2}
    None = none
    MaxGenerations = 3
    MaxMillis = 1
\* Every call may have returned.
CHECK_DEADLOCK FALSE
INVARIANTS
    SentIsProcessed
    WaiterIsFound
    RegistryIsLive
    OkMeansStoredOnce
PROPERTIES
    FileSendReturns
