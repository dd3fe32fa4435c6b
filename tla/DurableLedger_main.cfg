SPECIFICATION FairSpec
CONSTANTS
    p1 = p1
    p2 = p2
    Producers <- TwoProducers
    MaxId = 3
    MaxSessions = 2
    MaxFaults = 1
    QueueCap = 1
    BatchSize = 2
    MaxFlushRetries = 2
INVARIANTS
    AckedDurable
    IInv
PROPERTIES
    LedgerAppendOnly
    CrashRecoveryComplete
    QueuedEventsSettle
    ImplementsEventLog
CHECK_DEADLOCK FALSE
