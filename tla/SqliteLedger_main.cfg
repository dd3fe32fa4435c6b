SPECIFICATION Spec
CONSTANTS
    p1 = p1
    p2 = p2
    Producers <- TwoProducers
    MaxId = 3
    MaxSessions = 4
    MaxFaults = 1
INVARIANT IInv
PROPERTIES
    ImplementsEventLog
    OpensComplete
CHECK_DEADLOCK FALSE
