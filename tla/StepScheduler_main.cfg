SPECIFICATION FairSpec
CONSTANTS
    t1 = t1
    t2 = t2
    Tasks = {t1, t2}
    NoTask = NoTask
    Controls = {"stop", "close"}
    DrainLimit = 2
    MaxCalls = 1
    MaxRequests = 1
INVARIANTS
    TypeOK
    NoOrphanedStepTask
    StepsAreExclusive
    RequestLostOnlyAtDrainLimit
PROPERTIES
    NeverStalls
    ControlsEnd
CHECK_DEADLOCK FALSE
