SPECIFICATION Spec
CONSTANTS
    t1 = t1
    t2 = t2
    t3 = t3
    Tasks = {t1, t2, t3}
    NoTask = NoTask
    Controls = {"stop", "close"}
    DrainLimit = 2
    MaxCalls = 2
    MaxRequests = 1
SYMMETRY Symmetry
INVARIANT EveryRequestIsAnswered
CHECK_DEADLOCK FALSE
