SPECIFICATION FairSpec
CONSTANTS
    MaxRetries = 2
    MaxErrors = 2
    WarningLimit = 1
    MaxSurvivable = 1
    MaxIterations = 4
    Increase = 1
    Headroom = 2
    Finals <- No
    Stricts <- No
    Tasks = {t1, t2}
    ErrorCap = 4
    MaxOutages = 1
    MaxMessages = 0
    MaxFaults = 0
INVARIANT
    RetriesBounded
CHECK_DEADLOCK FALSE
