SPECIFICATION FairSpec
CONSTANTS
    MaxRetries = 2
    MaxErrors = 2
    WarningLimit = 1
    MaxSurvivable = 1
    MaxIterations = 3
    Increase = 1
    Headroom = 1
    Finals <- Either
    Stricts <- Either
    Tasks = {t1, t2}
    ErrorCap = 4
    MaxOutages = 1
    MaxMessages = 2
    MaxFaults = 2
INVARIANTS
    TypeOK
    NoForgottenRetry
    IterationBudget
PROPERTIES
    RunningProgresses
    RetryResumes
CHECK_DEADLOCK FALSE
