SPECIFICATION FairSpec
CONSTANTS
    a1 = a1
    a2 = a2
    a3 = a3
    Actions = {a1, a2, a3}
    Policies = {{a2, a3}}
    Parallel = FALSE
    Nobody = Nobody
    Closed = Closed
    MaxTurns = 1
INVARIANTS
    NoCallIsLost
    NothingRunsUnapproved
    ExecutedOnce
    StepsSeeEveryResult
    AskedWhileConfirming
PROPERTIES
    NoFalseTimeout
    RunningAgentProceeds
CHECK_DEADLOCK FALSE
