SPECIFICATION FairSpec
CONSTANTS
    a1 = a1
    a2 = a2
    a3 = a3
    Actions = {a1, a2, a3}
    Policies = {{}, {a2, a3}}
    Parallel = TRUE
    Nobody = Nobody
    Closed = Closed
    MaxTurns = 0
INVARIANTS
    TypeOK
    NoCallIsLost
    StepsSeeEveryResult
PROPERTY OnlyConsentBlocks
CHECK_DEADLOCK FALSE
