SPECIFICATION Spec
CONSTANTS
    a1 = a1
    a2 = a2
    a3 = a3
    Actions = {a1, a2, a3}
    Policies = {{a2, a3}}
    Parallel = TRUE
    Nobody = Nobody
    Closed = Closed
    MaxTurns = 0
INVARIANTS
    NothingRunsUnapproved
CHECK_DEADLOCK FALSE
