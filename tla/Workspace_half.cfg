SPECIFICATION Spec
CONSTANTS
    f1 = f1
    f2 = f2
    e1 = e1
    e2 = e2
    e3 = e3
    Save = Save
    Revert = Revert
    Files = {f1, f2}
    Edits = {e1, e2, e3}
    Target <- TargetOf
    MaxCheckpoints = 4
    MaxTroubles = 0
INVARIANT RolledBackIsGone
CHECK_DEADLOCK FALSE
