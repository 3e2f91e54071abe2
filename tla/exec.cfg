SPECIFICATION Spec
CONSTANTS
    Ids = {i1, i2, i3, i4}
    MaxProcesses = 3
    Protected = 1
    WarnAt = 3
    MaxExec = 4
    MaxClose = 1
SYMMETRY Symmetry
INVARIANTS
    StoreBounded
    LiveIsKept
    EndOwed
PROPERTIES
    PruneSpares
CHECK_DEADLOCK FALSE
