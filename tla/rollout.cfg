SPECIFICATION Spec
CONSTANTS
    Callers = {c1, c2}
    Capacity = 2
    MaxItems = 3
    MaxLives = 3
SYMMETRY Symmetry
INVARIANTS
    ToldIsReadable
    OnlyFirstSpoiled
    DanglingIsSpoiled
PROPERTIES
    ImplementsLog
CHECK_DEADLOCK FALSE
