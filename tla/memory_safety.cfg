SPECIFICATION Spec
CONSTANTS
    Worker = {w1, w2}
    Thread = {t1}
    None = None
    Gone = Gone
    Retries = 1
    ScanLimit = 1
    MaxClaims = 1
    Limit = 1
    MaxUpdate = 2
    MaxMark = 0
    MaxFault = 1
    Busy = {}
    Slow = TRUE
SYMMETRY WorkerSymmetry
INVARIANTS
    OneConsolidator
    MissedIsVisible
PROPERTIES
    OutputNeverOlder
