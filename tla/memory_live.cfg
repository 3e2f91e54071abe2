SPECIFICATION FairSpec
CONSTANTS
    Worker = {w1}
    Thread = {t1, t2}
    None = None
    Gone = Gone
    Retries = 1
    ScanLimit = 2
    MaxClaims = 1
    Limit = 1
    MaxUpdate = 1
    MaxMark = 3
    MaxFault = 2
    Busy = {t1}
    Slow = FALSE
PROPERTIES
    SuccessMeansConsolidated
    PollutedForgotten
    ExtractedInTheEnd
