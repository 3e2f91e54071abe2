SPECIFICATION FairSpec
CONSTANTS
    MaxTurn = 2
    MaxInput = 1
    MaxStop = 0
PROPERTIES
    TurnReported
CHECK_DEADLOCK FALSE
