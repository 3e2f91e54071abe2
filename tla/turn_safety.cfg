SPECIFICATION Spec
CONSTANTS
    MaxTurn = 2
    MaxInput = 3
    MaxStop = 1
INVARIANTS
    CleanEndKeepsInput
    InputsInOrder
    ReportedTurnIsOver
    OneTask
CHECK_DEADLOCK FALSE
