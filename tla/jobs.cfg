SPECIFICATION FairSpec
CONSTANTS
    Callers = {1, 2}
    MaxJobs = 1
    MaxSpawn = 2
    MaxErr = 1
    Reviews = {1}
INVARIANTS
    StatusIsTrue
    ClosedIsOver
    LimitHeld
    SurvivorsAreLate
PROPERTIES
    EveryJobEnds
CHECK_DEADLOCK FALSE
