SPECIFICATION Spec
CONSTANTS
    Hosts = {h1, h2}
    MaxSub = 2
    MaxInput = 2
    MaxOutput = 2
    MaxAbort = 0
SYMMETRY HostSymmetry
INVARIANTS
    InputOnce
    NoInputInsideToolRound
    ToolAnswersInOrder
