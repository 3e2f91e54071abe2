SPECIFICATION FairSpec
CONSTANTS
    Hosts = {h1, h2}
    MaxSub = 2
    MaxInput = 1
    MaxOutput = 1
    MaxAbort = 1
INVARIANTS
    TurnGrammar
    OneDriver
    AbortHitsItsTurn
    DroppedOnlyBeforeStart
PROPERTIES
    ImplementsLedger
    AbortEndsTurn
    TurnEnds
