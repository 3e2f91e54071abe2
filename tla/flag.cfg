SPECIFICATION FairSpec
CONSTANTS
    Tasks = {t1, t2, t3}
    Nobody = Nobody
    MaxTokens = 2
INVARIANTS
    ReadyOnce
    NoTokenOnceReady
PROPERTIES
    BroadcastWakes
