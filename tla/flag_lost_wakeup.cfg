SPECIFICATION FairSpec
CONSTANTS
    Tasks = {t1, t2}
    Nobody = Nobody
    MaxTokens = 2
PROPERTIES
    WaiterWakes
