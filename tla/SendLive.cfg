SPECIFICATION FairSpec
CONSTANTS
    Keys = {k1, k2}
    Senders = {s1}
    None = none
    MaxBatches = 2
    MaxVersion = 1
    Cap = 2
    MaxActive = 2
    IdleKept = FALSE
    Persistent = FALSE
    Retention = TRUE
    RetainAuth = FALSE
    Gated = TRUE
    HalfOpenMax = 1
    MaxTries = 2
    Large <- FirstOfOneKey
CHECK_DEADLOCK FALSE
PROPERTIES
    ImplementsDelivery
    EveryBatchEnds
