SPECIFICATION FairSpec
CONSTANTS
    Keys = {k1, k2}
    Senders = {s1, s2}
    None = none
    MaxBatches = 2
    MaxVersion = 1
    Cap = 1
    MaxActive = 1
    IdleKept = TRUE
    Persistent = TRUE
    Retention = FALSE
    RetainAuth = TRUE
    Gated = TRUE
    HalfOpenMax = 1
    MaxTries = 2
    Large <- FirstOfOneKey
CHECK_DEADLOCK FALSE
PROPERTIES
    CloseEnds
