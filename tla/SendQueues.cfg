SPECIFICATION Spec
CONSTANTS
    Keys = {k1, k2}
    Senders = {s1, s2}
    None = none
    MaxBatches = 3
    MaxVersion = 2
    Cap = 1
    MaxActive = 2
    IdleKept = TRUE
    Persistent = TRUE
    Retention = FALSE
    RetainAuth = TRUE
    Gated = TRUE
    HalfOpenMax = 0
    MaxTries = 2
    Large <- Seconds
SYMMETRY Interchangeable
CHECK_DEADLOCK FALSE
INVARIANTS
    TypeOK
    Conserved
    Exclusive
    Scheduled
    SlotsHeld
    ClosedMeansDone
    NoFinalRequest
    SuspendedForRefused
PROPERTIES
    EndsOnce
