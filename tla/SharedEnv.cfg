SPECIFICATION FairSpec
CONSTANTS
    p1 = p1
    p2 = p2
    s1 = s1
    s2 = s2
    None = None
    Producers <- TwoProducers
    Senders <- TwoSenders
    Loads <- SmallLoads
    Gated <- First
    Steps = 1
    MaxTries <- Attempts
    Slots = 1
    Cap = 1
\* A place in the circuit breaker that leaked makes the next sender poll for it for ever.
CHECK_DEADLOCK FALSE
INVARIANTS NoStrayUse Noticed
PROPERTY DestroyEnds
