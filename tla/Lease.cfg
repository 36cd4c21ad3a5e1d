SPECIFICATION FairSpec
CONSTANTS
    Owners = {c1, b1, b2}
    Bridge = {b1, b2}
    Takeover = {c1, b1, b2}
    None = None
    MaxWrites = 2
    MaxFaults = 1
CHECK_DEADLOCK FALSE
INVARIANTS
    ExclusiveOwns
    ViewCurrent
PROPERTIES
    Fenced
    Reopens
