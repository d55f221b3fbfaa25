SPECIFICATION FairSpec
CONSTANTS
    t1 = t1
    t2 = t2
    None = None
    Threads <- TwoThreads
    Setups <- MCSetups
    MaxTimeouts = 2
    MaxChanges = 1
INVARIANTS
    TypeOK
    Intact
PROPERTIES
    LaneRecovers
CHECK_DEADLOCK FALSE
