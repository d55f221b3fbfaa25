SPECIFICATION FairSpec
CONSTANTS
    p1 = p1
    p2 = p2
    c1 = c1
    c2 = c2
    d1 = d1
    d2 = d2
    None = None
    Publishers = {p1, p2}
    Callers = {c1, c2}
    Heartbeat = hb
    Steps = {1, 2}
    Digests = {d1, d2}
    MaxBroadcasts = 2
    Setups <- MCSetups
INVARIANTS
    TypeOK
PROPERTIES
    LeaseExclusive
    ImplementsRunRegistry
    CaughtUp
    RetiredWithdrawn
CHECK_DEADLOCK FALSE
