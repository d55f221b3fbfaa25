SPECIFICATION FairSpec
CONSTANTS
    s1 = s1
    s2 = s2
    s3 = s3
    wanted = wanted
    other = other
    larger = larger
    w1 = w1
    w2 = w2
    o1 = o1
    l2 = l2
    None = None
    Servers <- ThreeServers
    Groups <- TwoGroups
    Contents <- ThreeContents
    Payload <- MCPayload
    Length <- MCLength
    Wanted = wanted
    Holdings <- MCHoldings
    Starts <- MCStarts
    MaxChanges = 2
INVARIANTS
    TypeOK
    DownloadIsSound
    HashedIsKept
PROPERTIES
    Ends
    OneGroupIsEnough
CHECK_DEADLOCK FALSE
