SPECIFICATION FairSpec
CONSTANTS
    a = a
    b = b
    x = x
    y = y
    None = None
    Owners <- TwoOwners
    Digests <- TwoDigests
    Worlds <- MCWorlds
    MaxVersion = 2
INVARIANTS
    TypeOK
    AdvertisedIsRight
PROPERTIES
    Converges
    Withdrawn
