SPECIFICATION Spec
CONSTANTS
    a = a
    b = b
    c = c
    x = x
    y = y
    None = None
    Names <- MCNames
    Contents <- MCContents
    Size <- MCSize
    ShardSizes = {2}
    Capacity = 4
SYMMETRY Symmetry
INVARIANTS
    TypeOK
    NeverUndercounts
    MemoryBounded
    Accounting
    CompleteIsServable
PROPERTIES
    FifoEviction
    EvictionIsNeeded
    FailureIsContained
