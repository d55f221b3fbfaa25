SPECIFICATION Spec
CONSTANTS
    empty = empty
    small = small
    large = large
    huge = huge
    None = None
    Names = {1, 2, 3, 4}
    Contents <- MCContents
    Size <- MCSize
    ShardSizes = {1}
    ShardSize = 1
    Capacity = 3
    MaxFolders = 2
    Setups <- MixedSetups
INVARIANTS
    RestIsServable
CHECK_DEADLOCK FALSE
