SPECIFICATION Spec
CONSTANTS
    m1 = m1
    m2 = m2
    m3 = m3
    large = large
    huge = huge
    None = None
    Middles <- OneMiddle
    Ranking <- RankingOfOne
    Domain <- OneDomain
    Factor = 2
    Contents <- OneContent
    Size <- SizeOfLarge
    Names = {1, 2}
    ShardSizes = {1}
    ShardSize = 1
    MaxListed = 2
    Setups <- LeakSetups
    Capacity = 4
INVARIANTS
    RelayAccounting
