SPECIFICATION FairSpec
CONSTANTS
    m1 = m1
    m2 = m2
    m3 = m3
    large = large
    huge = huge
    None = None
    Middles <- OneMiddle
    Ranking <- RankingOfOne
    Domain <- OneDomain
    Factor = 2
    Contents <- LargeAndHuge
    Size <- SizeOfLargeAndHuge
    Names = {1, 2, 3}
    ShardSizes = {2}
    ShardSize = 2
    MaxListed = 2
    Setups <- RelaySetups
    Capacity = 3
INVARIANTS
    TypeOK
    RelayListsWhatItServes
    ProcessedIsServed
PROPERTIES
    RelayRepairs
    RetiredLeaves
