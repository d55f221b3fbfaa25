SPECIFICATION FairSpec
CONSTANTS
    m1 = m1
    m2 = m2
    m3 = m3
    large = large
    huge = huge
    None = None
    Middles <- ThreeMiddles
    Ranking <- RankingOfThree
    Domain <- TwoDomains
    Factor = 2
    Contents <- OneContent
    Size <- SizeOfLarge
    Names = {1, 2, 3}
    ShardSizes = {2}
    ShardSize = 2
    MaxListed = 2
    Setups <- ClusterSetups
    Capacity = 6
PROPERTIES
    OwnersAreServed
