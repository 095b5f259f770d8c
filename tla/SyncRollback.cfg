SPECIFICATION FairSpec
CONSTANTS
    Nodes = {"a", "b"}
    Rank <- MCRank
    SharedFields = {"screens", "links"}
    LocalFields = {}
    Values = {"small", "wide"}
    ValidConfigs <- MCValidConfigs
    FirstConfigs <- MCFirstConfigs
    Discovers <- BothWays
    OnlyInWide = {}
    Faulty = {"b"}
    Faults = {}
    MaxClock = 2
    MaxOrphans = 1
    BadFile = BadFile
    None = None
PROPERTY EveryChangeConverges
