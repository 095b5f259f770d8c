SPECIFICATION FairSpec
CONSTANTS
    Nodes = {"a", "b"}
    Rank <- MCRank
    SharedFields = {"screens"}
    LocalFields = {}
    Values = {"small", "wide"}
    ValidConfigs <- MCValidConfigs
    FirstConfigs <- MCFirstConfigs
    Discovers <- BothWays
    OnlyInWide = {}
    Faulty = {"b"}
    Faults = {"loss"}
    MaxClock = 2
    MaxOrphans = 0
    BadFile = BadFile
    None = None
PROPERTY Converges
