SPECIFICATION Spec
CONSTANTS
    Nodes = {"a", "b"}
    Rank <- MCRank
    SharedFields = {"screens"}
    LocalFields = {}
    Values = {"small", "wide", "huge"}
    ValidConfigs <- MCValidConfigs
    FirstConfigs <- MCFirstConfigs
    Discovers <- BothWays
    OnlyInWide = {"b"}
    Faulty = {"b"}
    Faults = {"loss", "flap"}
    MaxClock = 2
    MaxOrphans = 1
    BadFile = BadFile
    None = None
INVARIANTS StampDeterminesValue ConfirmedMeansDelivered
PROPERTY StampsNeverRegress
