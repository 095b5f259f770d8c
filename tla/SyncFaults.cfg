SPECIFICATION Spec
CONSTANTS
    Nodes = {"a", "b"}
    Rank <- MCRank
    SharedFields = {"screens"}
    LocalFields = {}
    Values = {"small", "wide", "huge"}
    ValidConfigs <- MCValidConfigs
    FirstConfigs <- MCFirstConfigs
    Discovers <- OneWay
    OnlyInWide = {"b"}
    Faulty = {"b"}
    Faults = {"crash", "save", "editor"}
    MaxClock = 2
    MaxOrphans = 0
    BadFile = BadFile
    None = None
INVARIANTS StampDeterminesValue ClockDominates ConfirmedMeansDelivered DriftIsNoticed RunsValidConfig
