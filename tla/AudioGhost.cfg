SPECIFICATION FairSpec
CONSTANTS
    Peers = {p}
    None = None
    CommandsCap = 1
    EventsCap = 2
    MaxEdits = 2
    MaxFaults = 1
CHECK_DEADLOCK FALSE
PROPERTIES ClosedIsRedialled
