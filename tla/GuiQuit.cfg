SPECIFICATION FairSpec
CONSTANTS
    Peers = {p}
    UserEdits = {"mine"}
    RemoteEdits = {"theirs"}
    None = None
    EventsCap = 1
    UpdatesCap = 1
    CommandsCap = 1
    MaxBooting = 1
    MaxClicks = 1
    MaxChanges = 1
    MaxFaults = 1
CHECK_DEADLOCK FALSE
INVARIANTS
    NoDaemonLingers
