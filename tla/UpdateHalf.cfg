SPECIFICATION UpdaterSpec
CONSTANTS
    Processes = {"p1", "p2", "p3"}
    First = "p1"
    None = None
    UpdateFaults = {"check", "install", "auth", "spawn"}
    MaxFailures = 2
INVARIANTS NoHalfUpgrade
CHECK_DEADLOCK FALSE
