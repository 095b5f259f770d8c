SPECIFICATION CacheSpec
CONSTANTS
    Files = {"server", "client"}
    CacheFaults = {"network", "corrupt", "disk", "kill", "shutdown"}
    MaxMishaps = 4
INVARIANTS
    MovedOnlyWhenWritten
CHECK_DEADLOCK FALSE
