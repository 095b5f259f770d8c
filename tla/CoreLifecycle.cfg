SPECIFICATION Spec
CONSTANTS
    MIN_BACKOFF = 1
    MAX_BACKOFF = 4
    CLIENT_MAX_BACKOFF = 2
    MAX_FAST_FAILS = 2
    CIRCUIT_BREAKER_MIN = 4
    CIRCUIT_BREAKER_MAX = 6
    U32_MAX = 3
    Pids = {p1, p2, p3}
    NoPid = NoPid
    Configs <- RoleConfigs
    NoConfig = NoConfig
    NoLaunch = NoLaunch
    Screens = {s1}
    LogCap = 2
    StopMayTimeOut = TRUE
    MarkerMayFail = TRUE
    EditMayRace = TRUE
    ParentDeathSignal = TRUE
SYMMETRY PidSymmetry
INVARIANTS
    ExactlyOnePending
    StateIsHonest
    NoLeakedCore
    OwnChildAccountedFor
    UnreadyCoreIsWatched
    PeersOnlyWhileRunning
PROPERTIES
    ImplementsCoreSlot
