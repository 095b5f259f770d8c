SPECIFICATION Spec
CONSTANTS
    MIN_BACKOFF = 1
    MAX_BACKOFF = 4
    CLIENT_MAX_BACKOFF = 2
    MAX_FAST_FAILS = 2
    CIRCUIT_BREAKER_MIN = 4
    CIRCUIT_BREAKER_MAX = 6
    U32_MAX = 3
    Pids = {p1, p2}
    NoPid = NoPid
    Configs <- ServerOnly
    NoConfig = NoConfig
    NoLaunch = NoLaunch
    Screens = {s1}
    LogCap = 1
    StopMayTimeOut = TRUE
    MarkerMayFail = TRUE
    EditMayRace = FALSE
    ParentDeathSignal = TRUE
PROPERTIES
    MarkerFailureStillStarts
