SPECIFICATION FairSpec
CONSTANTS
    Task = ka
    Pingers = {ka}
    MaxPings = 3
    MaxConn = 2
    Durations = {0, 500, 3000}
    MaxMillis = 2
    max_missed = 2
    MaxSets = 1
INVARIANTS
    NoStaleSleep
    DeadPeerIsNoticed
    SettledIsSpared
PROPERTIES
    ShutdownStopsTask
CHECK_DEADLOCK FALSE
