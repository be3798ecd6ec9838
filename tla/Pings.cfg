SPECIFICATION PingSpec
CONSTANTS
    Pingers = {p1, p2}
    MaxPings = 2
    MaxConn = 2
INVARIANTS
    PongIsMine
    WaitersHaveOwners
    EchoResolvesPing
CHECK_DEADLOCK FALSE
