SPECIFICATION Spec
CONSTANTS
    Servers <- MCServers
    HeaderLen = 2
    RxSize = 4
    TxSize = 2
    HandshakeSize = 4
    FrameSize = 3
    RequestLengths = {2, 3}
    Lengths = {1, 2, 3}
    Sockets = 2
    PoolSize = 8
    MaxHandlers = 7
INVARIANTS
    FramesWhole
CHECK_DEADLOCK FALSE
