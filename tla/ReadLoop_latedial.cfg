SPECIFICATION Spec
CONSTANTS
    Writers = {w1}
    MaxConn = 2
    MaxAttempt = 1
    MaxEvents = 0
    MaxForce = 0
INVARIANT DisconnectClosesTransport
CHECK_DEADLOCK FALSE
