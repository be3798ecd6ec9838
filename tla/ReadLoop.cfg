SPECIFICATION FairSpec
CONSTANTS
    Writers = {w1}
    MaxConn = 2
    MaxAttempt = 2
    MaxEvents = 1
    MaxForce = 1
INVARIANTS
    SinkStaysPut
    BackoffCountsSilentDials
    NeverDeaf
    OneForceOneConnection
PROPERTIES
    RefinesLifecycle
    ShutdownStops
    ForceTakesEffect
CHECK_DEADLOCK FALSE
