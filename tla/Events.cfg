SPECIFICATION FairSpec
CONSTANTS
    PingSubs = {p1}
    ReconnectSubs = {r1, r2}
    MaxPings = 1
    MaxRedials = 3
INVARIANTS
    NoMissedEvent
    NoSpuriousCallback
    ToldAfterSwap
PROPERTIES
    LoopNotHeldUp
CHECK_DEADLOCK FALSE
