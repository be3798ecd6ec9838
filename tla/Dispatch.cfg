SPECIFICATION FairSpec
CONSTANTS
    Kinds = {"on", "wait_for"}
    MaxCalls = 3
    MaxRegs = 2
INVARIANTS
    AtMostOnce
    NoLostWakeup
    BoundToReader
PROPERTIES
    OnlyOwnerUnbinds
    RetiredTasksEnd
    EveryCallAnswered
CHECK_DEADLOCK FALSE
