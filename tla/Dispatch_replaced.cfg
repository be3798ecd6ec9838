SPECIFICATION Spec
CONSTANTS
    Kinds = {"on"}
    MaxCalls = 1
    MaxRegs = 2
INVARIANT NothingStranded
CHECK_DEADLOCK FALSE
