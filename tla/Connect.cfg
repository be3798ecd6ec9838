SPECIFICATION Spec
CONSTANTS
    None = None
    Custom = Custom
    Addresses = {"csms", "spare", "junk"}
    Unparsable = {"junk"}
    Calls <- MCCalls
    Durations = {0, 1, 7, 60}
    Multipliers = {0, 1, 2, 3}
    MaxDuration = 100
    FractionMax = 2
    NanosWrap = 16
    MaxAttempt = 7
INVARIANTS
    SpeaksNegotiated
    SameCredentials
    ErrorsSurvive
    DelayIsCappedPower
    NeverShrinks
PROPERTIES
    RedialComes
CHECK_DEADLOCK FALSE
