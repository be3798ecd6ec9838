SPECIFICATION FairSpec
CONSTANTS
    Callers = {c1, c2}
    Ids = {i1, i2}
INVARIANTS
    AnswersMatch
    NoAnswerLost
    OnlyDroppedLinger
PROPERTIES
    FirstAnswerWins
    EveryCallReturns
CHECK_DEADLOCK FALSE
