SPECIFICATION Spec
CONSTANTS
    KeepLast = 2
    MaxTurns = 4
    MaxCalls = 4
INVARIANTS
    TypeOK
    CallersKept
    SentCallsAnswered
    CurrentTurnSent
    OrphansOnlyOfPartialBatch
CHECK_DEADLOCK FALSE
