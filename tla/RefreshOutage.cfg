CONSTANTS
    Candidate = {c1, c2}
    Base = 1
    MaxBackoff = 3
    ExponentLimit = 4
    MaxTick = 1
    MaxClock = 15
SPECIFICATION RefreshSpec
INVARIANT TaskSurvives
CHECK_DEADLOCK FALSE
