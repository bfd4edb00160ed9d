CONSTANTS
    Candidate = {c1, c2}
    Base = 1
    MaxBackoff = 3
    ExponentLimit = 5
    MaxTick = 2
    MaxClock = 16
SPECIFICATION RefreshSpec
INVARIANTS
    CacheIsOneTick
    StalenessBounded
    StopIsPrompt
CHECK_DEADLOCK FALSE
