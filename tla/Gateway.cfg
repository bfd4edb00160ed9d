CONSTANTS
    Request = {q1, q2, q3}
    Cap = 2
    MaxTokens = 2
    MaxMidnights = 1
    RefreshMayRaise = TRUE
SPECIFICATION FairSpec
INVARIANTS
    SpendBounded
    BlameIsEarned
PROPERTY AnsweredIsSettled
CHECK_DEADLOCK FALSE
