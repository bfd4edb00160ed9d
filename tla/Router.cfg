CONSTANTS
    c1 = c1
    c2 = c2
    c3 = c3
    Candidate <- MCCandidate
    Tier <- MCTier
    CandidatesOf <- MCCandidatesOf
    Equipped <- MCEquipped
    TotalBudget = 6
    PerAttemptMax = 4
    Buffer = 1
    MinRemaining = 3
    MinAttempt = 1
    Grace = 1
    MaxRedisDelay = 2
SPECIFICATION FairSpec
INVARIANTS
    TypeOK
    NoCandidateTwice
    TriedIsTruthful
    OutcomeIsEarned
    OverrunBounded
PROPERTIES
    Terminates
CHECK_DEADLOCK FALSE
