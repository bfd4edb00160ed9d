CONSTANTS
    Rpm = 2
    Tpm = 4
    Minute = 4
    Ttl = 4
    Spread = 1
    Cost = {1, 3}
    Observed = {0, 5}
    MaxTime = 7
    MaxCalls = 5
SPECIFICATION Spec
INVARIANTS
    OverageBounded
PROPERTIES
    ExpiryForgetsNothing
