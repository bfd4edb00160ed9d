CONSTANTS
    Config <- MCAgree
    Available <- MCAvailable
    Rates <- MCRates
    Latencies = {2}
    Breakers = {"half_open", "open"}
    TargetLatency = 2
    WeightFloor = 1
    Scale = 3
SPECIFICATION WeightSpec
INVARIANTS
    PickIsSound
    PickIsFair
