CONSTANTS
    p1 = p1
    p2 = p2
    t1 = t1
    Replica <- MCReplica
    Lead <- MCLead
    Spread = 1
    Task <- MCTask
    Latency <- MCLatency
    Window = 1
    Base = 2
    Floor = 1
    Target = 2
    MaxAttempt = 1
    MaxTick = 1
    MaxPipeline = 1
    MaxSamples = 2
    MaxTime = 5
SPECIFICATION Spec
INVARIANTS
    AggregateBracketed
    MeanNotFlattered
    HashesExpire
    ExclusionEnds
CHECK_DEADLOCK FALSE
