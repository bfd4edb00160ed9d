CONSTANTS
    r1 = r1
    r2 = r2
    r3 = r3
    t1 = t1
    Lead = 1
    Task <- MCTask
    Replica <- MCReplica
    Reader <- MCReader
    Offset <- MCLead
    TicksPerSecond = 1
    Window = 1
    OpenDuration = 2
    SampleTtl = 4
    ProbeTtl = 1
    MaxRefresh = 1
    MinSamples = 1
    ThresholdNum = 1
    ThresholdDen = 2
    MaxClock = 5
    MaxSecond = 7
    MaxSamples = 2
    MaxFailures = 1
SPECIFICATION BreakerFairSpec
PROPERTIES
    StateDiagram
    
    OpenEnds
CHECK_DEADLOCK FALSE
