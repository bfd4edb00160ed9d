CONSTANTS
    p1 = p1
    p2 = p2
    t1 = t1
    t2 = t2
    Replica <- MCReplica
    Task <- MCTask
    Contents <- MCFull
    Ttl = 1
    MaxLoad = 1
    MaxTime = 2
    MaxWrites = 1
SPECIFICATION Spec
INVARIANTS
    StampedeProtected
    CacheCatchesUp
PROPERTY HolderNeverGoesBack
SYMMETRY Alike
CHECK_DEADLOCK FALSE
