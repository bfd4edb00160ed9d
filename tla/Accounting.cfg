CONSTANTS
    Capacity = 3
    FlushSize = 2
    MaxRecords = 5
SPECIFICATION FairSpec
INVARIANTS
    TypeOK
    RowsConserved
    RowsInOrder
    NoLostWakeup
    StopDrains
PROPERTIES
    ImplementsAttemptLog
    EventuallySettled
    ShutdownEnds
CHECK_DEADLOCK FALSE
