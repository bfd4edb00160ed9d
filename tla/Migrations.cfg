CONSTANTS
    Operator = {o1, o2, o3}
    Replica = {p1}
SPECIFICATION Spec
INVARIANTS
    SchemaIsWhole
    MigrationsNeverClash
    RowsFitSchema
    SetupBootstraps
CHECK_DEADLOCK FALSE
