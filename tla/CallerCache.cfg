CONSTANTS
    k1 = k1
    k2 = k2
    k3 = k3
    q1 = q1
    q2 = q2
    Key <- MCKey
    Request <- MCRequest
    Ttl = 2
    MaxSize = 2
    MaxTime = 5
    MaxChanges = 1
SPECIFICATION Spec
INVARIANTS
    SizeBounded
    ChangeTakesEffect
SYMMETRY Alike
CHECK_DEADLOCK FALSE
