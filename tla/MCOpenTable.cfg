SPECIFICATION Spec
CONSTANTS
    Keys = {k1, k2, k3, k4}
    Values = {v1, v2}
    None = None
    Hashes = {0, 4, 7}
    FirstCap = 4
    MaxCap = 8
    k1 = k1
    k2 = k2
    k3 = k3
    k4 = k4
    v1 = v1
    v2 = v2
SYMMETRY TableSymmetry
INVARIANTS
    TypeOK
    ReachableOnce
PROPERTIES
    Implements
    InsertTakesEffect
