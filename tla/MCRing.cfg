SPECIFICATION Spec
CONSTANTS
    Values = {v1, v2, v3}
    None = None
    Moved = Moved
    FirstCap = 2
    MaxLen = 5
    v1 = v1
    v2 = v2
    v3 = v3
INVARIANTS
    TypeOK
    OwnsItsWindow
PROPERTIES
    Implements
