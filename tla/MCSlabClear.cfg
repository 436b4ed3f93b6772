SPECIFICATION Spec
CONSTANTS
    Values = {a, b}
    None = None
    GenMod = 4
    MaxSlots = 2
    MaxReuse = 2
    a = a
    b = b
INVARIANTS
    NeverReissued
