SPECIFICATION Spec
CONSTANTS
    Values = {a, b}
    None = None
    GenMod = 4
    MaxSlots = 3
    MaxReuse = 3
    a = a
    b = b
SYMMETRY ElementSymmetry
INVARIANTS
    FreeListExact
    IdFindsItsElement
