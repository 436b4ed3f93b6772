SPECIFICATION Spec
CONSTANTS
    Kind <- MCKind
    Profiles <- MCProfiles
    MaxNest = 3
    MaxObjects = 3
INVARIANTS
    TypeOK
    NoDoubleFree
    OwnersReleased
    ReadsSeeOwner
    ExclusiveNeverDangles
    ExclusiveKeepsEntry
CHECK_DEADLOCK FALSE
