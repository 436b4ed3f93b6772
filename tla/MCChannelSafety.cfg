SPECIFICATION Spec
CONSTANTS
    Producers = {p1, p2}
    Consumers = {c1, c2}
    NoThread = NoThread
    Capacity = 2
    MaxSends = 2
    p1 = p1
    p2 = p2
    c1 = c1
    c2 = c2
SYMMETRY ThreadSymmetry
INVARIANTS
    TypeOK
    FifoNoLoss
    CapacityRespected
    NoStrandedReceiver
    NoStrandedSender
    EndOfStreamIsComplete
PROPERTIES
    Implements
