SPECIFICATION Spec
CONSTANTS
    Producers = {p1, p2}
    Consumers = {c1}
    NoThread = NoThread
    Capacity = 1
    MaxSends = 2
    p1 = p1
    p2 = p2
    c1 = c1
PROPERTIES
    NothingAcceptedAfterClose
