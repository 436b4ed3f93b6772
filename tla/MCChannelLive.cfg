SPECIFICATION FairSpec
CONSTANTS
    Producers = {p1, p2}
    Consumers = {c1, c2}
    NoThread = NoThread
    Capacity = 1
    MaxSends = 1
    p1 = p1
    p2 = p2
    c1 = c1
    c2 = c2
PROPERTIES
    CloseReleasesEveryone
