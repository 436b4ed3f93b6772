\* The process may stop: it exits, or waits for ever on an import cycle.
CHECK_DEADLOCK FALSE
SPECIFICATION FairSpec
CONSTANTS
    Files = {a, b, c}
    Root = a
    Workers = {w1, w2}
    Main = main
    MaxImports = 2
    a = a
    b = b
    c = c
    w1 = w1
    w2 = w2
    main = main
PROPERTIES
    EveryBuildEnds
