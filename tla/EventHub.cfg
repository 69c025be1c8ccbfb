SPECIFICATION FairSpec
CONSTANTS
    c1 = c1
    c2 = c2
    w1 = w1
    Loop = Loop
    Clients = {c1, c2}
    Threads = {w1}
    MaxQueue = 2
    MaxFrames = 4
INVARIANTS
    TypeOK
    DropsAreCounted
    EachThreadInOrder
PROPERTIES
    NeverBlocks
CHECK_DEADLOCK FALSE
