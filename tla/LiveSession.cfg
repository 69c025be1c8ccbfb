SPECIFICATION FairSpec
CONSTANTS
    w1 = w1
    w2 = w2
    Threads = {w1, w2}
    MaxRequests = 5
INVARIANTS
    TypeOK
    OneRoundPerRelease
    GateIsShown
PROPERTIES
    StopEnds
    AutoAdvances
    NextRunsRound
CHECK_DEADLOCK FALSE
