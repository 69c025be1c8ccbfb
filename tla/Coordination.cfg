SPECIFICATION Spec
CONSTANTS
    None = None
    Segments <- MCSegments
    Window = 2000
    RankInterval = 1000
    Top = 2
    Slots = 1
    MonitorInterval = 1000
    Timeout = 1000
    Step = 500
    WarmupRounds = 1
    BidValues = {80, 90}
    Scenarios <- MCScenarios
INVARIANTS
    TypeOK
    GradesHold
    CorrelatedSegmentsCoalesce
    EveryBidSettledOnce
    HighestSeverityWins
    FailoverInTime
\* A scenario has a fixed number of rounds.
CHECK_DEADLOCK FALSE
