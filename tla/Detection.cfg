SPECIFICATION Spec
CONSTANTS
    None = None
    Segments <- MCSegments
    Step = 150
    Cooldown = 300
    Warmup = 1
    Scenarios <- MCScenarios
INVARIANTS
    TypeOK
    NoAttackLost
    AttackSeen
    EveryAlertClassified
    ResolutionTeaches
    IsolationHolds
\* The session is followed for its scenario's rounds.
CHECK_DEADLOCK FALSE
