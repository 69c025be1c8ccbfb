SPECIFICATION Spec
CONSTANTS
    None = None
    Segments <- MCSegments
    Step = 150
    Cooldown = 300
    Warmup = 1
    Scenarios <- MCScenarios

INVARIANT NoCrossSegmentRedundancy
\* The session is followed for its scenario's rounds.
CHECK_DEADLOCK FALSE
