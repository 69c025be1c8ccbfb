SPECIFICATION FairSpec
CONSTANTS
    a = a
    b = b
    c = c
    t1 = t1
    t2 = t2
    t3 = t3
    t4 = t4
    NoVote = NoVote
    Segments = {a, b}
    Threats = {t1, t2, t3}
    ThreatOf <- MCThreatOf
    Deadline = 1
    CanCrash = {b}
PROPERTIES
    VoteEnds
    EveryThreatAnswered
\* The environment has finitely many threats to report; afterwards all agents idle.
CHECK_DEADLOCK FALSE
