SPECIFICATION Spec
CONSTANTS
    a = a
    b = b
    c = c
    t1 = t1
    t2 = t2
    t3 = t3
    t4 = t4
    NoVote = NoVote
    Segments = {a, b, c}
    Threats = {t1, t3}
    ThreatOf <- MCThreatOf
    Deadline = 1
    CanCrash = {b}
INVARIANT MajorityOfCoalition
\* The environment has finitely many threats to report; afterwards all agents idle.
CHECK_DEADLOCK FALSE
