SPECIFICATION Spec
CONSTANTS
    w1 = w1
    w2 = w2
    Threads = {w1, w2}
    MaxRequests = 5
INVARIANT ReleaseWakes
CHECK_DEADLOCK FALSE
