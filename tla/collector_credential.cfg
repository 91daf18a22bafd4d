SPECIFICATION Spec
SYMMETRY Interchangeable
CONSTANTS
    s1 = s1
    s2 = s2
    r1 = r1
    r2 = r2
    w1 = w1
    w2 = w2
    c1 = c1
    NoSwitch = NoSwitch
    NoCred = NoCred
    Switches <- TwoSwitches
    Requesters <- TwoRequesters
    Workers <- TwoWorkers
    Cancellers <- OneCanceller
    QueueMax = 1
    MaxRequests = 2
    MaxCrashes = 0
    DbFaults = FALSE
INVARIANT
    ActiveJobKeepsCredential
CHECK_DEADLOCK FALSE
