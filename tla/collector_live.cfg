SPECIFICATION FairSpec
CONSTANTS
    s1 = s1
    s2 = s2
    r1 = r1
    r2 = r2
    w1 = w1
    w2 = w2
    c1 = c1
    NoSwitch = NoSwitch
    NoCred = NoCred
    Switches <- TwoSwitches
    Requesters <- TwoRequesters
    Workers <- OneWorker
    Cancellers <- OneCanceller
    QueueMax = 2
    MaxRequests = 3
    MaxCrashes = 1
    DbFaults = TRUE
INVARIANT
    NeverFull
PROPERTY
    MarksReleased
CHECK_DEADLOCK FALSE
