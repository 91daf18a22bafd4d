SPECIFICATION Spec
SYMMETRY Interchangeable
CONSTANTS
    s1 = s1
    s2 = s2
    r1 = r1
    r2 = r2
    w1 = w1
    w2 = w2
    c1 = c1
    NoSwitch = NoSwitch
    NoCred = NoCred
    Switches <- TwoSwitches
    Requesters <- TwoRequesters
    Workers <- TwoWorkers
    Cancellers <- OneCanceller
    QueueMax = 1
    MaxRequests = 3
    MaxCrashes = 1
    DbFaults = TRUE
INVARIANTS
    TypeOK
    MarksAreHeld
    SingleHolder
    WorkerUsesItsOwnCredential
    CredentialsDisposed
    CollectingIsAttended
    FailureAnnounced
PROPERTY
    ImplementsSingleFlight
CHECK_DEADLOCK FALSE
