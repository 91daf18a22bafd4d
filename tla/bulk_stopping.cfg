SPECIFICATION Spec
CONSTANTS
    s1 = s1
    s2 = s2
    b1 = b1
    b2 = b2
    p1 = p1
    p2 = p2
    c1 = c1
    Nobody = Nobody
    Switches <- TwoSwitches
    Batches <- TwoBatches
    Pollers <- OnePoller
    Stoppers <- OneStopper
    MaxBatches = 2
    MaxSingles = 0
PROPERTY
    StoppingMeansCancelled
CHECK_DEADLOCK FALSE
