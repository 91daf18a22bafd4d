SPECIFICATION Spec
CONSTANTS
    h1 = h1
    h2 = h2
    h3 = h3
    None = None
    Hosts <- ThreeHosts
    MaxLaunches = 3
    MaxFaults = 0
INVARIANT
    LockForLife
CHECK_DEADLOCK FALSE
