SPECIFICATION FairSpec
CONSTANTS
    h1 = h1
    h2 = h2
    h3 = h3
    None = None
    Hosts <- ThreeHosts
    MaxLaunches = 4
    MaxFaults = 2
INVARIANTS
    TypeOK
    OneServer
    GateFollowsLock
PROPERTY
    Takeover
CHECK_DEADLOCK FALSE
