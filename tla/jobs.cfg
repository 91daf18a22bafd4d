SPECIFICATION Spec
CONSTANTS
    Jobs <- MCAllJobs
    c1 = c1
    c2 = c2
    k1 = k1
    r1 = r1
    r2 = r2
    m1 = m1
    a1 = a1
    AllThread = AllThread
    Scheduler = Scheduler
    NoFirewall = 0
    Firewalls <- MCFirewalls
    Clicks <- MCClicks
    MaxJobs = 2
    MaxDbFaults = 1
    DiagDevices <- MCDevices
    PoolSize = 2
    MaxDiagnoses = 2
    Servers <- MCServers
    SrvRuns <- MCSrvRuns
    SrvClicks <- MCSrvClicks
    MaxSrvJobs = 2
    MaxSrvFaults = 1
    NoScan = NoScan
    ManualScans <- MCManualScans
    AutoScans <- MCAutoScans
    Bands = 2
    MaxScans = 3
INVARIANTS
    JobsTypeOK
    DiagnosisSafety
PROPERTIES
    FirewallSafety
    ServerSafety
    ScanSafety
    ServersAreSingleFlight
    RunsEnd
CHECK_DEADLOCK FALSE
