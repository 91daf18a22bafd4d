SPECIFICATION Spec
CONSTANTS
    Parts <- MCParts
    Notations <- MCNotations
    Hosts <- MCHosts
    MaxRewrites = 3
    Switches <- MCSwitches
    MaxSnapshots = 3
    Readers <- MCReaders
    Refreshers <- MCRefreshers
    MaxVersions = 1
    Times <- MCTimes
    Day = 4
    CatchUp = 2
    MaxClock = 9
    Keep = 2
    MaxCollections = 3
    Domains <- MCDomains
    QueueMax = 2
    PendingMax = 1
    MaxAlarms = 3
    Callers <- MCCallers
    MaxRequests = 2
    WindowLen = 2
    PurgeAbove = 1
    MaxTime = 5
    Accounts <- MCAccounts
    Ttl = 2
    MaxNow = 5
    HostRows <- MCHostRows
    BandGuard = 2
    MaxPolls = 4
    Ports <- MCPorts
    MaxWalks = 4
    Devices <- MCPcs
    Address <- MCAddress
    MaxSweeps = 3
    Names <- MCNames
    RowIps <- MCIps
    Adopters <- MCAdopters
    MaxIds = 2
    MaxEdits = 2
    TopoNodes <- MCTopoNodes
    MaxLen <- MCMaxLen
    CountMax = 3
    PollMax = 4
    Collecting <- MCCollecting
    MaxGathered = 3
    BandSize = 3
    Chunk = 2
    MaxReconnect = 1
    IdleTimeout = 1
    MaxSession = 3
    OutputMax = 2
    ShellEnd = 5
    CommandCount = 3
    Retries = 2
    MaxTries = 2
    ColumnMax = 4
    Beyond = 2
    Bulk = 2
    MaxRows = 3
    SendRetries = 1
    Budget = 3
    FirewallIds <- MCFirewalls
    MaxCrashes = 2
    Units = 2
    ItemIds <- MCItems
    Editors <- MCEditors
    MaxRoomEdits = 2
    Contents <- MCContents
    KeepBackups = 2
    MaxBackups = 5
    Pcs <- MCCollectors
    MaxProfileSteps = 3
INVARIANTS
    DataTypeOK
    CacheSafety
    ScheduleSafety
    
    ShellSafety
    
PROPERTIES
    
    MonitorSafety
    
    AccessSafety
    StoreSafety
    StartupSafety
    
    
    
CHECK_DEADLOCK FALSE
