SPECIFICATION FairKindSpec
CONSTANTS
    NONE = NONE
    h1 = h1
    h2 = h2
    h3 = h3
    q1 = q1
    q2 = q2
    q3 = q3
    q4 = q4
    Kinds = {"own"}
    Hosts <- TwoHosts
    Ports <- OnePort
    TrynoCap = 1
    PingScan = FALSE
    ConnectScan = TRUE
    ArpScan = FALSE
    NorespOpen = FALSE
    Responses = {"open"}
    Errnos = {"accept", "unreach"}
    ImmediateConnect = TRUE
    DiscoveryIgnoreRst = FALSE
    DefeatRatelimit = FALSE
    LowCwnd = 1
    MaxCwnd = 2
    StartPings <- NoStartPings
    MaxPings = 0
    MaxSockets = 1
    HostTimeout = FALSE
INVARIANT SocketsBounded
PROPERTY ScanTerminates
