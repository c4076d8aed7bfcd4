\* Every kind of scan that ultra_scan() does, one or two hosts each.
SPECIFICATION KindSpec
CONSTANTS
    NONE = NONE
    h1 = h1
    h2 = h2
    h3 = h3
    q1 = q1
    q2 = q2
    q3 = q3
    q4 = q4
    Kinds = {"group", "connect", "discovery", "arp", "midway"}
    Hosts <- TwoHosts
    Ports <- OnePort
    TrynoCap = 1
    PingScan = FALSE
    ConnectScan = FALSE
    ArpScan = FALSE
    NorespOpen = FALSE
    Responses = {"open"}
    Errnos = {"accept"}
    ImmediateConnect = FALSE
    DiscoveryIgnoreRst = FALSE
    DefeatRatelimit = FALSE
    LowCwnd = 1
    MaxCwnd = 1
    StartPings <- NoStartPings
    MaxPings = 1
    MaxSockets = 2
    HostTimeout = FALSE
SYMMETRY KindSymmetry
INVARIANTS GroupsCounted NoAssertFails AllHostsJudged RetryStacksSorted
