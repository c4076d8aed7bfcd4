SPECIFICATION Spec
CONSTANTS
    NONE = NONE
    h1 = h1
    h2 = h2
    h3 = h3
    q1 = q1
    q2 = q2
    q3 = q3
    Hosts <- OneHost
    Ports <- TwoPorts
    TrynoCap = 1
    PingScan = TRUE
    ConnectScan = TRUE
    ArpScan = FALSE
    NorespOpen = FALSE
    Responses = {"open"}
    Errnos = {"refused"}
    ImmediateConnect = TRUE
    DiscoveryIgnoreRst = FALSE
    DefeatRatelimit = FALSE
    LowCwnd = 1
    MaxCwnd = 1
    StartPings <- NoStartPings
    MaxPings = 0
    MaxSockets = 2
    HostTimeout = FALSE
SYMMETRY Symmetry
INVARIANT NoAbort
