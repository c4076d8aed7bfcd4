SPECIFICATION KindSpec
CONSTANTS
    NONE = NONE
    h1 = h1
    h2 = h2
    h3 = h3
    q1 = q1
    q2 = q2
    q3 = q3
    q4 = q4
    Kinds = {"own"}
    Hosts <- OneHost
    Ports <- ThreePorts
    TrynoCap = 2
    PingScan = FALSE
    ConnectScan = FALSE
    ArpScan = FALSE
    NorespOpen = FALSE
    Responses = {"closed", "filtered"}
    Errnos = {"accept"}
    ImmediateConnect = FALSE
    DiscoveryIgnoreRst = FALSE
    DefeatRatelimit = FALSE
    LowCwnd = 1
    MaxCwnd = 2
    StartPings <- NoStartPings
    MaxPings = 0
    MaxSockets = 2
    HostTimeout = FALSE
SYMMETRY Symmetry
INVARIANT PortStateIsBest
INVARIANT TypeOK
INVARIANT HostCountersExact
INVARIANT TriesAreSequential
INVARIANT BenchUniform
INVARIANT NoPortForgotten
