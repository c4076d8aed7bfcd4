\* Every phase in turn: six targets, two or three services, one traced host, two idle-scanned
\* ports, two events.
SPECIFICATION PhasesSpec
CONSTANTS
    addr1 = addr1
    addr2 = addr2
    addr3 = addr3
    addr4 = addr4
    addr5 = addr5
    Specs <- Mixed
    Kind <- Kinds
    Skipped = {addr3}
    NewAddrs = {addr5}
    RawScan = TRUE
    Randomize = FALSE
    Verbose = FALSE
    OnlyDiscover = FALSE
    BatchSize = 2
    GroupSizes = {2, 3}
    DeferLimit = 2
    MaxIps = 0
    MaxCrashes = 1
INVARIANTS EveryHostOnce GroupsRight ServicesRight TraceComplete
PROPERTY PhasesEnd
