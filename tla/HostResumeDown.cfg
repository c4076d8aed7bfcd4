SPECIFICATION Spec
CONSTANTS
    addr1 = addr1
    addr2 = addr2
    addr3 = addr3
    addr4 = addr4
    addr5 = addr5
    Specs <- Plain
    Kind <- OneKind
    Skipped = {}
    NewAddrs = {}
    RawScan = TRUE
    Randomize = FALSE
    Verbose = TRUE
    OnlyDiscover = FALSE
    BatchSize = 2
    GroupSizes = {2}
    DeferLimit = 2
    MaxIps = 0
    MaxCrashes = 1
INVARIANTS
    ResumeMissesNone
