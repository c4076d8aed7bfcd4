\* Two addresses, three servers, and query ids that are used again.
SPECIFICATION LiveSpec
CONSTANTS
    NumTargets = 2
    NumServers = 3
    CAPACITY_MIN = 1
    CAPACITY_MAX = 2
    CAPACITY_UP_STEP = 1
    SERVERS_TO_TRY = 2
    IdSpace = 3
    FirstId = 2
INVARIANTS OnWireExact RecordsMatch
PROPERTIES ImplementsLookup DnsTerminates
