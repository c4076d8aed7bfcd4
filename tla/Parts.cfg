\* Each part in turn, the heap with six events.
SPECIFICATION PartsSpec
CONSTANTS
    PortMapRev <- FourPorts
    SetStates = {1, 3}
    Rescanned = {"TCP"}
    Wanted = {0, 1}
    Allowed = {"TCPANDUDPANDSCTP"}
    MaxPerState = 0
    OpenOnly = TRUE
INVARIANTS CountsExact IterationComplete SuppressedShownOnce RoutesRight IdleExact AnswersMatched RttSound
PROPERTY ImplementsQueue
