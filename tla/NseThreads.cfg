\* Two scripts and a worker thread, host timeouts and the garbage collector.
SPECIFICATION Spec
CONSTANTS
    Scripts = {s1, s2}
    Workers = {w1}
    NoThread = NoThread
    Limit = 3
    Parallelism = 1
    MaxOps = 2
    Repertoires = {{"mutex", "condvar", "socket", "worker"}}
    Timeouts = TRUE
    Gc = TRUE
    Sharing = FALSE
INVARIANTS NoThreadLost LockMeansOwner NoAbort ClockStops
PROPERTY CondvarWakes
