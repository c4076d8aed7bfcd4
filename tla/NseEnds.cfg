\* Three scripts that sleep and lock a mutex, or that share two socket slots.
SPECIFICATION FairSpec
CONSTANTS
    Scripts = {s1, s2, s3}
    Workers = {}
    NoThread = NoThread
    Limit = 3
    Parallelism = 1
    MaxOps = 2
    Repertoires = {{"sleep", "mutex"}, {"socket"}}
    Timeouts = FALSE
    Gc = FALSE
    Sharing = FALSE
INVARIANT WaiterHasWaker
PROPERTY Terminates
