SPECIFICATION Spec
CONSTANTS
    Scripts = {s1, s2, s3}
    Workers = {}
    NoThread = NoThread
    Limit = 3
    Parallelism = 1
    MaxOps = 2
    Repertoires = {{"sleep", "mutex"}}
    Timeouts = TRUE
    Gc = FALSE
    Sharing = FALSE
INVARIANTS
    MutexReleased
