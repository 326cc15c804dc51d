SPECIFICATION FairSpec
CONSTANTS
    Workloads <- QueueWorkloads
    Nobody = Nobody
INVARIANTS
    FirstInFirstOut
    DoneExactlyOnce
    NothingLeftUndone
    OutcomesAreTrue
PROPERTY
    NobodyWaitsForEver
CHECK_DEADLOCK FALSE
