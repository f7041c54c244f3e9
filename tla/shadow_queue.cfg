\* Three requests, two closers, a queue of two.
SPECIFICATION FairSpec
CONSTANTS
    Requests = {r1, r2, r3}
    Closers = {k1, k2}
    MaxSize = 2
    WorkerFails = TRUE
    Sentinel = Sentinel
CHECK_DEADLOCK FALSE
INVARIANTS
    QueueInv
    DrainedIsDone
PROPERTIES
    DrainEnds
