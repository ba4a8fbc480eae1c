CONSTANTS
    Jobs = {j1, j2, j3}
    Courses = {c1}
    Clusters = {k1, k2}
    Counts = {1}
    Concurrency = 2
SPECIFICATION MCFairSpec
INVARIANTS
    SerialNeverAborts
    SerialRepeatsOnlyAfterCrash
PROPERTIES
    KeepsPromise
    QueuedJobSettles
CHECK_DEADLOCK FALSE
