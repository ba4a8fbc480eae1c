CONSTANTS
    Jobs = {j1, j2}
    Courses = {c1}
    Clusters = {k1, k2}
    Counts = {1}
    Concurrency = 2
SPECIFICATION MCSpec
INVARIANTS
    NeverRepeatsConcept
CHECK_DEADLOCK FALSE
