CONSTANTS
    b1 = b1  b2 = b2
    p1 = p1  p2 = p2  p3 = p3  p4 = p4
    Runs = {r1, r2, r3, r4}
    Books = {b1, b2}
    Problems = {p1, p2, p3, p4}
    BookOf <- BookOfProblem
    Similar <- Matches
    BatchSize = 1
    Concurrency = 2
SPECIFICATION MCSpec
SYMMETRY Symmetry
INVARIANTS
    OneClusterPerCard
    MembersMatchRepresentative
    ClustersAreDistinctConcepts
    OrphansOnlyAfterInterruption
CHECK_DEADLOCK FALSE
