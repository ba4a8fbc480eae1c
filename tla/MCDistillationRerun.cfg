CONSTANTS
    b1 = b1  b2 = b2
    p1 = p1  p2 = p2  p3 = p3  p4 = p4
    Runs = {r1, r2, r3}
    Books = {b1, b2}
    Problems = {p1, p2, p3, p4}
    BookOf <- BookOfProblem
    Similar <- Matches
    BatchSize = 1
    Concurrency = 1
SPECIFICATION MCSpec
SYMMETRY Symmetry
INVARIANTS
    RerunLeavesNoOrphans
CHECK_DEADLOCK FALSE
