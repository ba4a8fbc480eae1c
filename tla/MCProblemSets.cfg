CONSTANTS
    Jobs = {j1, j2, j3}
    Courses = {c1, c2}
    Clusters = {k1, k2}
    Counts = {1, 2}
    Concurrency = 2
SPECIFICATION MCSpec
SYMMETRY Symmetry
INVARIANTS
    LedgerMatchesSets
    LedgerAllOrNothing
    DoneSetsDisjoint
    FailedIssuesNothing
    RunNumbersGapless
    ReshuffleKeepsConcepts
    RemainingIsUnused
CHECK_DEADLOCK FALSE
