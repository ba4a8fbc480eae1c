CONSTANTS
    f1 = f1  f2 = f2  f3 = f3
    e1 = e1  e2 = e2
    Runs = {r1, r2, r3}
    Files = {f1, f2, f3}
    EditionOf <- Editions
    PagesOf <- Pages
    Disciplines = {d1, d2}
    Concurrency = 3
    NoBook = NoBook
SPECIFICATION MCSpec
SYMMETRY Symmetry
INVARIANTS
    DoneBookComplete
    ReportedBookReady
    OneAtATimeNeverRefused
    OneAtATimeDuplicatesOnlyAfterCrash
CHECK_DEADLOCK FALSE
