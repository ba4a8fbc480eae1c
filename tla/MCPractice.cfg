SPECIFICATION PracticeSpec
CONSTANTS
    Concepts = {1, 2, 3, 4}
    Sections = {"a", "b"}
    Pools <- MCPools
    Requests <- MCRequests
    NoMix = NoMix
    MaxPerSection = 2
    MaxPhysics = 1
    Units <- MCUnits
    Inverse_tol = 10
    Solvers <- MCSolvers
    References <- MCReferences
    Programs <- MCPrograms
    Ran <- MCRan
    None = "none"
    s1 = s1
    s2 = s2
    Slots = {s1, s2}
    HandedOver = {2, 3}
    MaxVariants = 2
    MaxStarts <- MCMaxStarts
    MaxCommands = 4
SYMMETRY Perms
INVARIANTS
    CapsHold
    RelaxationsAreReported
    ShortOnlyIfBlocked
    AnswerIsFromItsCode
    RenderedFilesAgree
    OneVerifiedPerConcept
    VerdictsAreRight
CHECK_DEADLOCK FALSE
