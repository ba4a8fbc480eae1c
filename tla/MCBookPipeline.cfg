SPECIFICATION MCSpec
CONSTANTS
    Items = {"problem", "derivation", "not"}
    None = None
    Malformed = Malformed
    Texts <- MCTexts
    MaxStarts <- MCMaxStarts
    MaxEntries = 2
    MaxCommands = 5
    MaxMissing = 1
    BatchSize = 2
    s1 = s1
    s2 = s2
    Slots <- MCSlots
SYMMETRY Perms
INVARIANTS
    PagesHaveOneSection
    CandidatesTile
    AnswersLandOnTheirItem
    OneAtATimeStoredOnce
    CandidatesAreAnswered
    DerivationsNeverCarded
    OrderedCardsStaySolvable
CHECK_DEADLOCK FALSE
