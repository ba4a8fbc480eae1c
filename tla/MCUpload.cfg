CONSTANTS
    Patches = {p1, p2, p3}
    Total = 3
    MaxChunk = 3
    InFlight = 3
SPECIFICATION MCSpec
INVARIANTS
    ReceivedIsWritten
    IngestReadsWholeFile
    OneAtATimeIngestedOnce
PROPERTIES
    UploadSettles
CHECK_DEADLOCK FALSE
