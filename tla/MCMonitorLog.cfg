CONSTANTS
    a = a
    b = b
    Logs = {a, b}
    MaxTree <- TwoAndOne
    Malformed <- OneMalformed
    BatchSize = 2
    MaxRuns = 2
    MaxFaults = 2
    WriteFaults = TRUE
    PowerFaults = TRUE
    FreshRuns = TRUE
    None = None
SPECIFICATION FairSpec
INVARIANTS
    NoGapSinceStart
    SessionBehindState
    SuppressedIsWritten
PROPERTIES
    CatchesUp
CHECK_DEADLOCK FALSE
