CONSTANTS
    MaxTree = 2
    Malformed = {1}
    Options <- OneOption
    TailDefault = 1
    BatchSize = 2
    SaveEvery = 1
    MaxRuns = 3
    FreshRuns = TRUE
    None = None
SPECIFICATION Spec
INVARIANTS
    SkippedIsOnDisk
CHECK_DEADLOCK FALSE
