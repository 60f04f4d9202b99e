CONSTANTS
    MaxTree = 3
    Malformed = {1}
    Options <- AllOptions
    TailDefault = 1
    BatchSize = 2
    SaveEvery = 1
    MaxRuns = 3
    FreshRuns = FALSE
    None = None
SPECIFICATION Spec
INVARIANTS
    CheckpointOnDisk
    SuccessOnDisk
    MarkedOnDisk
PROPERTIES
    CheckpointGrows
CHECK_DEADLOCK FALSE
