CONSTANTS
    Records <- ThreeRecords
    BufSize = 3
    MaxDedup = 2
    MaxRuns = 2
    MaxFaults = 2
    MaxPieces = 8
    None = None
    Garbage = Garbage
SPECIFICATION Spec
INVARIANTS
    StateBehindOutput
    DamageOnlyAtSeams
    DedupExact
PROPERTIES
    ImplementsFileContract
CHECK_DEADLOCK FALSE
