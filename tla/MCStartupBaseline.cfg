SPECIFICATION BaselineSpec
CONSTANTS
    Logs = {l1, l2}
    MaxTree = 3
    Absent = Absent
SYMMETRY Symmetry
INVARIANTS NothingUnreplayable ArtifactMeansCovered EmittedIsRecoverable
