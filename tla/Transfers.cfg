CONSTANTS
    Callers = {c1, c2}
    Downloaders = {t1, t2, t3}
    Tools = {rg}
    TempNames = {t1, t2, t3}
    Inodes = {i1, i2, i3, i4}
    Files = {i1, i2, i3, i4}
    Chunks = 2
    PieceCount = 2
    MaxCrashes = 1
    MaxRetries = 1
    Old = Old
    None = None
    Nothing = Nothing
SPECIFICATION MCSpec
SYMMETRY Symmetry
INVARIANTS
    CacheIsPinned
    DeployedIsWhole
    ReportedFileIsThere
    FailedLeavesNothing
PROPERTIES
    OldFilesStay
CHECK_DEADLOCK FALSE
