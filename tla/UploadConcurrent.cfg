SPECIFICATION Spec
CONSTANTS
    j1 = j1
    j2 = j2
    NoFile = NoFile
    NoThread = NoThread
    Jobs = {j1, j2}
    Threads = {t1, t2}
    Unit = {"a", "b", "c", "d", "x"}
    Size <- TruncatedSize
    Data <- TruncatedData
    Digest <- TruncatedDigest
    Overwrite <- SecondOverwrites
    ChunkLen = 2
    MaxAttempts = 2
    InitialTargets <- OldFileOrNone
    InitialPartials <- TooLongOrForeign
    Operations = {"cleanup", "delete", "restart", "cancel"}
INVARIANTS OnlyLateAppendsCorrupt
CHECK_DEADLOCK FALSE
