SPECIFICATION Spec
CONSTANTS
    j1 = j1
    j2 = j2
    NoFile = NoFile
    NoThread = NoThread
    Jobs = {j1}
    Threads = {t1, t2}
    Unit = {"a", "b", "c", "d", "x"}
    Size <- OneSize
    Data <- OneJob
    Digest <- OneJob
    Overwrite <- NoOverwrite
    ChunkLen = 2
    MaxAttempts = 2
    InitialTargets <- NoPartial
    InitialPartials <- NoPartial
    Operations = {}
INVARIANTS NoSilentCorruption
CHECK_DEADLOCK FALSE
