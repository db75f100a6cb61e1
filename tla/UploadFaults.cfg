SPECIFICATION FairSpec
CONSTANTS
    j1 = j1
    j2 = j2
    NoFile = NoFile
    NoThread = NoThread
    Jobs = {j1, j2}
    Threads = {t1}
    Unit = {"a", "b", "c", "d", "x"}
    Size <- GrownSize
    Data <- GrownData
    Digest <- GrownDigest
    Overwrite <- SecondOverwrites
    ChunkLen = 2
    MaxAttempts = 2
    InitialTargets <- OldFileOrNone
    InitialPartials <- PrefixOrForeign
    Operations = {"cancel", "delete", "restart"}
INVARIANTS TypeOK NoSilentCorruption EveryUnitAtItsOffset HashRefusesOnlyForeignUnits
PROPERTIES EveryJobEnds ImplementsAtomicInstall
CHECK_DEADLOCK FALSE
