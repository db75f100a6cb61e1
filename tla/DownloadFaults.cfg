SPECIFICATION FairSpec
CONSTANTS
    j1 = j1
    j2 = j2
    NoFile = NoFile
    Unit = {"a", "b", "c", "d", "x"}
    ChunkLen = 2
    Jobs = {j1, j2}
    Versions <- Truncation
    Overwrite <- SecondOverwrites
    MaxAttempts = 2
    InitialTargets <- NoFileYet
    InitialPartials <- LeftOver
    Operations = {"edit", "remove", "cleanup", "kill"}
INVARIANTS TypeOK EveryUnitAtItsOffset
PROPERTIES OnlyDisturbedPartialsMismatch FaithfulDownloadIsSource EveryDownloadEnds
CHECK_DEADLOCK FALSE
