SPECIFICATION Spec
CONSTANTS
    j1 = j1
    j2 = j2
    NoFile = NoFile
    Unit = {"a", "b", "c", "d", "x"}
    ChunkLen = 2
    Jobs = {j1, j2}
    Versions <- SameSize
    Overwrite <- NoOverwrite
    MaxAttempts = 2
    InitialTargets <- NoFileYet
    InitialPartials <- NoFileYet
    Operations = {"edit", "kill"}
PROPERTIES SteadyDownloadIsSource
CHECK_DEADLOCK FALSE
