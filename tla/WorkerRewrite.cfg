SPECIFICATION Spec
CONSTANTS
    w1 = w1
    w2 = w2
    Workers = {w1}
    Instructions = {1}
    Kind <- CommandsOnly
    AutoRun = {1}
    Callback = {1}
    Execute <- AllYes
    Bridge = {}
    Operations = {}
INVARIANTS NoDuplicateRuns
CHECK_DEADLOCK FALSE
