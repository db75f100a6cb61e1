SPECIFICATION FairSpec
CONSTANTS
    w1 = w1
    w2 = w2
    Workers = {w1, w2}
    Instructions = {1, 2}
    Kind <- CommandsAndText
    AutoRun = {1, 2}
    Callback = {2}
    Execute <- YesAndAsk
    Bridge = {w2}
    Operations = {"crash", "restart", "refuse", "unreachable"}
INVARIANTS TypeOK ExecutedOnceUnlessLost FinalIsReported
PROPERTIES StatesOnlyAdvance EveryInstructionEnds
CHECK_DEADLOCK FALSE
