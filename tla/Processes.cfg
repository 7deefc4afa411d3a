SPECIFICATION ProcessesSpec
CONSTANTS
    c1 = c1
    c2 = c2
    w1 = w1
    w2 = w2
    Parent = parent
    K1 = k1
    K2 = k2
    K3 = k3
    K4 = k4
    Children <- MCChildren
    Workers <- MCWorkers
    PerChild = 2
    MaxCommands = 2
    ReadLen = 2
    MsgLens <- MCMsgLens
    None = None
INVARIANTS TypesOK CommandsKept AllRead NothingLeft
PROPERTIES ProgramEnds ProcsEnd
CHECK_DEADLOCK FALSE
