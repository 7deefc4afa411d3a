SPECIFICATION FairSpec
CONSTANTS
    w1 = w1
    w2 = w2
    w3 = w3
    Workers <- MCWorkers3
    NumTasks = 4
    MaxTasks = 2
    None = None
INVARIANTS TypeOK TaskOnce
PROPERTY TaskProcessed
CHECK_DEADLOCK FALSE
