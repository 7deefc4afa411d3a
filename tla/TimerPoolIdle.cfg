SPECIFICATION Spec
CONSTANTS
    w1 = w1
    w2 = w2
    w3 = w3
    Workers <- MCWorkers2
    NumTasks = 2
    MaxTasks = 2
    None = None
INVARIANT IdleMeansTimer
CHECK_DEADLOCK FALSE
