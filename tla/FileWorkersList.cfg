SPECIFICATION Spec
CONSTANTS
    a = a
    b = b
    MaxPthreads = 3
    Files <- MCFiles
    Lines <- MCTwoLines
INVARIANT ListedOnce
CHECK_DEADLOCK FALSE
