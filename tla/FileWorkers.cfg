SPECIFICATION FairSpec
CONSTANTS
    a = a
    b = b
    MaxPthreads = 3
    Files <- MCFiles
    Lines <- MCThreeLines
INVARIANTS TypeOK FileExclusive OneAtATime
PROPERTY AllThreadsEnd
CHECK_DEADLOCK FALSE
