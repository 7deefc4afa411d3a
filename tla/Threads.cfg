SPECIFICATION AllSpec
CONSTANTS
    Main = main
    T1 = t1
    T2 = t2
    T3 = t3
    First = t1
    Forked <- MCForked
    Slices = 2
    Scheduler = main
    Nobody = None
    f1 = f1
    f2 = f2
    c1 = c1
    c2 = c2
    c3 = c3
    None = None
    Conns <- LabConns
    Asks <- LabAsks
    RunningMax = 1
    FirstId = 100
    Threads <- MCThreadSet
    Words <- MCWords
    Mutexes <- MCMutexes
    Size = 2
    MaxItems = 8
    Rounds = 3
    Turns = 2
    Letters <- MCLetters
    Zero = 0
    Sizes <- MCSizes
    StringSizes <- MCStringSizes
    NumThreads = 4
    Page = 12
    CacheClients <- MCCacheClients
    MaxSlots = 2
    MaxBytes = 3
    Requests <- MCRequests
    NoOne = None
INVARIANTS TypesOK NothingLost SameAsSerial HandlersNested TableAgrees
PROPERTIES ReadsFresh AllServed
CHECK_DEADLOCK FALSE
