SPECIFICATION FairSpec
CONSTANTS
    c1 = c1
    c2 = c2
    Clients <- MCClients2
    Main = main
    Waiter = waiter
    MaxSignals = 2
    None = None
INVARIANTS TypeOK
PROPERTIES EndsUnlessStuck ByteEndsThreads
CHECK_DEADLOCK FALSE
