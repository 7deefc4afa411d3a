SPECIFICATION FairSpec
CONSTANTS
    w1 = w1
    w2 = w2
    c1 = c1
    c2 = c2
    c3 = c3
    Workers <- MCWorkers2
    Main = main
    Clients <- MCClients3
    Rude <- MCRude1
    MaxTasks = 2
    None = None
    Spurious = TRUE
INVARIANTS TypeOK AcceptedOnce MainHasWaker
PROPERTIES ImplementsDispatch EveryClientAnswered
CHECK_DEADLOCK FALSE
