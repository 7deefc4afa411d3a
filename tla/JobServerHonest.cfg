SPECIFICATION FairSpec
CONSTANTS
    c1 = c1
    c2 = c2
    c3 = c3
    p1 = p1
    p2 = p2
    Clients <- MCClients3
    MaxClients = 3
    Careless <- MCClients3
    Pids <- MCPids2
    Limit = 2
    Ops <- OneAsks
    Honest = TRUE
    ForkMayFail = FALSE
    PidReuse = FALSE
    None = None
INVARIANT NeverStuck
PROPERTIES FinishedIsFinal RecordedJobFinishes EveryRequestAnswered
CHECK_DEADLOCK FALSE
