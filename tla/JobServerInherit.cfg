SPECIFICATION Spec
CONSTANTS
    c1 = c1
    c2 = c2
    c3 = c3
    p1 = p1
    p2 = p2
    Clients <- MCClients2
    MaxClients = 3
    Careless <- MCNobody
    Pids <- MCPids1
    Limit = 2
    Ops <- RunOnly
    Honest = TRUE
    ForkMayFail = FALSE
    PidReuse = FALSE
    None = None
INVARIANT InheritNothing
CHECK_DEADLOCK FALSE
