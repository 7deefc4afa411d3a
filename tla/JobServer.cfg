SPECIFICATION Spec
CONSTANTS
    c1 = c1
    c2 = c2
    c3 = c3
    p1 = p1
    p2 = p2
    Clients <- MCClients3
    MaxClients = 3
    Careless <- MCClients3
    Pids <- MCPids2
    Limit = 2
    Ops <- AllOps
    Honest = FALSE
    ForkMayFail = TRUE
    PidReuse = TRUE
    None = None
SYMMETRY JobSymmetry
INVARIANTS TypeOK BooksBalance FinishedIsDead
CHECK_DEADLOCK FALSE
