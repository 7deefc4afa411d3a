----------------------------- MODULE MCJobServer ----------------------------
(* Small instances of JobServer.                                           *)
EXTENDS JobServer, TLC
CONSTANTS c1, c2, c3, p1, p2

MCClients2 == {c1, c2}
MCClients3 == {c1, c2, c3}
MCNobody   == {}
MCPids1    == {p1}
MCPids2    == {p1, p2}

Anything   == {"run", "get_status", "kill_job", "get_output", "get_jobs", "istoric",
               "other"}
AllOps     == [c \in MCClients3 |-> Anything]
OneAsks    == [c \in MCClients3 |-> IF c = c3 THEN {"get_status", "kill_job", "other"} ELSE {"run"}]
RunOnly    == [c \in MCClients2 |-> {"run"}]

(* Clients are interchangeable, and so are process ids.                    *)
JobSymmetry == Permutations(MCClients3) \cup Permutations(MCPids2)
=============================================================================
