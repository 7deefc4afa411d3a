----------------------------- MODULE MCTaskPool -----------------------------
(* Small instances of TaskPool.                                            *)
EXTENDS TaskPool, TLC
CONSTANTS w1, w2, c1, c2, c3

MCWorkers2 == {w1, w2}
MCClients3 == {c1, c2, c3}
MCRude1    == {c1}

=============================================================================
