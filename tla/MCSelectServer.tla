--------------------------- MODULE MCSelectServer ---------------------------
(* Small instances of SelectServer.                                        *)
EXTENDS SelectServer, TLC
CONSTANTS c1, c2

MCClients2 == {c1, c2}
=============================================================================
