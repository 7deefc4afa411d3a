----------------------------- MODULE MCTimerPool ----------------------------
(* Small instances of TimerPool.                                           *)
EXTENDS TimerPool, TLC
CONSTANTS w1, w2, w3
MCWorkers2 == {w1, w2}
MCWorkers3 == {w1, w2, w3}
=============================================================================
