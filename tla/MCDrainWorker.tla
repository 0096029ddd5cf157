--------------------------- MODULE MCDrainWorker ---------------------------
(* Instances of DrainWorker for TLC.  Workers do not interact, so one is    *)
(* enough for the safety and the liveness of each.                          *)
EXTENDS DrainWorker, TLC

CONSTANTS w1, c1, c2, k1, k2

MCWorkers == {w1}
MCCallers == {c1, c2}
MCCycles  == {k1, k2}
=============================================================================
