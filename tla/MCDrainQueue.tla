---------------------------- MODULE MCDrainQueue ----------------------------
(* A small instance of DrainQueue: two instances and two workers, for both  *)
(* instances at once, or for one of them, one after the other.              *)
EXTENDS DrainQueue, TLC

CONSTANTS i1, i2, w1, w2, c1, k1, k2

TwoInstances == {i1, i2}
TwoWorkers   == {w1, w2}
OneCaller    == {c1}
TwoCycles    == {k1, k2}
=============================================================================
