---------------------------- MODULE MCProjectLock ----------------------------
(* Small instances of ProjectLock: two or three processes open one file.    *)
EXTENDS ProjectLock, TLC

CONSTANTS p1, p2, p3

TwoProcs   == {p1, p2}
ThreeProcs == {p1, p2, p3}
Symmetry   == Permutations(ThreeProcs)
=============================================================================
