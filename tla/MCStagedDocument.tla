-------------------------- MODULE MCStagedDocument --------------------------
(* Small instances of StagedDocument: two chat threads whose agents stage   *)
(* proposals, and at most one client that sends its baseVersion.            *)
EXTENDS StagedDocument, TLC

CONSTANTS t1, t2, r1

OneThread  == {t1}
TwoThreads == {t1, t2}
NoReader   == {}
OneReader  == {r1}
Symmetry   == Permutations(TwoThreads)
=============================================================================
