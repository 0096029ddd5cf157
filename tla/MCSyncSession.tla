--------------------------- MODULE MCSyncSession ---------------------------
(* A small instance of SyncSession: a window beside an agent.               *)
EXTENDS SyncSession

CONSTANTS w1, a1

OneWindow == {w1}
OneAgent  == {a1}
=============================================================================
