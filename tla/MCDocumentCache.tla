-------------------------- MODULE MCDocumentCache --------------------------
(* A small instance of DocumentCache.                                       *)
EXTENDS DocumentCache, TLC
=============================================================================
