------------------------------ MODULE MCLedger ------------------------------
(* A small instance of Ledger: two documents that may supersede each other, *)
(* and a link of another relation.                                          *)
EXTENDS Ledger

CONSTANTS a, b, ab, ba, cites

TwoDocuments == {a, b}
ThreeLinks   == {ab, ba, cites}
Sources      == [l \in ThreeLinks |-> IF l = ba THEN b ELSE a]
Targets      == [l \in ThreeLinks |-> IF l = ba THEN a ELSE b]
BothWays     == {ab, ba}
=============================================================================
