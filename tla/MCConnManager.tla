---------------------------- MODULE MCConnManager ----------------------------
(* Three connections or agents; counters modulo a small power of two.       *)
EXTENDS ConnManager

CONSTANTS c1, c2, c3
ThreeConns == {c1, c2, c3}
SomeWeights == {0, 250}
BothUses == {"pool", "agents"}
=============================================================================
