----------------------------- MODULE MCConnPool -----------------------------
(* Up to four connections and two request goroutines.                       *)
EXTENDS ConnPool, TLC

CONSTANTS c1, c2, c3, c4, g1, g2
FourConns  == {c1, c2, c3, c4}
TwoCallers == {g1, g2}
BothKinds == {"agent", "dubbo"}
Symmetry == Permutations(Conns) \cup Permutations(TwoCallers)
=============================================================================
