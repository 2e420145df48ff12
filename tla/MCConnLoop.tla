----------------------------- MODULE MCConnLoop -----------------------------
(* One loop with two connections, accepted or dialed.                       *)
EXTENDS ConnLoop, TLC

CONSTANTS c1, c2
OneConn  == {c1}
TwoConns == {c1, c2}
Symmetry == Permutations(TwoConns)

BothModes == {TRUE, FALSE}
Accepting == {FALSE}
Dialing == {TRUE}

AllActions   == {"None", "Close", "Detach", "Shutdown"}
DetachActions == {"None", "Detach"}
CloseActions == {"None", "Close"}
=============================================================================
