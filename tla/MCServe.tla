------------------------------- MODULE MCServe -------------------------------
(* A server with a few loops, its clients and its dialers.                  *)
EXTENDS Accept

CONSTANTS d1, d2

AllKinds == {"tcp", "udp", "dialing"}
AllBalances == {"random", "roundrobin", "least"}
OneDialer == {d1}
TwoDialers == {d1, d2}
=============================================================================
