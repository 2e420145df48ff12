----------------------------- MODULE MCDiscovery -----------------------------
(* A few providers that come and go, and a consumer.                        *)
EXTENDS Discovery

CONSTANTS p1, p2

TwoProviders == {p1, p2}
TwoAndOne == [p \in TwoProviders |-> IF p = p1 THEN 2 ELSE 1]
SomeValues == {0, 1500}
=============================================================================
