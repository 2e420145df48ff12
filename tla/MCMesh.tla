------------------------------- MODULE MCMesh -------------------------------
(* Few requests, and either several providers or several consumers.         *)
EXTENDS Mesh

CONSTANTS c1, c2, p1, p2, r1, r2, r3
OneConsumer  == {c1}
TwoConsumers == {c1, c2}
OneProvider  == {p1}
TwoProviders == {p1, p2}
TwoRequests   == {r1, r2}
ThreeRequests == {r1, r2, r3}
AtOne  == [r \in Requests |-> c1]
AtBoth == [r \in Requests |-> IF r = r1 THEN c1 ELSE c2]
=============================================================================
