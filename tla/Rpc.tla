--------------------------------- MODULE Rpc ---------------------------------
(***************************************************************************)
(* What the mesh promises to the HTTP clients of a consumer agent: a        *)
(* request that has arrived gets at most one outcome, its own answer or an  *)
(* error, and the outcome is final.                                         *)
(***************************************************************************)
CONSTANT Requests

VARIABLE outcome        \* none, pending, answered or failed

RInit == outcome = [r \in Requests |-> "none"]

Become(r, from, to) ==
    outcome[r] = from /\ outcome' = [outcome EXCEPT ![r] = to]

Arrive(r) == Become(r, "none", "pending")
Answer(r) == Become(r, "pending", "answered")
Refuse(r) == Become(r, "pending", "failed")

RNext == \E r \in Requests : Arrive(r) \/ Answer(r) \/ Refuse(r)

RSpec == RInit /\ [][RNext]_outcome
=============================================================================
