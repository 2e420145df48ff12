----------------------------- MODULE MCConnSend -----------------------------
(* One connection, its loop and two senders.                                *)
EXTENDS ConnSend

CONSTANTS s1, s2
TwoSenders == {s1, s2}
TwoAndOne == [s \in Senders |-> IF s = s1 THEN 2 ELSE 1]
=============================================================================
