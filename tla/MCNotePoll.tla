----------------------------- MODULE MCNotePoll -----------------------------
(* The poll with two producers.                                             *)
EXTENDS NotePoll

CONSTANTS p1, p2
TwoProducers == {p1, p2}
Both == {"epoll", "kqueue"}
Epoll == {"epoll"}
=============================================================================
