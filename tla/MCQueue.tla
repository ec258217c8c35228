------------------------------- MODULE MCQueue -------------------------------
(* The runs of Queue.tla; the threads of tests/queue_tests.c, fewer of them, *)
(* around a buffer that fills and empties and whose ends go round.           *)
EXTENDS Queue
=============================================================================
