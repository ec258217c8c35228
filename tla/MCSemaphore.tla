----------------------------- MODULE MCSemaphore -----------------------------
(* Constants for the run of Semaphore.tla. *)
EXTENDS Semaphore

\* A semaphore that makes its waiter wait for one post.
OnePost == 0
=============================================================================
