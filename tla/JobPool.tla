------------------------------- MODULE JobPool -------------------------------
(***************************************************************************)
(* What the job scheduler promises (src/README.md, "Thread pool"): jobs    *)
(* handed in are started in FIFO order, each exactly once, at most Width   *)
(* of them at a time, and the pool is not taken down before every job that *)
(* was handed in has finished.  The threads, the work cycles, the          *)
(* condition variables and the barrier are hidden.                         *)
(***************************************************************************)
EXTENDS Integers, Sequences, FiniteSets

CONSTANTS Jobs, Width

VARIABLES queue,    \* handed in, not started; oldest first
          active,   \* started, not finished
          done,     \* finished
          closed    \* the pool has been taken down

vars == <<queue, active, done, closed>>

Pending == {queue[i] : i \in 1..Len(queue)}

Init == queue = <<>> /\ active = {} /\ done = {} /\ closed = FALSE

Submit(j) ==
    /\ ~closed
    /\ j \notin Pending \cup active \cup done
    /\ queue' = Append(queue, j)
    /\ UNCHANGED <<active, done, closed>>

Start ==
    /\ queue # <<>>
    /\ Cardinality(active) < Width
    /\ queue' = Tail(queue)
    /\ active' = active \cup {Head(queue)}
    /\ UNCHANGED <<done, closed>>

Finish(j) ==
    /\ j \in active
    /\ active' = active \ {j}
    /\ done' = done \cup {j}
    /\ UNCHANGED <<queue, closed>>

Close ==
    /\ ~closed
    /\ queue = <<>>
    /\ active = {}
    /\ closed' = TRUE
    /\ UNCHANGED <<queue, active, done>>

Next == Start \/ Close \/ \E j \in Jobs : Submit(j) \/ Finish(j)

Spec == Init /\ [][Next]_vars
=============================================================================
