-------------------------- MODULE CountingSemaphore --------------------------
(***************************************************************************)
(* What src/include/semaphore.h promises its callers, with the wakeup      *)
(* bookkeeping of semaphore.c hidden: a thread gets past sem_wait_ only    *)
(* against a permit, and only sem_post_ makes permits.  A negative initial *)
(* number of permits makes the semaphore a barrier: job_scheduler.c starts *)
(* sem_barrier at 1 - n, so the master passes after n posts.               *)
(***************************************************************************)
EXTENDS Integers

CONSTANTS Threads,      \* the threads that may call sem_wait_
          Initial       \* permits at sem_init_

VARIABLES permits,      \* posts so far, plus Initial, minus passes
          waiting       \* threads inside sem_wait_

vars == <<permits, waiting>>

Init == /\ permits = Initial
        /\ waiting = {}

Post == /\ permits' = permits + 1
        /\ UNCHANGED waiting

Arrive(t) == /\ t \notin waiting
             /\ waiting' = waiting \cup {t}
             /\ UNCHANGED permits

\* A thread that has arrived, or arrives in this very step, takes a permit.
Pass(t) == /\ permits > 0
           /\ permits' = permits - 1
           /\ waiting' = waiting \ {t}

Next == \/ Post
        \/ \E t \in Threads : Arrive(t) \/ Pass(t)

Spec == Init /\ [][Next]_vars
=============================================================================
