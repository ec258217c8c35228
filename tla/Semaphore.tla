------------------------------ MODULE Semaphore ------------------------------
(***************************************************************************)
(* The custom semaphore of src/src/semaphore.c.  Every function holds      *)
(* s->mutex from its first to its last statement, so each one is a single  *)
(* step, except sem_wait_, which gives the mutex up inside                 *)
(* pthread_cond_wait and is split there.                                   *)
(*                                                                         *)
(* sleeping  : threads inside pthread_cond_wait, not signalled yet         *)
(* signalled : threads woken from it that have not got the mutex back yet  *)
(* stuck     : sem_get_value_ has returned without unlocking the mutex     *)
(* assigned  : history, value has been set by something else than waiting  *)
(*             and posting                                                 *)
(***************************************************************************)
EXTENDS Integers, FiniteSets

CONSTANTS Threads,      \* threads that call sem_wait_
          Resetters,    \* those of them that pass reset = true
          Initial,      \* the argument of sem_init_
          Calls,        \* which of MaintenanceCalls the clients make
          Cap,          \* bound: no step takes value or wakeups above it,
                        \* nor value below -Cap
          MaxSpurious   \* bound: spurious returns of pthread_cond_wait

MaintenanceCalls == {"decrease", "increase", "get", "set", "reset"}

ASSUME SemAssumption ==
    /\ IsFiniteSet(Threads)
    /\ Resetters \subseteq Threads
    /\ Initial \in Int
    /\ Calls \subseteq MaintenanceCalls
    /\ Cap \in Nat
    /\ MaxSpurious \in Nat

VARIABLES value, wakeups, sleeping, signalled, stuck, spurious, assigned

vars == <<value, wakeups, sleeping, signalled, stuck, spurious, assigned>>

sem_init_ ==
    /\ value = Initial
    /\ wakeups = 0
    /\ sleeping = {}
    /\ signalled = {}
    /\ stuck = FALSE
    /\ spurious = 0
    /\ assigned = FALSE

\* LOCK_ ... UNLOCK_ around the body of a function.
Locking == ~stuck /\ stuck' = stuck

Inside == sleeping \cup signalled

-----------------------------------------------------------------------------
(* sem_wait_(s, reset) *)

\* mutant: sem_wait_ resets the semaphore whatever the caller asked for
LeaveResets(t, v, u) ==
    /\ value' = Initial
    /\ wakeups' = 0
    /\ assigned' = assigned

\* The tail of sem_wait_: v and u are value and wakeups on reaching it.
Leave(t, v, u) ==
    /\ value' = IF t \in Resetters THEN Initial ELSE v
    /\ wakeups' = IF t \in Resetters THEN 0 ELSE u
    /\ assigned' = (assigned \/ t \in Resetters)

\* The test of sem_wait_ on the decremented value.
MustSleep(v) == v < 0

\* value-- leaves it negative: the thread goes to sleep.
WaitBlock(t) ==
    /\ Locking /\ assigned' = assigned
    /\ t \notin Inside
    /\ MustSleep(value - 1)
    /\ value' = value - 1
    /\ sleeping' = sleeping \cup {t}
    /\ UNCHANGED <<wakeups, signalled, spurious>>

\* value-- leaves it at zero or more: straight through, wakeups not consulted.
WaitThrough(t) ==
    /\ Locking
    /\ t \notin Inside
    /\ ~MustSleep(value - 1)
    /\ Leave(t, value - 1, wakeups)
    /\ UNCHANGED <<sleeping, signalled, spurious>>

\* Woken, and the loop test finds a wakeup to use up.
WakePass(t) ==
    /\ Locking
    /\ t \in signalled
    /\ wakeups >= 1
    /\ signalled' = signalled \ {t}
    /\ Leave(t, value, wakeups - 1)
    /\ UNCHANGED <<sleeping, spurious>>

\* Woken, but no wakeup is there: back to pthread_cond_wait.
WakeAgain(t) ==
    /\ Locking /\ assigned' = assigned
    /\ t \in signalled
    /\ wakeups < 1
    /\ signalled' = signalled \ {t}
    /\ sleeping' = sleeping \cup {t}
    /\ UNCHANGED <<value, wakeups, spurious>>

\* pthread_cond_wait may return with no signal.
SpuriousWake(t) ==
    /\ spurious < MaxSpurious
    /\ t \in sleeping
    /\ sleeping' = sleeping \ {t}
    /\ signalled' = signalled \cup {t}
    /\ spurious' = spurious + 1
    /\ stuck' = stuck
    /\ assigned' = assigned
    /\ UNCHANGED <<value, wakeups>>

-----------------------------------------------------------------------------
(* sem_post_(s) *)

\* pthread_cond_signal: one sleeper if there is one, else nothing.
Signal ==
    \/ \E t \in sleeping : /\ sleeping' = sleeping \ {t}
                           /\ signalled' = signalled \cup {t}
    \/ /\ sleeping = {}
       /\ UNCHANGED <<sleeping, signalled>>

\* mutant: the last post still owed to the barrier signals already
WakesWaiterEarly(v) == v >= -1

\* The test of sem_post_ on the incremented value.
WakesWaiter(v) == v >= 0

sem_post_ ==
    /\ Locking /\ assigned' = assigned
    /\ value' = value + 1
    /\ IF WakesWaiter(value + 1)
       THEN wakeups' = wakeups + 1 /\ Signal
       ELSE UNCHANGED <<wakeups, sleeping, signalled>>
    /\ UNCHANGED spurious

-----------------------------------------------------------------------------
(* The operations that touch value alone; none of them signals. *)

Assign(call, v) ==
    /\ call \in Calls
    /\ Locking
    /\ value' = v
    /\ assigned' = TRUE
    /\ UNCHANGED <<wakeups, sleeping, signalled, spurious>>

sem_decrease_     == Assign("decrease", value - 1)
sem_increase_     == Assign("increase", value + 1)
sem_set_value_(v) == Assign("set", v)

sem_reset_        == Assign("reset", Initial)

\* The return statement comes before UNLOCK_: the mutex is never released.
sem_get_value_ ==
    /\ "get" \in Calls
    /\ ~stuck
    /\ stuck' = TRUE
    /\ UNCHANGED <<value, wakeups, sleeping, signalled, spurious, assigned>>

-----------------------------------------------------------------------------
Wait(t) == WaitBlock(t) \/ WaitThrough(t) \/ WakePass(t) \/ WakeAgain(t)

Next ==
    \/ \E t \in Threads : Wait(t) \/ SpuriousWake(t)
    \/ value < Cap /\ wakeups < Cap /\ sem_post_
    \/ value > -Cap /\ sem_decrease_
    \/ value < Cap /\ sem_increase_
    \/ \E v \in {Initial - 1, Initial + 1} : sem_set_value_(v)
    \/ sem_reset_
    \/ sem_get_value_

Spec == sem_init_ /\ [][Next]_vars

-----------------------------------------------------------------------------
(* The types of the state. *)
TypeOK ==
    /\ value \in Int
    /\ wakeups \in Nat
    /\ sleeping \subseteq Threads
    /\ signalled \subseteq Threads
    /\ sleeping \cap signalled = {}
    /\ stuck \in BOOLEAN
    /\ spurious \in 0..MaxSpurious
    /\ assigned \in BOOLEAN

(* Every thread that a post woke finds a wakeup waiting for it at the loop *)
(* test of sem_wait_, so that no wakeup handed out is lost: only a thread  *)
(* woken spuriously can find none.  And threads on their way out never     *)
(* exceed the permits posted: sem_post_ signals from value >= 0 on, so it  *)
(* leaves wakeups behind that no waiter used; each spurious return of      *)
(* pthread_cond_wait can turn one of those into a pass nobody posted for,  *)
(* and no more than one.  A barrier starts below zero and owes posts; what *)
(* is said of it begins with its first wakeup, before which nobody can go. *)
(* The exception to both is a waiter that asks for a reset, which throws   *)
(* away the wakeups of the others.                                         *)
SignalsArePaid ==
    ~assigned => /\ Cardinality(signalled) =< wakeups + spurious
                 /\ Initial >= 0 \/ wakeups > 0 =>
                      Cardinality(signalled) =< value + Cardinality(Inside) + spurious

(* Without spurious wakeups the semaphore is a counting semaphore: nobody  *)
(* gets past sem_wait_ without a permit of sem_post_.  This is checked     *)
(* where the repository uses the semaphore, for the barrier of             *)
(* JobScheduler.tla.                                                       *)
Counting == INSTANCE CountingSemaphore
                WITH permits <- value + Cardinality(Inside), waiting <- Inside

IsCountingSemaphore == Counting!Spec
=============================================================================
