-------------------------------- MODULE Queue --------------------------------
(***************************************************************************)
(* The bounded ring buffer of src/src/queue.c.                             *)
(*                                                                         *)
(* A queue is used in one of two ways.  Either its Producers and Consumers *)
(* make synchronised calls (sync = true): such a call holds q->mutex,      *)
(* tests, copies and unlocks in one step, or goes to sleep on its          *)
(* condition variable; the signal to the other side comes after UNLOCK_    *)
(* and so is a step of its own, before which any other thread may run.  Or *)
(* all calls are unsynchronised (sync = false) and take no lock: their     *)
(* caller keeps everybody else out by a lock of its own, as                *)
(* job_scheduler.c does with js->mutex.                                    *)
(*                                                                         *)
(* pc[t]: "out"     not inside a synchronised call                         *)
(*        "asleep"  in pthread_cond_wait on cond_non_full / cond_non_empty *)
(*        "woken"   signalled, about to test the condition again           *)
(*        "signal"  unlocked, about to signal the other side               *)
(***************************************************************************)
EXTENDS Integers, Sequences, FiniteSets

CONSTANTS Producers, Consumers,   \* threads that make synchronised calls
          Items,                  \* what is stored
          Zero,                   \* a zeroed cell
          buf_sz                  \* argument of queue_create

ASSUME QueueAssumption ==
    /\ IsFiniteSet(Producers)
    /\ IsFiniteSet(Consumers)
    /\ Producers \cap Consumers = {}
    /\ Zero \notin Items
    /\ buf_sz \in Nat \ {0}

VARIABLES front, rear, counter, buffer, pc,
          sync                    \* how this queue is used

ring == <<front, rear, counter, buffer>>
vars == <<ring, pc, sync>>

Threads == Producers \cup Consumers

queue_create ==
    /\ front = 0
    /\ rear = 0
    /\ counter = 0
    /\ buffer = [i \in 0..(buf_sz - 1) |-> Zero]
    /\ pc = [t \in Threads |-> "out"]
    /\ sync \in BOOLEAN

queue_is_empty == counter <= 0

queue_is_full == counter = buf_sz

\* mutant: the slot after the last is not wrapped to the first
NextSlotUnwrapped(i) == IF i + 1 < buf_sz THEN i + 1 ELSE i

NextSlot(i) == (i + 1) % buf_sz

enqueue(x) ==
    /\ counter' = counter + 1
    /\ buffer' = [buffer EXCEPT ![rear] = x]
    /\ rear' = NextSlot(rear)
    /\ UNCHANGED front

dequeue ==
    /\ counter' = counter - 1
    /\ buffer' = [buffer EXCEPT ![front] = Zero]
    /\ front' = NextSlot(front)
    /\ UNCHANGED rear

\* In a synchronised call, with q->mutex, before the test of the loop.
AtTest(t) == sync /\ pc[t] \in {"out", "woken"} /\ sync' = sync

Sleepers(S) == {t \in S : pc[t] = "asleep"}

-----------------------------------------------------------------------------
(* queue_enqueue(q, item, true) and queue_dequeue(q, item, true) *)

EnqueueSleep(p) ==
    /\ AtTest(p)
    /\ queue_is_full
    /\ pc' = [pc EXCEPT ![p] = "asleep"]
    /\ UNCHANGED ring

Enqueue(p, x) ==
    /\ AtTest(p)
    /\ ~queue_is_full
    /\ enqueue(x)
    /\ pc' = [pc EXCEPT ![p] = "signal"]

DequeueSleep(c) ==
    /\ AtTest(c)
    /\ queue_is_empty
    /\ pc' = [pc EXCEPT ![c] = "asleep"]
    /\ UNCHANGED ring

\* mutant: the consumer returns without signalling cond_non_full
DequeueSilent(c) ==
    /\ AtTest(c)
    /\ ~queue_is_empty
    /\ dequeue
    /\ pc' = [pc EXCEPT ![c] = "out"]

Dequeue(c) ==
    /\ AtTest(c)
    /\ ~queue_is_empty
    /\ dequeue
    /\ pc' = [pc EXCEPT ![c] = "signal"]

\* mutant: the other side is woken only if this call made the first item
\* (or the first free cell) of the queue
SignalWhenFirst(t, S) ==
    /\ pc[t] = "signal"
    /\ \/ \E s \in Sleepers(S) :
            /\ counter <= 1
            /\ pc' = [pc EXCEPT ![t] = "out", ![s] = "woken"]
       \/ /\ Sleepers(S) = {} \/ counter > 1
          /\ pc' = [pc EXCEPT ![t] = "out"]
    /\ UNCHANGED <<ring, sync>>

\* SIGNAL_NON_EMPTY_ after an enqueue, SIGNAL_NON_FULL_ after a dequeue:
\* one sleeper of the other side, if there is one, is woken.
Signal(t, S) ==
    /\ pc[t] = "signal"
    /\ \/ \E s \in Sleepers(S) : pc' = [pc EXCEPT ![t] = "out", ![s] = "woken"]
       \/ /\ Sleepers(S) = {}
          /\ pc' = [pc EXCEPT ![t] = "out"]
    /\ UNCHANGED <<ring, sync>>

\* queue_unblock_enqueue and queue_unblock_dequeue, by anyone; also how a
\* pthread_cond_wait that returns spuriously looks to the queue.
Unblock(S) ==
    /\ \E s \in Sleepers(S) : pc' = [pc EXCEPT ![s] = "woken"]
    /\ UNCHANGED <<ring, sync>>

-----------------------------------------------------------------------------
(* queue_enqueue(q, item, false) and queue_dequeue(q, item, false); on a   *)
(* full or an empty queue they return false and change nothing.            *)

TryEnqueue(x) ==
    /\ ~sync
    /\ ~queue_is_full
    /\ enqueue(x)
    /\ UNCHANGED <<pc, sync>>

TryDequeue ==
    /\ ~sync
    /\ ~queue_is_empty
    /\ dequeue
    /\ UNCHANGED <<pc, sync>>

-----------------------------------------------------------------------------
Produce(p) == EnqueueSleep(p) \/ \E x \in Items : Enqueue(p, x)
Consume(c) == DequeueSleep(c) \/ Dequeue(c)

Next ==
    \/ \E p \in Producers : Produce(p) \/ Signal(p, Consumers)
    \/ \E c \in Consumers : Consume(c) \/ Signal(c, Producers)
    \/ Unblock(Producers)
    \/ Unblock(Consumers)
    \/ \E x \in Items : TryEnqueue(x)
    \/ TryDequeue

\* A thread that is inside a call is scheduled again; nobody has to call.
Fairness ==
    /\ \A p \in Producers : /\ WF_vars(Signal(p, Consumers))
                            /\ WF_vars(pc[p] = "woken" /\ Produce(p))
    /\ \A c \in Consumers : /\ WF_vars(Signal(c, Producers))
                            /\ WF_vars(pc[c] = "woken" /\ Consume(c))

Spec == queue_create /\ [][Next]_vars

FairSpec == Spec /\ Fairness

-----------------------------------------------------------------------------
(* The types of the state. *)
TypeOK ==
    /\ front \in 0..(buf_sz - 1)
    /\ rear \in 0..(buf_sz - 1)
    /\ counter \in 0..buf_sz
    /\ buffer \in [0..(buf_sz - 1) -> Items \cup {Zero}]
    /\ sync \in BOOLEAN
    /\ pc \in [Threads -> {"out", "asleep", "woken", "signal"}]

\* The content of the ring, oldest item first.
Content == [i \in 1..counter |-> buffer[(front + i - 1) % buf_sz]]

(* The ring buffer is a bounded FIFO queue: whatever the interleaving of   *)
(* enqueue and dequeue and however often front and rear have gone round,   *)
(* the item handed out is the oldest one, and no item is overwritten.      *)
FIFO == INSTANCE BoundedFIFO WITH Capacity <- buf_sz, items <- Content

IsBoundedFIFO == FIFO!Spec

InCall(S, where) == {t \in S : pc[t] = where}

(* No consumer sleeps through an item: while consumers sleep, each item in *)
(* the queue is matched by a producer that has still to signal or by a     *)
(* consumer that was woken and has still to test.  The signal is sent      *)
(* after UNLOCK_, so a fresh consumer may take the item in between.  The   *)
(* same for producers and free cells.                                      *)
NobodySleepsThrough ==
    /\ Sleepers(Consumers) # {} =>
          counter <= Cardinality(InCall(Producers, "signal"))
                       + Cardinality(InCall(Consumers, "woken"))
    /\ Sleepers(Producers) # {} =>
          buf_sz - counter <= Cardinality(InCall(Consumers, "signal"))
                                + Cardinality(InCall(Producers, "woken"))

(* A consumer asleep on a queue that holds an item is woken, or others     *)
(* empty the queue; it is never left there for good.  The same for a       *)
(* producer asleep on a queue that has room.                               *)
SleepersServed ==
    /\ \A c \in Consumers :
          (pc[c] = "asleep" /\ counter > 0) ~> (pc[c] # "asleep" \/ counter = 0)
    /\ \A p \in Producers :
          (pc[p] = "asleep" /\ ~queue_is_full) ~> (pc[p] # "asleep" \/ queue_is_full)
=============================================================================
