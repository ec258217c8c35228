----------------------------- MODULE BoundedFIFO -----------------------------
(***************************************************************************)
(* What src/include/queue.h promises: items come out in the order in which *)
(* they went in, and never more than Capacity of them are inside.  The     *)
(* ring buffer of queue.c is shown to implement it (Queue.tla), and        *)
(* JobScheduler.tla uses it for the two queues of the scheduler.           *)
(***************************************************************************)
EXTENDS Integers, Sequences

CONSTANTS Items, Capacity

VARIABLE items

Empty == items = <<>>

Full == Len(items) >= Capacity

Init == items = <<>>

Put(x) == ~Full /\ items' = Append(items, x)

Get == ~Empty /\ items' = Tail(items)

Next == Get \/ \E x \in Items : Put(x)

Spec == Init /\ [][Next]_items
=============================================================================
