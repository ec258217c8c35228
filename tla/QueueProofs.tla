----------------------------- MODULE QueueProofs -----------------------------
(***************************************************************************)
(* Proofs about Queue, for any number of producers, consumers and cells:   *)
(* the ring buffer is a bounded FIFO queue, and no thread sleeps on its    *)
(* condition variable while there is something for it to do.               *)
(*                                                                         *)
(* The inductive invariant adds to the types that rear is where the item   *)
(* after the last one goes, and that no thread is inside a synchronised    *)
(* call of a queue whose callers do without.                               *)
(***************************************************************************)
EXTENDS Queue, FiniteSetTheorems, SequenceTheorems, TLAPS

Cells == 0..(buf_sz - 1)

\* The cell that is i places after cell f.
Slot(f, i) == (f + i) % buf_sz

RingOK == rear = Slot(front, counter)

CallsOK == ~sync => \A t \in Threads : pc[t] = "out"

TypeInv == TypeOK /\ RingOK /\ CallsOK

-----------------------------------------------------------------------------
(* The arithmetic of the ring *)

(* An index that is less than two rounds is wrapped at most once. *)
LEMMA Slots ==
    /\ buf_sz \in Nat \ {0}
    /\ \A f \in Cells, i \in 0..buf_sz :
          /\ Slot(f, i) = IF f + i < buf_sz THEN f + i ELSE f + i - buf_sz
          /\ Slot(f, i) \in Cells
    /\ \A f \in Cells : Slot(f, 0) = f /\ Slot(f, buf_sz) = f
    /\ \A f \in Cells : NextSlot(f) = Slot(f, 1)
<1>1. buf_sz \in Nat \ {0}
  BY QueueAssumption
<1>2. ASSUME NEW f \in Cells, NEW i \in 0..buf_sz
      PROVE  /\ Slot(f, i) = IF f + i < buf_sz THEN f + i ELSE f + i - buf_sz
             /\ Slot(f, i) \in Cells
  <2>1. f \in Nat /\ f < buf_sz /\ i \in Nat /\ i <= buf_sz
    BY <1>1 DEF Cells
  <2>2. CASE f + i < buf_sz
    BY <1>1, <2>1, <2>2 DEF Slot, Cells
  <2>3. CASE f + i >= buf_sz
    <3>1. f + i = buf_sz * 1 + (f + i - buf_sz) /\ f + i - buf_sz \in 0..(buf_sz - 1)
      BY <1>1, <2>1, <2>3
    <3>2. (f + i) % buf_sz = f + i - buf_sz
      BY <1>1, <2>1, <3>1
    <3>3. QED
      BY <1>1, <2>1, <2>3, <3>1, <3>2 DEF Slot, Cells
  <2>4. QED
    BY <1>1, <2>1, <2>2, <2>3
<1>3. 0 \in 0..buf_sz /\ buf_sz \in 0..buf_sz
  BY <1>1
<1>4. \A f \in Cells : Slot(f, 0) = f /\ Slot(f, buf_sz) = f
  BY <1>1, <1>2, <1>3 DEF Cells
<1>5. \A f \in Cells : NextSlot(f) = Slot(f, 1)
  BY DEF NextSlot, Slot
<1>6. QED
  BY <1>1, <1>2, <1>4, <1>5

(* Less than a round apart, the cells are different. *)
LEMMA SlotsDiffer ==
    ASSUME NEW f \in Cells, NEW i \in 0..(buf_sz - 1), NEW k \in 0..(buf_sz - 1),
           Slot(f, i) = Slot(f, k)
    PROVE  i = k
<1>1. buf_sz \in Nat \ {0}
  BY Slots
<1>2. i \in 0..buf_sz /\ k \in 0..buf_sz
  BY <1>1
<1>3. PICK g \in Cells :
         /\ g = Slot(f, i) /\ g = IF f + i < buf_sz THEN f + i ELSE f + i - buf_sz
  BY <1>2, Slots
<1>4. PICK h \in Cells :
         /\ h = Slot(f, k) /\ h = IF f + k < buf_sz THEN f + k ELSE f + k - buf_sz
  BY <1>2, Slots
<1>5. g = h
  BY <1>3, <1>4
<1>6. QED
  BY <1>1, <1>3, <1>4, <1>5 DEF Cells

(* From the next cell one goes one place less. *)
LEMMA SlotsShift ==
    ASSUME NEW f \in Cells, NEW i \in 0..(buf_sz - 1)
    PROVE  Slot(Slot(f, 1), i) = Slot(f, i + 1) /\ Slot(Slot(f, i), 1) = Slot(f, i + 1)
<1>1. buf_sz \in Nat \ {0}
  BY Slots
<1>2. 1 \in 0..buf_sz /\ i \in 0..buf_sz /\ i + 1 \in 0..buf_sz
  BY <1>1
<1>3. PICK g \in Cells, h \in Cells :
         /\ g = Slot(f, 1) /\ g = IF f + 1 < buf_sz THEN f + 1 ELSE f + 1 - buf_sz
         /\ h = Slot(f, i) /\ h = IF f + i < buf_sz THEN f + i ELSE f + i - buf_sz
  BY <1>2, Slots
<1>4. /\ Slot(g, i) = IF g + i < buf_sz THEN g + i ELSE g + i - buf_sz
      /\ Slot(h, 1) = IF h + 1 < buf_sz THEN h + 1 ELSE h + 1 - buf_sz
      /\ Slot(f, i + 1) = IF f + (i + 1) < buf_sz THEN f + (i + 1) ELSE f + (i + 1) - buf_sz
  BY <1>2, Slots
<1>5. Slot(g, i) = Slot(f, i + 1) /\ Slot(h, 1) = Slot(f, i + 1)
  BY <1>1, <1>3, <1>4 DEF Cells
<1>6. QED
  BY <1>3, <1>5

-----------------------------------------------------------------------------
(* Types *)

\* What a step does to the ring, and what it leaves of sync.
RingStep ==
    /\ sync' = sync
    /\ \/ UNCHANGED ring
       \/ ~queue_is_full /\ \E x \in Items : enqueue(x)
       \/ ~queue_is_empty /\ dequeue

(* Each step changes the ring in one of these ways. *)
LEMMA RingSteps ==
    ASSUME [Next]_vars
    PROVE  RingStep
BY DEF Next, vars, Produce, Consume, EnqueueSleep, Enqueue, DequeueSleep, Dequeue, Signal,
   Unblock, TryEnqueue, TryDequeue, AtTest, RingStep

\* The fields of the ring, when there is room or an item.
RingType == /\ buf_sz \in Nat \ {0} /\ front \in Cells /\ rear \in Cells
            /\ counter \in 0..buf_sz /\ buffer \in [Cells -> Items \cup {Zero}]

(* What an enqueue does to the ring. *)
LEMMA EnqueueRing ==
    ASSUME TypeInv, NEW x \in Items, enqueue(x), ~queue_is_full
    PROVE  /\ RingType /\ RingType' /\ RingOK'
           /\ counter \in 0..(buf_sz - 1) /\ counter' = counter + 1 /\ front' = front
           /\ buffer' = [buffer EXCEPT ![Slot(front, counter)] = x]
<1>1. RingType /\ counter \in 0..(buf_sz - 1)
  BY Slots DEF TypeInv, TypeOK, Cells, RingType, queue_is_full
<1>2. /\ front' = front /\ counter' = counter + 1 /\ rear' = NextSlot(rear)
      /\ buffer' = [buffer EXCEPT ![rear] = x] /\ rear = Slot(front, counter)
  BY DEF enqueue, TypeInv, RingOK
<1>3. rear' = Slot(front, counter + 1)
  BY <1>1, <1>2, Slots, SlotsShift DEF RingType
<1>4. counter + 1 \in 0..buf_sz
  BY <1>1, Slots
<1>5. rear' \in Cells
  BY <1>1, <1>3, <1>4, Slots DEF RingType
<1>6. buffer' \in [Cells -> Items \cup {Zero}]
  BY <1>1, <1>2 DEF RingType
<1>7. QED
  BY <1>1, <1>2, <1>3, <1>4, <1>5, <1>6 DEF RingType, RingOK

(* What a dequeue does to the ring. *)
LEMMA DequeueRing ==
    ASSUME TypeInv, dequeue, ~queue_is_empty
    PROVE  /\ RingType /\ RingType' /\ RingOK'
           /\ counter \in 1..buf_sz /\ counter' = counter - 1 /\ front' = Slot(front, 1)
           /\ buffer' = [buffer EXCEPT ![front] = Zero]
<1>1. RingType /\ counter \in 1..buf_sz
  BY Slots DEF TypeInv, TypeOK, Cells, RingType, queue_is_empty
<1>2. /\ front' = NextSlot(front) /\ counter' = counter - 1 /\ rear' = rear
      /\ buffer' = [buffer EXCEPT ![front] = Zero] /\ rear = Slot(front, counter)
  BY DEF dequeue, TypeInv, RingOK
<1>3. front' = Slot(front, 1)
  BY <1>1, <1>2, Slots DEF RingType
<1>4. 1 \in 0..buf_sz /\ counter - 1 \in 0..(buf_sz - 1) /\ (counter - 1) + 1 = counter
      /\ counter - 1 \in 0..buf_sz
  BY <1>1, Slots
<1>5. front' \in Cells
  BY <1>1, <1>3, <1>4, Slots DEF RingType
<1>6. Slot(Slot(front, 1), counter - 1) = Slot(front, counter)
  BY <1>1, <1>4, SlotsShift DEF RingType
<1>7. buffer' \in [Cells -> Items \cup {Zero}]
  BY <1>1, <1>2 DEF RingType
<1>8. QED
  BY <1>1, <1>2, <1>3, <1>4, <1>5, <1>6, <1>7 DEF RingType, RingOK

(* The ring after any step. *)
LEMMA RingTypes ==
    ASSUME TypeInv, RingStep
    PROVE  RingType /\ RingType' /\ RingOK'
<1>1. CASE UNCHANGED ring
  BY <1>1, Slots DEF TypeInv, TypeOK, RingOK, ring, RingType, Cells
<1>2. QED
  BY <1>1, EnqueueRing, DequeueRing DEF RingStep

Places == {"out", "asleep", "woken", "signal"}

(* The places of the threads after a step. *)
LEMMA PlaceTypes ==
    ASSUME TypeInv, [Next]_vars
    PROVE  /\ sync' \in BOOLEAN /\ CallsOK'
           /\ pc' \in [Threads -> Places]
<1>1. pc \in [Threads -> Places] /\ sync' = sync /\ sync \in BOOLEAN
  BY RingSteps DEF TypeInv, TypeOK, RingStep, Places
<1>2. \/ pc' = pc
      \/ /\ sync \/ \E t \in Threads : pc[t] # "out"
         /\ pc' \in [Threads -> Places]
  BY <1>1 DEF Next, vars, Produce, Consume, EnqueueSleep, Enqueue, DequeueSleep, Dequeue,
     Signal, Unblock, TryEnqueue, TryDequeue, AtTest, Sleepers, Threads, Places
<1>3. QED
  BY <1>1, <1>2 DEF CallsOK, TypeInv

(* The indices of the ring stay inside the buffer, counter never leaves    *)
(* 0..buf_sz, and rear is always counter places after front: the three     *)
(* fields that enqueue and dequeue keep separately agree (queue.c:33-44).  *)
THEOREM Types == Spec => []TypeInv
<1>1. queue_create => TypeInv
  <2> SUFFICES ASSUME queue_create PROVE TypeInv
    OBVIOUS
  <2>1. TypeOK
    BY QueueAssumption DEF queue_create, TypeOK
  <2>2. 0 \in Cells
    BY Slots DEF Cells
  <2>3. RingOK
    BY <2>2, Slots DEF queue_create, RingOK
  <2>4. QED
    BY <2>1, <2>3 DEF queue_create, TypeInv, CallsOK
<1>2. TypeInv /\ [Next]_vars => TypeInv'
  BY RingSteps, RingTypes, PlaceTypes DEF TypeInv, TypeOK, RingType, Cells, Places
<1>3. QED
  BY <1>1, <1>2, PTL DEF Spec

-----------------------------------------------------------------------------
(* The ring as a FIFO queue *)

\* Buffer b with x in cell c.
Overwrite(b, c, x) == [b EXCEPT ![c] = x]

\* The items of a ring that starts at f and holds n of them, in buffer b.
RingItems(f, n, b) == [i \in 1..n |-> b[Slot(f, i - 1)]]

(* Content in these words. *)
LEMMA ContentIsRing ==
    ASSUME NEW f \in Nat, NEW n \in Nat, NEW b
    PROVE  [i \in 1..n |-> b[(f + i - 1) % buf_sz]] = RingItems(f, n, b)
<1>1. \A i \in 1..n : f + i - 1 = f + (i - 1)
  OBVIOUS
<1>2. \A i \in 1..n : b[(f + i - 1) % buf_sz] = b[Slot(f, i - 1)]
  BY <1>1 DEF Slot
<1>3. QED
  BY Zenon, <1>2 DEF RingItems

(* The items of a ring are a sequence. *)
LEMMA RingSeq ==
    ASSUME NEW f \in Cells, NEW n \in 0..buf_sz, NEW S, NEW b \in [Cells -> S]
    PROVE  /\ RingItems(f, n, b) \in Seq(S)
           /\ Len(RingItems(f, n, b)) = n
           /\ \A i \in 1..n : /\ RingItems(f, n, b)[i] = b[Slot(f, i - 1)]
                              /\ Slot(f, i - 1) \in Cells
<1>1. n \in Nat /\ buf_sz \in Nat \ {0}
  BY Slots
<1>2. ASSUME NEW i \in 1..n PROVE Slot(f, i - 1) \in Cells
  <2>1. i - 1 \in 0..buf_sz
    BY <1>1
  <2>2. QED
    BY <2>1, Slots
<1>3. RingItems(f, n, b) \in [1..n -> S]
  BY <1>2 DEF RingItems
<1>4. RingItems(f, n, b) \in Seq(S)
  BY <1>1, <1>3, SeqDef
<1>5. QED
  BY <1>1, <1>2, <1>3, <1>4 DEF RingItems

(* A sequence one longer than s. *)
LEMMA IsAppend ==
    ASSUME NEW S, NEW s \in Seq(S), NEW t \in Seq(S), NEW x \in S,
           Len(t) = Len(s) + 1, t[Len(s) + 1] = x, \A i \in 1..Len(s) : t[i] = s[i]
    PROVE  t = Append(s, x)
<1>1. /\ Append(s, x) \in Seq(S) /\ Len(Append(s, x)) = Len(s) + 1 /\ Len(s) \in Nat
      /\ \A i \in 1..Len(s) : Append(s, x)[i] = s[i]
      /\ Append(s, x)[Len(s) + 1] = x
  OBVIOUS
<1>2. \A i \in 1..Len(t) : t[i] = Append(s, x)[i]
  <2> SUFFICES ASSUME NEW i \in 1..Len(t) PROVE t[i] = Append(s, x)[i]
    OBVIOUS
  <2>1. i \in 1..Len(s) \/ i = Len(s) + 1
    BY <1>1
  <2>2. QED
    BY <1>1, <2>1
<1>3. QED
  BY <1>1, <1>2, SeqEqual

(* A sequence one shorter than s. *)
LEMMA IsTail ==
    ASSUME NEW S, NEW s \in Seq(S), NEW t \in Seq(S), s # <<>>,
           Len(t) = Len(s) - 1, \A i \in 1..Len(t) : t[i] = s[i + 1]
    PROVE  t = Tail(s)
BY HeadTailProperties, SeqEqual

(* An item written after the last one is the last one. *)
LEMMA RingGrows ==
    ASSUME NEW f \in Cells, NEW n \in 0..(buf_sz - 1), NEW S, NEW b \in [Cells -> S],
           NEW x \in S
    PROVE  RingItems(f, n + 1, Overwrite(b, Slot(f, n), x)) = Append(RingItems(f, n, b), x)
<1> DEFINE m == n + 1
           c == Overwrite(b, Slot(f, n), x)
           s == RingItems(f, n, b)
           t == RingItems(f, m, c)
<1>1. n \in 0..buf_sz /\ m \in 0..buf_sz /\ buf_sz \in Nat
  BY Slots
<1>2. Slot(f, n) \in Cells
  BY <1>1, Slots
<1>3. c \in [Cells -> S]
  BY DEF Overwrite
<1> HIDE DEF m, c
<1>4. /\ s \in Seq(S) /\ Len(s) = n
      /\ \A i \in 1..n : s[i] = b[Slot(f, i - 1)] /\ Slot(f, i - 1) \in Cells
  BY <1>1, RingSeq
<1>5. /\ t \in Seq(S) /\ Len(t) = m
      /\ \A i \in 1..m : t[i] = c[Slot(f, i - 1)]
  BY <1>1, <1>3, RingSeq
<1> HIDE DEF s, t
<1>6. ASSUME NEW i \in 1..n PROVE t[i] = s[i]
  <2>1. i - 1 \in 0..(buf_sz - 1) /\ i - 1 # n /\ i \in 1..m
    BY <1>1 DEF m
  <2>2. Slot(f, i - 1) # Slot(f, n)
    BY <2>1, SlotsDiffer
  <2>3. QED
    BY <1>4, <1>5, <2>1, <2>2 DEF c, Overwrite
<1>7. t[n + 1] = x
  <2>1. n + 1 \in 1..m /\ (n + 1) - 1 = n
    BY <1>1 DEF m
  <2>2. QED
    BY <1>2, <1>5, <2>1 DEF c, Overwrite
<1>8. t = Append(s, x)
  BY <1>4, <1>5, <1>6, <1>7, IsAppend DEF m
<1>9. QED
  BY <1>8 DEF s, t, m, c

(* The ring from the next cell on is the rest, whatever is in the first. *)
LEMMA RingShrinks ==
    ASSUME NEW f \in Cells, NEW n \in 1..buf_sz, NEW S, NEW b \in [Cells -> S], NEW z \in S
    PROVE  /\ RingItems(f, n, b) # <<>>
           /\ RingItems(Slot(f, 1), n - 1, Overwrite(b, f, z)) = Tail(RingItems(f, n, b))
<1> DEFINE m == n - 1
           c == Overwrite(b, f, z)
           g == Slot(f, 1)
           s == RingItems(f, n, b)
           t == RingItems(g, m, c)
<1>1. /\ n \in 0..buf_sz /\ m \in 0..buf_sz /\ 1 \in 0..buf_sz
      /\ buf_sz \in Nat \ {0} /\ 0 \in 0..(buf_sz - 1)
  BY Slots
<1>2. g \in Cells
  BY <1>1, Slots
<1>3. c \in [Cells -> S]
  BY DEF Overwrite
<1> HIDE DEF m, c, g
<1>4. /\ s \in Seq(S) /\ Len(s) = n
      /\ \A i \in 1..n : s[i] = b[Slot(f, i - 1)] /\ Slot(f, i - 1) \in Cells
  BY <1>1, RingSeq
<1>5. /\ t \in Seq(S) /\ Len(t) = m
      /\ \A i \in 1..m : t[i] = c[Slot(g, i - 1)]
  <2>1. t \in Seq(S) /\ Len(t) = m
    BY <1>1, <1>2, <1>3, RingSeq
  <2>2. \A i \in 1..m : t[i] = c[Slot(g, i - 1)]
    BY DEF RingItems
  <2>3. QED
    BY <2>1, <2>2
<1> HIDE DEF s, t
<1>6. s # <<>>
  BY <1>4
<1>7. ASSUME NEW i \in 1..Len(t) PROVE t[i] = s[i + 1]
  <2>1. /\ i - 1 \in 0..(buf_sz - 1) /\ (i - 1) + 1 = i /\ (i + 1) - 1 = i
        /\ i \in 1..m /\ i + 1 \in 1..n /\ i \in 0..(buf_sz - 1) /\ i # 0
    BY <1>1, <1>5 DEF m
  <2>2. Slot(g, i - 1) = Slot(f, i)
    BY <2>1, SlotsShift DEF g
  <2>3. Slot(f, i) # Slot(f, 0) /\ Slot(f, 0) = f
    BY <1>1, <2>1, Slots, SlotsDiffer
  <2>4. Slot(f, i) \in Cells /\ s[i + 1] = b[Slot(f, i)]
    BY <1>4, <2>1
  <2>5. QED
    BY <1>5, <2>1, <2>2, <2>3, <2>4 DEF c, Overwrite
<1>8. t = Tail(s)
  BY <1>1, <1>4, <1>5, <1>6, <1>7, IsTail DEF m
<1>9. QED
  BY <1>6, <1>8 DEF s, t, m, c, g

(* The same of the fields of the queue. *)
LEMMA ContentGrows ==
    ASSUME NEW S, NEW x \in S, front \in Cells, counter \in 0..(buf_sz - 1),
           buffer \in [Cells -> S]
    PROVE  RingItems(front, counter + 1, Overwrite(buffer, Slot(front, counter), x))
             = Append(RingItems(front, counter, buffer), x)
BY SMT, RingGrows

(* The ring buffer implements a bounded FIFO queue, for any size and any   *)
(* number of producers and consumers, synchronised or not: no item is      *)
(* lost, doubled, overwritten or handed out of turn however often front    *)
(* and rear go round the buffer (queue.c:33-44, 104-152).                  *)
THEOREM ImplementsFIFO == Spec => IsBoundedFIFO
<1>1. queue_create => FIFO!Init
  <2> SUFFICES ASSUME queue_create PROVE Content = <<>>
    BY DEF FIFO!Init
  <2>1. counter = 0
    BY DEF queue_create
  <2>2. QED
    BY <2>1 DEF Content
<1>2. TypeInv /\ [Next]_vars => [FIFO!Next]_Content
  <2> SUFFICES ASSUME TypeInv, [Next]_vars
               PROVE  [FIFO!Next]_Content
    OBVIOUS
  <2>1. RingType /\ RingType'
    BY RingSteps, RingTypes
  <2>2. front \in Nat /\ counter \in Nat /\ front' \in Nat /\ counter' \in Nat
    BY <2>1 DEF RingType, Cells
  <2>3. Content = RingItems(front, counter, buffer)
    BY <2>2, ContentIsRing DEF Content
  <2>4. Content' = RingItems(front', counter', buffer')
    BY <2>2, ContentIsRing DEF Content
  <2>5. CASE UNCHANGED ring
    BY <2>5 DEF ring, Content
  <2>6. ASSUME NEW x \in Items, enqueue(x), ~queue_is_full PROVE FIFO!Put(x)
    <3>1. /\ front \in Cells /\ counter \in 0..(buf_sz - 1) /\ x \in Items \cup {Zero}
          /\ buffer \in [Cells -> Items \cup {Zero}]
      BY <2>1, <2>6, EnqueueRing DEF RingType
    <3>2. Content' = Append(Content, x)
      <4>1. RingItems(front, counter + 1, Overwrite(buffer, Slot(front, counter), x))
              = Append(RingItems(front, counter, buffer), x)
        BY <3>1, ContentGrows
      <4>2. /\ counter' = counter + 1 /\ front' = front
            /\ buffer' = Overwrite(buffer, Slot(front, counter), x)
        BY <2>6, EnqueueRing DEF Overwrite
      <4>3. QED
        BY Zenon, <2>3, <2>4, <4>1, <4>2
    <3>3. Len(Content) = counter
      BY <2>1, <2>3, RingSeq DEF RingType
    <3>4. ~FIFO!Full
      BY <2>1, <2>6, <3>3 DEF FIFO!Full, queue_is_full, RingType
    <3>5. QED
      BY <3>2, <3>4 DEF FIFO!Put
  <2>7. ASSUME dequeue, ~queue_is_empty PROVE FIFO!Get
    <3>1. /\ front \in Cells /\ counter \in 1..buf_sz /\ Zero \in Items \cup {Zero}
          /\ buffer \in [Cells -> Items \cup {Zero}]
      BY <2>1, <2>7, DequeueRing DEF RingType
    <3>2. Content # <<>> /\ Content' = Tail(Content)
      <4>1. /\ RingItems(front, counter, buffer) # <<>>
            /\ RingItems(Slot(front, 1), counter - 1, Overwrite(buffer, front, Zero))
                 = Tail(RingItems(front, counter, buffer))
        BY <3>1, RingShrinks
      <4>2. /\ counter' = counter - 1 /\ front' = Slot(front, 1)
            /\ buffer' = Overwrite(buffer, front, Zero)
        BY <2>7, DequeueRing DEF Overwrite
      <4>3. QED
        BY Zenon, <2>3, <2>4, <4>1, <4>2
    <3>3. QED
      BY <3>2 DEF FIFO!Get, FIFO!Empty
  <2>8. QED
    BY <2>5, <2>6, <2>7, RingSteps DEF RingStep, FIFO!Next
<1>3. QED
  BY <1>1, <1>2, Types, PTL DEF Spec, IsBoundedFIFO, FIFO!Spec

-----------------------------------------------------------------------------
(* Nobody sleeps through *)

\* How many of the threads S are at a place.
Many(S, where) == Cardinality(InCall(S, where))

\* In a step no thread of S moves, or t alone does, to a place.
Stay(S) == \A u \in S : pc'[u] = pc[u]

MovesAlone(S, t, to) ==
    t \in S /\ pc'[t] = to /\ \A u \in S : u # t => pc'[u] = pc[u]

(* The threads at a place are finitely many. *)
LEMMA CountType ==
    ASSUME NEW S, IsFiniteSet(S), NEW where
    PROVE  IsFiniteSet(InCall(S, where)) /\ Many(S, where) \in Nat
<1>1. InCall(S, where) \subseteq S
  BY DEF InCall
<1>2. QED
  BY <1>1, FS_Subset, FS_CardinalityType DEF Many

(* Nobody moves: the counts are the same. *)
LEMMA CountStays ==
    ASSUME NEW S, Stay(S), NEW where
    PROVE  InCall(S, where)' = InCall(S, where) /\ Many(S, where)' = Many(S, where)
<1>1. InCall(S, where)' = InCall(S, where)
  BY DEF InCall, Stay
<1>2. QED
  BY <1>1 DEF Many

(* One thread that moves changes the counts of the place it leaves and of  *)
(* the one it comes to.                                                    *)
LEMMA CountMoves ==
    ASSUME NEW S, IsFiniteSet(S), NEW t, NEW to, MovesAlone(S, t, to), NEW where
    PROVE  /\ InCall(S, where)' = IF to = where THEN InCall(S, where) \cup {t}
                                  ELSE InCall(S, where) \ {t}
           /\ Many(S, where)' = IF to = where
                             THEN IF pc[t] = where THEN Many(S, where) ELSE Many(S, where) + 1
                             ELSE IF pc[t] = where THEN Many(S, where) - 1 ELSE Many(S, where)
<1>1. InCall(S, where)' = IF to = where THEN InCall(S, where) \cup {t}
                          ELSE InCall(S, where) \ {t}
  BY DEF InCall, MovesAlone
<1>2. t \in InCall(S, where) <=> pc[t] = where
  BY DEF InCall, MovesAlone
<1>3. /\ Cardinality(InCall(S, where) \cup {t})
           = IF pc[t] = where THEN Many(S, where) ELSE Many(S, where) + 1
      /\ Cardinality(InCall(S, where) \ {t})
           = IF pc[t] = where THEN Many(S, where) - 1 ELSE Many(S, where)
  BY <1>2, CountType, FS_AddElement, FS_RemoveElement DEF Many
<1>4. Many(S, where)' = Cardinality(InCall(S, where)')
  BY DEF Many
<1>5. QED
  BY Zenon, <1>1, <1>3, <1>4

\* While threads of R sleep, the n things they wait for are matched by threads
\* of S that have still to signal, or of R that have still to look.
Matched(R, S, n) ==
    Sleepers(R) # {} => n <= Many(S, "signal") + Many(R, "woken")

\* What a step is to R that waits and S that is waited for, n becoming m.
MatchStep(R, S, n, m) ==
    \/ \E r : MovesAlone(R, r, "asleep") /\ Stay(S) /\ m = 0
    \/ \E s : MovesAlone(S, s, "asleep") /\ pc[s] # "signal" /\ Stay(R) /\ m = n
    \/ \E s : MovesAlone(S, s, "signal") /\ pc[s] # "signal" /\ Stay(R) /\ m = n + 1
    \/ \E r : /\ MovesAlone(R, r, "signal") /\ pc[r] \in {"out", "woken"} /\ Stay(S)
              /\ m = n - 1
    \/ \E s, r : /\ MovesAlone(S, s, "out") /\ MovesAlone(R, r, "woken") /\ pc[r] = "asleep"
                 /\ m = n
    \/ Stay(R) /\ Sleepers(R) = {}
    \/ /\ Stay(S) \/ \E s : MovesAlone(S, s, "woken") /\ pc[s] = "asleep"
       /\ \/ Stay(R)
          \/ \E r : MovesAlone(R, r, "out") /\ pc[r] = "signal"
          \/ \E r : MovesAlone(R, r, "woken") /\ pc[r] = "asleep"
       /\ m = n

(* Such a step keeps them matched. *)
LEMMA MatchKept ==
    ASSUME NEW R, NEW S, IsFiniteSet(R), IsFiniteSet(S), NEW n \in Nat, NEW m \in Nat,
           Matched(R, S, n), MatchStep(R, S, n, m)
    PROVE  Sleepers(R)' # {} => m <= Many(S, "signal")' + Many(R, "woken")'
<1>1. /\ Many(S, "signal") \in Nat /\ Many(R, "woken") \in Nat
      /\ Many(S, "signal")' \in Nat /\ Many(R, "woken")' \in Nat
  <2>1. \A where : Many(S, where) \in Nat /\ Many(R, where) \in Nat
    BY CountType
  <2>2. \A T : IsFiniteSet(T) => IsFiniteSet(InCall(T, "signal")') /\ IsFiniteSet(InCall(T, "woken")')
    <3>1. \A T : InCall(T, "signal")' \subseteq T /\ InCall(T, "woken")' \subseteq T
      BY DEF InCall
    <3>2. QED
      BY <3>1, FS_Subset
  <2>3. QED
    BY <2>1, <2>2, FS_CardinalityType DEF Many
<1>2. Sleepers(R) = InCall(R, "asleep") /\ Sleepers(R)' = InCall(R, "asleep")'
  BY DEF Sleepers, InCall
<1>3. ASSUME NEW r, MovesAlone(R, r, "asleep"), Stay(S), m = 0
      PROVE  m <= Many(S, "signal")' + Many(R, "woken")'
  BY <1>1, <1>3
<1>4. ASSUME NEW s, MovesAlone(S, s, "asleep"), pc[s] # "signal", Stay(R), m = n
      PROVE  Sleepers(R)' # {} => m <= Many(S, "signal")' + Many(R, "woken")'
  <2>1. Many(S, "signal")' = Many(S, "signal")
    BY <1>4, CountMoves
  <2>2. Sleepers(R)' = Sleepers(R) /\ Many(R, "woken")' = Many(R, "woken")
    BY <1>2, <1>4, CountStays
  <2>3. QED
    BY <1>4, <2>1, <2>2 DEF Matched
<1>5. ASSUME NEW s, MovesAlone(S, s, "signal"), pc[s] # "signal", Stay(R), m = n + 1
      PROVE  Sleepers(R)' # {} => m <= Many(S, "signal")' + Many(R, "woken")'
  <2>1. Many(S, "signal")' = Many(S, "signal") + 1
    BY <1>5, CountMoves
  <2>2. Sleepers(R)' = Sleepers(R) /\ Many(R, "woken")' = Many(R, "woken")
    BY <1>2, <1>5, CountStays
  <2>3. QED
    BY <1>1, <1>5, <2>1, <2>2 DEF Matched
<1>6. ASSUME NEW r, MovesAlone(R, r, "signal"), pc[r] \in {"out", "woken"}, Stay(S), m = n - 1
      PROVE  Sleepers(R)' # {} => m <= Many(S, "signal")' + Many(R, "woken")'
  <2>1. Many(R, "woken")' \in {Many(R, "woken"), Many(R, "woken") - 1}
    BY <1>6, CountMoves
  <2>2. Sleepers(R)' \subseteq Sleepers(R)
    BY <1>2, <1>6, CountMoves
  <2>3. Many(S, "signal")' = Many(S, "signal")
    BY <1>6, CountStays
  <2>4. QED
    BY <1>1, <1>6, <2>1, <2>2, <2>3 DEF Matched
<1>7. ASSUME NEW s, NEW r, MovesAlone(S, s, "out"), MovesAlone(R, r, "woken"),
             pc[r] = "asleep", m = n
      PROVE  Sleepers(R)' # {} => m <= Many(S, "signal")' + Many(R, "woken")'
  <2>1. Many(R, "woken")' = Many(R, "woken") + 1
    BY <1>7, CountMoves
  <2>2. Sleepers(R)' \subseteq Sleepers(R)
    BY <1>2, <1>7, CountMoves
  <2>3. Many(S, "signal")' \in {Many(S, "signal"), Many(S, "signal") - 1}
    BY <1>7, CountMoves
  <2>4. QED
    BY <1>1, <1>7, <2>1, <2>2, <2>3 DEF Matched
<1>8. ASSUME Stay(R), Sleepers(R) = {}
      PROVE  Sleepers(R)' = {}
  BY <1>2, <1>8, CountStays
<1>9. ASSUME Stay(S) \/ \E s : MovesAlone(S, s, "woken") /\ pc[s] = "asleep",
             \/ Stay(R)
             \/ \E r : MovesAlone(R, r, "out") /\ pc[r] = "signal"
             \/ \E r : MovesAlone(R, r, "woken") /\ pc[r] = "asleep",
             m = n
      PROVE  Sleepers(R)' # {} => m <= Many(S, "signal")' + Many(R, "woken")'
  <2>1. Many(S, "signal")' = Many(S, "signal")
    BY <1>9, CountStays, CountMoves
  <2>2. Sleepers(R)' \subseteq Sleepers(R)
    BY <1>2, <1>9, CountStays, CountMoves
  <2>3. Many(R, "woken")' \in {Many(R, "woken"), Many(R, "woken") + 1}
    BY <1>9, CountStays, CountMoves
  <2>4. QED
    BY <1>1, <1>9, <2>1, <2>2, <2>3 DEF Matched
<1>10. QED
  BY <1>3, <1>4, <1>5, <1>6, <1>7, <1>8, <1>9 DEF MatchStep

(* A thread that moves alone, seen from both sides. *)
LEMMA MovesOne ==
    ASSUME TypeInv, NEW t \in Threads, NEW to \in Places, pc' = [pc EXCEPT ![t] = to]
    PROVE  /\ t \in Producers => MovesAlone(Producers, t, to) /\ Stay(Consumers)
           /\ t \in Consumers => MovesAlone(Consumers, t, to) /\ Stay(Producers)
<1>1. pc \in [Threads -> Places] /\ Producers \cap Consumers = {}
      /\ Threads = Producers \cup Consumers
  BY QueueAssumption DEF TypeInv, TypeOK, Threads, Places
<1>2. pc'[t] = to /\ \A u \in Threads : u # t => pc'[u] = pc[u]
  BY <1>1
<1>3. QED
  BY <1>1, <1>2 DEF MovesAlone, Stay

(* A thread that signals, and the sleeper of the other side that it wakes. *)
LEMMA MovesTwo ==
    ASSUME TypeInv, NEW t \in Threads, NEW s \in Threads, t # s,
           pc' = [pc EXCEPT ![t] = "out", ![s] = "woken"]
    PROVE  /\ t \in Producers /\ s \in Consumers
                => MovesAlone(Producers, t, "out") /\ MovesAlone(Consumers, s, "woken")
           /\ t \in Consumers /\ s \in Producers
                => MovesAlone(Consumers, t, "out") /\ MovesAlone(Producers, s, "woken")
<1>1. pc \in [Threads -> Places] /\ Producers \cap Consumers = {}
      /\ Threads = Producers \cup Consumers
  BY QueueAssumption DEF TypeInv, TypeOK, Threads, Places
<1>2. /\ pc'[t] = "out" /\ pc'[s] = "woken"
      /\ \A u \in Threads : u # t /\ u # s => pc'[u] = pc[u]
  BY <1>1
<1>3. QED
  BY <1>1, <1>2 DEF MovesAlone

\* Both sides of NobodySleepsThrough.
BothStep == /\ MatchStep(Consumers, Producers, counter, counter')
            /\ MatchStep(Producers, Consumers, buf_sz - counter, buf_sz - counter')

(* Every step is such a step for both sides. *)
LEMMA MatchSteps ==
    ASSUME TypeInv, [Next]_vars
    PROVE  BothStep
<1>1. /\ counter \in Nat /\ buf_sz \in Nat
      /\ \A t \in Producers \cup Consumers : t \in Threads
  BY QueueAssumption DEF TypeInv, TypeOK, Threads
<1> USE DEF MatchStep, BothStep
<1>2. ASSUME NEW p \in Producers, EnqueueSleep(p) PROVE BothStep
  <2>1. pc' = [pc EXCEPT ![p] = "asleep"] /\ pc[p] # "signal"
        /\ counter' = counter /\ counter = buf_sz
    BY <1>2 DEF EnqueueSleep, AtTest, ring, queue_is_full
  <2>2. MovesAlone(Producers, p, "asleep") /\ Stay(Consumers)
    BY <1>1, <2>1, MovesOne DEF Places
  <2>3. QED
    BY <1>1, <2>1, <2>2
<1>3. ASSUME NEW p \in Producers, NEW x \in Items, Enqueue(p, x) PROVE BothStep
  <2>1. pc' = [pc EXCEPT ![p] = "signal"] /\ pc[p] \in {"out", "woken"}
        /\ counter' = counter + 1
    BY <1>3 DEF Enqueue, AtTest, enqueue
  <2>2. MovesAlone(Producers, p, "signal") /\ Stay(Consumers)
    BY <1>1, <2>1, MovesOne DEF Places
  <2>3. buf_sz - counter' = (buf_sz - counter) - 1
    BY <1>1, <2>1
  <2>4. QED
    BY <2>1, <2>2, <2>3
<1>4. ASSUME NEW c \in Consumers, DequeueSleep(c) PROVE BothStep
  <2>1. pc' = [pc EXCEPT ![c] = "asleep"] /\ pc[c] # "signal"
        /\ counter' = counter /\ counter = 0
    BY <1>1, <1>4 DEF DequeueSleep, AtTest, ring, queue_is_empty
  <2>2. MovesAlone(Consumers, c, "asleep") /\ Stay(Producers)
    BY <1>1, <2>1, MovesOne DEF Places
  <2>3. QED
    BY <2>1, <2>2
<1>5. ASSUME NEW c \in Consumers, Dequeue(c) PROVE BothStep
  <2>1. pc' = [pc EXCEPT ![c] = "signal"] /\ pc[c] \in {"out", "woken"}
        /\ counter' = counter - 1
    BY <1>5 DEF Dequeue, AtTest, dequeue
  <2>2. MovesAlone(Consumers, c, "signal") /\ Stay(Producers)
    BY <1>1, <2>1, MovesOne DEF Places
  <2>3. buf_sz - counter' = (buf_sz - counter) + 1
    BY <1>1, <2>1
  <2>4. QED
    BY <2>1, <2>2, <2>3
<1>6. ASSUME NEW p \in Producers, Signal(p, Consumers) PROVE BothStep
  <2>1. pc[p] = "signal" /\ counter' = counter
    BY <1>6 DEF Signal, ring
  <2>2. CASE Sleepers(Consumers) = {} /\ pc' = [pc EXCEPT ![p] = "out"]
    <3>1. MovesAlone(Producers, p, "out") /\ Stay(Consumers)
      BY <1>1, <2>2, MovesOne DEF Places
    <3>2. QED
      BY <2>1, <2>2, <3>1
  <2>3. ASSUME NEW s \in Sleepers(Consumers), pc' = [pc EXCEPT ![p] = "out", ![s] = "woken"]
        PROVE  BothStep
    <3>1. s \in Consumers /\ pc[s] = "asleep"
      BY DEF Sleepers
    <3>2. MovesAlone(Producers, p, "out") /\ MovesAlone(Consumers, s, "woken")
      BY <1>1, <2>1, <2>3, <3>1, MovesTwo
    <3>3. QED
      BY <2>1, <3>1, <3>2
  <2>4. QED
    BY <1>6, <2>2, <2>3 DEF Signal
<1>7. ASSUME NEW c \in Consumers, Signal(c, Producers) PROVE BothStep
  <2>1. pc[c] = "signal" /\ counter' = counter
    BY <1>7 DEF Signal, ring
  <2>2. CASE Sleepers(Producers) = {} /\ pc' = [pc EXCEPT ![c] = "out"]
    <3>1. MovesAlone(Consumers, c, "out") /\ Stay(Producers)
      BY <1>1, <2>2, MovesOne DEF Places
    <3>2. QED
      BY <2>1, <2>2, <3>1
  <2>3. ASSUME NEW s \in Sleepers(Producers), pc' = [pc EXCEPT ![c] = "out", ![s] = "woken"]
        PROVE  BothStep
    <3>1. s \in Producers /\ pc[s] = "asleep"
      BY DEF Sleepers
    <3>2. MovesAlone(Consumers, c, "out") /\ MovesAlone(Producers, s, "woken")
      BY <1>1, <2>1, <2>3, <3>1, MovesTwo
    <3>3. QED
      BY <2>1, <3>1, <3>2
  <2>4. QED
    BY <1>7, <2>2, <2>3 DEF Signal
<1>8. CASE Unblock(Producers) \/ Unblock(Consumers)
  <2>1. counter' = counter
    BY <1>8 DEF Unblock, ring
  <2>2. \E s \in Threads : pc[s] = "asleep" /\ pc' = [pc EXCEPT ![s] = "woken"]
    BY <1>1, <1>8 DEF Unblock, Sleepers
  <2>3. \/ /\ \E s : MovesAlone(Producers, s, "woken") /\ pc[s] = "asleep"
           /\ Stay(Consumers)
        \/ /\ \E s : MovesAlone(Consumers, s, "woken") /\ pc[s] = "asleep"
           /\ Stay(Producers)
    BY <2>2, MovesOne DEF Places, Threads
  <2>4. QED
    BY <2>1, <2>3
<1>9. CASE ~sync /\ pc' = pc
  <2>1. Sleepers(Producers) = {} /\ Sleepers(Consumers) = {}
    BY <1>1, <1>9 DEF TypeInv, CallsOK, Sleepers
  <2>2. Stay(Producers) /\ Stay(Consumers)
    BY <1>9 DEF Stay
  <2>3. QED
    BY <2>1, <2>2
<1>10. CASE UNCHANGED vars
  <2>1. Stay(Producers) /\ Stay(Consumers) /\ counter' = counter
    BY <1>10 DEF vars, ring, Stay
  <2>2. QED
    BY <2>1
<1>11. QED
  BY <1>2, <1>3, <1>4, <1>5, <1>6, <1>7, <1>8, <1>9, <1>10
     DEF Next, Produce, Consume, TryEnqueue, TryDequeue

(* No consumer sleeps while there are more items than threads on their way *)
(* to wake it or to take them, and no producer while there is room, for    *)
(* any number of threads and cells, although the signal is sent after the  *)
(* mutex is released and any sleeper may be woken at any time              *)
(* (queue.c:104-152).                                                      *)
THEOREM NobodySleeps == Spec => []NobodySleepsThrough
<1>1. queue_create => NobodySleepsThrough
  <2> SUFFICES ASSUME queue_create PROVE NobodySleepsThrough
    OBVIOUS
  <2>1. Sleepers(Producers) = {} /\ Sleepers(Consumers) = {}
    BY DEF queue_create, Sleepers, Threads
  <2>2. QED
    BY <2>1 DEF NobodySleepsThrough
<1>2. TypeInv /\ TypeInv' /\ NobodySleepsThrough /\ [Next]_vars => NobodySleepsThrough'
  <2> SUFFICES ASSUME TypeInv, TypeInv', NobodySleepsThrough, [Next]_vars
               PROVE  NobodySleepsThrough'
    OBVIOUS
  <2>1. /\ counter \in Nat /\ counter' \in Nat
        /\ buf_sz - counter \in Nat /\ buf_sz - counter' \in Nat
        /\ IsFiniteSet(Producers) /\ IsFiniteSet(Consumers)
    <3>1. counter \in 0..buf_sz /\ counter' \in 0..buf_sz
      BY DEF TypeInv, TypeOK
    <3>2. buf_sz \in Nat /\ IsFiniteSet(Producers) /\ IsFiniteSet(Consumers)
      BY QueueAssumption
    <3>3. \A n \in 0..buf_sz : n \in Nat /\ buf_sz - n \in Nat
      BY <3>2
    <3>4. QED
      BY Zenon, <3>1, <3>2, <3>3
  <2>2. Matched(Consumers, Producers, counter) /\ Matched(Producers, Consumers, buf_sz - counter)
    BY DEF NobodySleepsThrough, Matched, Many
  <2>3. Sleepers(Consumers)' # {} =>
           counter' <= Many(Producers, "signal")' + Many(Consumers, "woken")'
    BY <2>1, <2>2, MatchSteps, MatchKept DEF BothStep
  <2>4. Sleepers(Producers)' # {} =>
           buf_sz - counter' <= Many(Consumers, "signal")' + Many(Producers, "woken")'
    BY <2>1, <2>2, MatchSteps, MatchKept DEF BothStep
  <2>5. QED
    BY <2>3, <2>4 DEF NobodySleepsThrough, Many
<1>3. QED
  BY <1>1, <1>2, Types, PTL DEF Spec
===============================================================================
