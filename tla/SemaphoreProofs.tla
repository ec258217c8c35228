--------------------------- MODULE SemaphoreProofs ---------------------------
(***************************************************************************)
(* Proofs about Semaphore.tla, for any number of threads, any initial      *)
(* value and any number of spurious wakeups: the types, the bookkeeping of *)
(* the wakeups, and, for the way job_scheduler.c uses the semaphore, that  *)
(* it is the counting semaphore of CountingSemaphore.tla.                  *)
(***************************************************************************)
EXTENDS Semaphore, FiniteSetTheorems, TLAPS

(* Locking and unlocking keep the mutex free. *)
LEMMA MutexType == TypeOK /\ [Next]_vars => stuck' \in BOOLEAN
<1>1. CASE UNCHANGED vars
  BY <1>1, Zenon DEF TypeOK, vars
<1>2. CASE Next
  BY <1>2, Zenon DEF TypeOK, Next, Wait, WaitBlock, WaitThrough, WakePass, WakeAgain,
     SpuriousWake, sem_post_, sem_decrease_, sem_increase_, sem_set_value_, sem_reset_,
     sem_get_value_, Assign, Locking
<1> QED
  BY <1>1, <1>2, Zenon

(* The history bit stays a truth value. *)
LEMMA AssignedType == TypeOK /\ [Next]_vars => assigned' \in BOOLEAN
<1>1. CASE UNCHANGED vars
  BY <1>1, Zenon DEF TypeOK, vars
<1>2. CASE Next
  BY <1>2, Zenon DEF TypeOK, Next, Wait, WaitBlock, WaitThrough, WakePass, WakeAgain, Leave,
     SpuriousWake, sem_post_, sem_decrease_, sem_increase_, sem_set_value_, sem_reset_,
     sem_get_value_, Assign, Locking
<1> QED
  BY <1>1, <1>2, Zenon

\* The part of TypeOK without the truth values.
NumbersOK ==
    /\ value \in Int
    /\ wakeups \in Nat
    /\ sleeping \subseteq Threads
    /\ signalled \subseteq Threads
    /\ sleeping \cap signalled = {}
    /\ spurious \in 0..MaxSpurious

(* No step leaves the numbers, nor lets a thread sleep and be woken. *)
LEMMA NumbersType == NumbersOK /\ [Next]_vars => NumbersOK'
<1> SUFFICES ASSUME NumbersOK, [Next]_vars
             PROVE  NumbersOK'
  OBVIOUS
<1> USE SemAssumption
<1>1. ASSUME NEW t \in Threads, WaitBlock(t)
      PROVE  NumbersOK'
  BY <1>1 DEF NumbersOK, WaitBlock, Inside
<1>2. ASSUME NEW t \in Threads, WaitThrough(t)
      PROVE  NumbersOK'
  BY <1>2 DEF NumbersOK, WaitThrough, Leave
<1>3. ASSUME NEW t \in Threads, WakePass(t)
      PROVE  NumbersOK'
  BY <1>3 DEF NumbersOK, WakePass, Leave
<1>4. ASSUME NEW t \in Threads, WakeAgain(t)
      PROVE  NumbersOK'
  BY <1>4 DEF NumbersOK, WakeAgain
<1>5. ASSUME NEW t \in Threads, SpuriousWake(t)
      PROVE  NumbersOK'
  BY <1>5 DEF NumbersOK, SpuriousWake
<1>6. CASE sem_post_
  BY <1>6 DEF NumbersOK, sem_post_, Signal
<1>7. CASE sem_decrease_ \/ sem_increase_ \/ sem_reset_
  BY <1>7 DEF NumbersOK, sem_decrease_, sem_increase_, sem_reset_, Assign
<1>8. ASSUME NEW v \in {Initial - 1, Initial + 1}, sem_set_value_(v)
      PROVE  NumbersOK'
  BY <1>8 DEF NumbersOK, sem_set_value_, Assign
<1>9. CASE sem_get_value_
  BY <1>9 DEF NumbersOK, sem_get_value_
<1>10. CASE UNCHANGED vars
  BY <1>10 DEF NumbersOK, vars
<1> QED
  BY <1>1, <1>2, <1>3, <1>4, <1>5, <1>6, <1>7, <1>8, <1>9, <1>10, Zenon DEF Next, Wait

(* The semaphore keeps its types: no wakeup is taken that is not there, so *)
(* that wakeups never falls below zero, and no thread is both asleep and   *)
(* on its way out of sem_wait_ (semaphore.c:39-62).                        *)
THEOREM Types == Spec => []TypeOK
<1>1. sem_init_ => TypeOK
  <2>1. sem_init_ => NumbersOK
    BY SemAssumption DEF sem_init_, NumbersOK
  <2>2. sem_init_ => stuck \in BOOLEAN /\ assigned \in BOOLEAN
    BY Zenon DEF sem_init_
  <2> QED
    BY <2>1, <2>2, Zenon DEF TypeOK, NumbersOK
<1>2. TypeOK /\ [Next]_vars => TypeOK'
  <2> SUFFICES ASSUME TypeOK, [Next]_vars
               PROVE  TypeOK'
    OBVIOUS
  <2>1. stuck' \in BOOLEAN /\ assigned' \in BOOLEAN
    BY MutexType, AssignedType, Zenon
  <2>2. NumbersOK
    BY Zenon DEF TypeOK, NumbersOK
  <2>3. NumbersOK'
    BY <2>2, NumbersType, Zenon
  <2> QED
    BY <2>1, <2>3, Zenon DEF TypeOK, NumbersOK
<1> QED
  BY <1>1, <1>2, PTL DEF Spec
-----------------------------------------------------------------------------
(* Threads that sleep and threads on their way out are counted apart. *)

Asleep == Cardinality(sleeping)
Woken  == Cardinality(signalled)

(* The two counts are numbers, and together they count the threads inside. *)
LEMMA Counts ==
    ASSUME NumbersOK
    PROVE  /\ IsFiniteSet(sleeping) /\ Asleep \in Nat
           /\ IsFiniteSet(signalled) /\ Woken \in Nat
           /\ Cardinality(Inside) = Asleep + Woken
<1>1. IsFiniteSet(sleeping) /\ IsFiniteSet(signalled)
  BY FS_Subset, SemAssumption DEF NumbersOK
<1>2. Asleep \in Nat /\ Woken \in Nat
  BY <1>1, FS_CardinalityType DEF Asleep, Woken
<1>3. Cardinality(sleeping \cap signalled) = 0
  BY FS_EmptySet DEF NumbersOK
<1>4. Cardinality(sleeping \cup signalled) = Asleep + Woken - 0
  BY <1>1, <1>3, FS_Union DEF Asleep, Woken
<1> QED
  BY <1>1, <1>2, <1>4 DEF Inside

(* A thread that goes to sleep is one sleeper more. *)
LEMMA OneMoreAsleep ==
    ASSUME NumbersOK, NEW t \in Threads, t \notin sleeping, sleeping' = sleeping \cup {t}
    PROVE  Asleep' = Asleep + 1
BY Counts, FS_AddElement DEF Asleep

(* A sleeper that is woken, by a signal or not, changes sides. *)
LEMMA OneWoken ==
    ASSUME NumbersOK, NEW t \in sleeping,
           sleeping' = sleeping \ {t}, signalled' = signalled \cup {t}
    PROVE  Asleep' = Asleep - 1 /\ Woken' = Woken + 1
<1>1. t \notin signalled
  BY DEF NumbersOK
<1>2. Cardinality(sleeping \ {t}) = Cardinality(sleeping) - 1
  BY Counts, FS_RemoveElement
<1>3. Cardinality(signalled \cup {t}) = Cardinality(signalled) + 1
  BY <1>1, Counts, FS_AddElement
<1> QED
  BY <1>2, <1>3 DEF Asleep, Woken

(* A woken thread that leaves the set of the woken is there, and is one. *)
LEMMA OneLeaves ==
    ASSUME NumbersOK, NEW t \in signalled, signalled' = signalled \ {t}
    PROVE  Woken >= 1 /\ Woken' = Woken - 1
<1>1. Cardinality(signalled \ {t}) = Cardinality(signalled) - 1
  BY Counts, FS_RemoveElement
<1>2. IsFiniteSet(signalled \ {t})
  BY Counts, FS_RemoveElement
<1>3. Cardinality(signalled \ {t}) \in Nat
  BY <1>2, FS_CardinalityType
<1> QED
  BY <1>1, <1>3, Counts DEF Woken

(* The inductive invariant: every woken thread finds a wakeup or was woken *)
(* spuriously; and once the semaphore hands out wakeups, a negative value  *)
(* is the number of the threads asleep or spuriously woken, at most.       *)
WakeupCovers == Woken =< wakeups + spurious
DebtIsAsleep == Initial >= 0 \/ wakeups > 0 => value + Asleep + spurious >= 0

Balance == NumbersOK /\ (~assigned => WakeupCovers /\ DebtIsAsleep)

(* No step of the semaphore upsets the balance. *)
LEMMA BalanceKept == Balance /\ [Next]_vars => Balance'
<1> SUFFICES ASSUME Balance, [Next]_vars
             PROVE  Balance'
  OBVIOUS
<1> SUFFICES ASSUME ~assigned'
             PROVE  WakeupCovers' /\ DebtIsAsleep'
  BY NumbersType DEF Balance
<1>a. NumbersOK
  BY DEF Balance
<1>b. /\ value \in Int /\ wakeups \in Nat /\ spurious \in Nat
      /\ Asleep \in Nat /\ Woken \in Nat /\ Initial \in Int
  BY <1>a, Counts, SemAssumption DEF NumbersOK
<1> USE DEF WakeupCovers, DebtIsAsleep
<1>c. ASSUME ~assigned
      PROVE  WakeupCovers /\ DebtIsAsleep
  BY <1>c DEF Balance
<1>1. ASSUME NEW t \in Threads, WaitBlock(t)
      PROVE  WakeupCovers' /\ DebtIsAsleep'
  <2>1. Asleep' = Asleep + 1
    BY <1>1, <1>a, OneMoreAsleep DEF WaitBlock, Inside
  <2>2. Woken' = Woken
    BY <1>1 DEF WaitBlock, Woken
  <2>3. ~assigned /\ value' = value - 1 /\ wakeups' = wakeups /\ spurious' = spurious
    BY <1>1 DEF WaitBlock
  <2> QED
    BY <2>1, <2>2, <2>3, <1>b, <1>c
<1>2. ASSUME NEW t \in Threads, WaitThrough(t)
      PROVE  WakeupCovers' /\ DebtIsAsleep'
  <2>1. Asleep' = Asleep /\ Woken' = Woken
    BY <1>2 DEF WaitThrough, Asleep, Woken
  <2>2. ~assigned /\ t \notin Resetters
    BY <1>2, Zenon DEF WaitThrough, Leave
  <2>3. /\ value' = value - 1 /\ value - 1 >= 0
        /\ wakeups' = wakeups /\ spurious' = spurious
    BY <1>2, <2>2, <1>b DEF WaitThrough, Leave, MustSleep
  <2> QED
    BY <2>1, <2>2, <2>3, <1>b, <1>c
<1>3. ASSUME NEW t \in Threads, WakePass(t)
      PROVE  WakeupCovers' /\ DebtIsAsleep'
  <2>1. Woken' = Woken - 1
    BY <1>3, <1>a, OneLeaves DEF WakePass
  <2>2. Asleep' = Asleep
    BY <1>3 DEF WakePass, Asleep
  <2>3. /\ ~assigned /\ value' = value /\ spurious' = spurious
        /\ wakeups' = wakeups - 1 /\ wakeups >= 1
    BY <1>3 DEF WakePass, Leave
  <2> QED
    BY <2>1, <2>2, <2>3, <1>b, <1>c
<1>4. ASSUME NEW t \in Threads, WakeAgain(t)
      PROVE  WakeupCovers' /\ DebtIsAsleep'
  <2>1. Woken' = Woken - 1
    BY <1>4, <1>a, OneLeaves DEF WakeAgain
  <2>2. t \notin sleeping
    BY <1>4, <1>a DEF WakeAgain, NumbersOK
  <2>3. Asleep' = Asleep + 1
    BY <1>4, <1>a, <2>2, OneMoreAsleep DEF WakeAgain
  <2>4. ~assigned /\ value' = value /\ spurious' = spurious /\ wakeups' = wakeups
    BY <1>4 DEF WakeAgain
  <2> QED
    BY <2>1, <2>3, <2>4, <1>b, <1>c
<1>5. ASSUME NEW t \in Threads, SpuriousWake(t)
      PROVE  WakeupCovers' /\ DebtIsAsleep'
  <2>1. Asleep' = Asleep - 1 /\ Woken' = Woken + 1
    BY <1>5, <1>a, OneWoken DEF SpuriousWake
  <2>2. ~assigned /\ value' = value /\ spurious' = spurious + 1 /\ wakeups' = wakeups
    BY <1>5 DEF SpuriousWake
  <2> QED
    BY <2>1, <2>2, <1>b, <1>c
<1>6. CASE sem_post_
  <2>1. ~assigned /\ value' = value + 1 /\ spurious' = spurious
    BY <1>6 DEF sem_post_
  <2>2. CASE ~WakesWaiter(value + 1)
    <3>1. wakeups' = wakeups /\ Asleep' = Asleep /\ Woken' = Woken
      BY <1>6, <2>2 DEF sem_post_, Asleep, Woken
    <3> QED
      BY <3>1, <2>1, <1>b, <1>c
  <2>3. CASE WakesWaiter(value + 1)
    <3>1. wakeups' = wakeups + 1 /\ value + 1 >= 0 /\ Signal
      BY <1>6, <2>3 DEF sem_post_, WakesWaiter
    <3>2. CASE \E t \in sleeping : /\ sleeping' = sleeping \ {t}
                                   /\ signalled' = signalled \cup {t}
      <4>1. Asleep' = Asleep - 1 /\ Woken' = Woken + 1
        BY <3>2, <1>a, OneWoken
      <4>2. PICK t \in sleeping : sleeping' = sleeping \ {t}
        BY <3>2
      <4>3. Asleep' \in Nat
        BY <4>2, <1>a, Counts, FS_RemoveElement, FS_CardinalityType DEF Asleep
      <4> QED
        BY <4>1, <4>3, <3>1, <2>1, <1>b, <1>c
    <3>3. CASE UNCHANGED <<sleeping, signalled>>
      <4>1. Asleep' = Asleep /\ Woken' = Woken
        BY <3>3 DEF Asleep, Woken
      <4> QED
        BY <4>1, <3>1, <2>1, <1>b, <1>c
    <3> QED
      BY <3>1, <3>2, <3>3, Zenon DEF Signal
  <2> QED
    BY <2>2, <2>3
<1>7. CASE sem_decrease_ \/ sem_increase_ \/ sem_reset_
  BY <1>7, Zenon DEF sem_decrease_, sem_increase_, sem_reset_, Assign
<1>8. ASSUME NEW v \in {Initial - 1, Initial + 1}, sem_set_value_(v)
      PROVE  WakeupCovers' /\ DebtIsAsleep'
  BY <1>8, Zenon DEF sem_set_value_, Assign
<1>9. CASE sem_get_value_ \/ UNCHANGED vars
  <2>1. /\ ~assigned /\ value' = value /\ wakeups' = wakeups /\ spurious' = spurious
        /\ Asleep' = Asleep /\ Woken' = Woken
    BY <1>9 DEF sem_get_value_, vars, Asleep, Woken
  <2> QED
    BY <2>1, <1>b, <1>c
<1> QED
  BY <1>1, <1>2, <1>3, <1>4, <1>5, <1>6, <1>7, <1>8, <1>9, Zenon DEF Next, Wait

(* The balance holds from the start. *)
LEMMA BalanceHolds == Spec => []Balance
<1>1. sem_init_ => Balance
  <2> SUFFICES ASSUME sem_init_
               PROVE  Balance
    OBVIOUS
  <2>1. NumbersOK
    BY SemAssumption DEF sem_init_, NumbersOK
  <2>2. Asleep = 0 /\ Woken = 0
    BY FS_EmptySet DEF sem_init_, Asleep, Woken
  <2> QED
    BY <2>1, <2>2, SemAssumption DEF sem_init_, Balance, WakeupCovers, DebtIsAsleep
<1> QED
  BY <1>1, BalanceKept, PTL DEF Spec

(* Every thread that a post woke finds a wakeup, and no more threads are   *)
(* on their way out of sem_wait_ than permits were posted, for any number  *)
(* of threads, posts and spurious wakeups (semaphore.c:39-62).             *)
THEOREM WakeupsAreCounted == Spec => []SignalsArePaid
<1>1. Balance => SignalsArePaid
  <2> SUFFICES ASSUME Balance, ~assigned
               PROVE  /\ Cardinality(signalled) =< wakeups + spurious
                      /\ Initial >= 0 \/ wakeups > 0 =>
                           Cardinality(signalled) =< value + Cardinality(Inside) + spurious
    BY DEF SignalsArePaid
  <2>1. NumbersOK /\ WakeupCovers /\ DebtIsAsleep
    BY DEF Balance
  <2>2. /\ value \in Int /\ wakeups \in Nat /\ spurious \in Nat
        /\ Asleep \in Nat /\ Woken \in Nat /\ Initial \in Int
        /\ Cardinality(Inside) = Asleep + Woken
    BY <2>1, Counts, SemAssumption DEF NumbersOK
  <2>3. Woken = Cardinality(signalled)
    BY DEF Woken
  <2> QED
    BY <2>1, <2>2, <2>3 DEF WakeupCovers, DebtIsAsleep
<1> QED
  BY <1>1, BalanceHolds, PTL
-----------------------------------------------------------------------------
(* As a counting semaphore.  job_scheduler.c never asks for a reset and    *)
(* makes none of the maintenance calls; sem_get_value_ would do no harm.   *)

AsUsed == MaxSpurious = 0 /\ Resetters = {} /\ Calls \subseteq {"get"}

permits == value + Cardinality(Inside)

\* What the steps of CountingSemaphore say of the semaphore.
Post      == permits' = permits + 1 /\ UNCHANGED Inside
Arrive(t) == t \notin Inside /\ Inside' = Inside \cup {t} /\ permits' = permits
Pass(t)   == permits > 0 /\ permits' = permits - 1 /\ Inside' = Inside \ {t}
Stay      == permits' = permits /\ UNCHANGED Inside

(* These are the steps of CountingSemaphore. *)
LEMMA CountingSteps ==
    ASSUME Post \/ (\E t \in Threads : Arrive(t) \/ Pass(t)) \/ Stay
    PROVE  [Counting!Next]_(Counting!vars)
<1>1. CASE Post \/ (\E t \in Threads : Arrive(t) \/ Pass(t))
  BY <1>1, Zenon DEF Post, Arrive, Pass, permits,
     Counting!Next, Counting!Post, Counting!Arrive, Counting!Pass
<1>2. CASE Stay
  BY <1>2 DEF Stay, permits, Counting!vars
<1> QED
  BY <1>1, <1>2

Calm == Balance /\ ~assigned /\ spurious = 0

(* Used in that way the value is never assigned and nobody wakes unasked. *)
LEMMA CalmKept == ASSUME AsUsed
                  PROVE  Calm /\ [Next]_vars => Calm'
<1> SUFFICES ASSUME Calm, [Next]_vars
             PROVE  Calm'
  OBVIOUS
<1>1. Balance'
  BY BalanceKept, Zenon DEF Calm
<1>2. spurious' = 0
  <2>1. spurious' \in 0..MaxSpurious
    BY <1>1 DEF Balance, NumbersOK
  <2> QED
    BY <2>1 DEF AsUsed
<1>3. ~assigned'
  <2>1. Resetters = {} /\ ~assigned
    BY DEF AsUsed, Calm
  <2>2. /\ "decrease" \notin Calls /\ "increase" \notin Calls
        /\ "set" \notin Calls /\ "reset" \notin Calls
    BY DEF AsUsed
  <2>3. CASE UNCHANGED vars
    BY <2>1, <2>3, Zenon DEF vars
  <2>4. CASE Next
    BY <2>1, <2>2, <2>4, Zenon DEF Next, Wait, WaitBlock, WaitThrough, WakePass, WakeAgain,
       Leave, SpuriousWake, sem_post_, sem_decrease_, sem_increase_, sem_set_value_,
       sem_reset_, sem_get_value_, Assign
  <2> QED
    BY <2>3, <2>4, Zenon
<1> QED
  BY <1>1, <1>2, <1>3, Zenon DEF Calm

(* Each step of the calm semaphore is one of the counting semaphore. *)
LEMMA CalmStepCounts ==
    ASSUME AsUsed, Calm, [Next]_vars
    PROVE  Post \/ (\E t \in Threads : Arrive(t) \/ Pass(t)) \/ Stay
<1>1. NumbersOK /\ DebtIsAsleep /\ WakeupCovers
  BY Zenon DEF Calm, Balance
<1>2. NumbersOK'
  BY <1>1, NumbersType, Zenon
<1>3. /\ permits = value + Asleep + Woken
      /\ value \in Int /\ Asleep \in Nat /\ Woken \in Nat /\ wakeups \in Nat
  BY <1>1, Counts DEF permits, NumbersOK
<1>4. /\ permits' = value' + Asleep' + Woken'
      /\ value' \in Int /\ Asleep' \in Nat /\ Woken' \in Nat
  <2>1. /\ IsFiniteSet(sleeping') /\ IsFiniteSet(signalled')
        /\ Cardinality(sleeping' \cap signalled') = 0
    BY <1>2, FS_Subset, FS_EmptySet, SemAssumption DEF NumbersOK
  <2>2. /\ Cardinality(sleeping' \cup signalled')
              = Cardinality(sleeping') + Cardinality(signalled') - 0
        /\ Cardinality(sleeping') \in Nat /\ Cardinality(signalled') \in Nat
    BY <2>1, FS_Union, FS_CardinalityType
  <2> QED
    BY <2>2, <1>2 DEF permits, Inside, Asleep, Woken, NumbersOK
<1>5. spurious = 0 /\ MaxSpurious = 0 /\ Resetters = {}
  BY DEF Calm, AsUsed
<1>6. ASSUME NEW t \in Threads, WaitBlock(t)
      PROVE  Arrive(t)
  <2>1. t \notin Inside /\ Inside' = Inside \cup {t} /\ value' = value - 1 /\ Woken' = Woken
    BY <1>6 DEF WaitBlock, Inside, Woken
  <2>2. Asleep' = Asleep + 1
    BY <1>6, <1>1, OneMoreAsleep DEF WaitBlock, Inside
  <2> QED
    BY <2>1, <2>2, <1>3, <1>4 DEF Arrive
<1>7. ASSUME NEW t \in Threads, WaitThrough(t)
      PROVE  Pass(t)
  <2>1. /\ t \notin Inside /\ Inside' = Inside /\ value' = value - 1 /\ value - 1 >= 0
        /\ Woken' = Woken /\ Asleep' = Asleep
    BY <1>7, <1>3, <1>5 DEF WaitThrough, Leave, MustSleep, Inside, Woken, Asleep
  <2> QED
    BY <2>1, <1>3, <1>4 DEF Pass
<1>8. ASSUME NEW t \in Threads, WakePass(t)
      PROVE  Pass(t)
  <2>1. /\ t \in signalled /\ t \notin sleeping /\ wakeups >= 1 /\ value' = value
        /\ signalled' = signalled \ {t} /\ sleeping' = sleeping
    BY <1>8, <1>1, <1>5 DEF WakePass, Leave, NumbersOK
  <2>2. Woken >= 1 /\ Woken' = Woken - 1 /\ Asleep' = Asleep
    BY <2>1, <1>1, OneLeaves DEF Asleep
  <2>3. Inside' = Inside \ {t}
    BY <2>1 DEF Inside
  <2>4. value + Asleep >= 0
    BY <2>1, <1>1, <1>3, <1>5 DEF DebtIsAsleep
  <2> QED
    BY <2>1, <2>2, <2>3, <2>4, <1>3, <1>4 DEF Pass
<1>9. ASSUME NEW t \in Threads, WakeAgain(t)
      PROVE  Stay
  <2>1. /\ t \in signalled /\ t \notin sleeping /\ value' = value
        /\ signalled' = signalled \ {t} /\ sleeping' = sleeping \cup {t}
    BY <1>9, <1>1 DEF WakeAgain, NumbersOK
  <2>2. Woken' = Woken - 1 /\ Asleep' = Asleep + 1
    BY <2>1, <1>1, OneLeaves, OneMoreAsleep
  <2>3. Inside' = Inside
    BY <2>1 DEF Inside
  <2> QED
    BY <2>1, <2>2, <2>3, <1>3, <1>4 DEF Stay
<1>10. ASSUME NEW t \in Threads, SpuriousWake(t)
       PROVE  FALSE
  BY <1>10, <1>5 DEF SpuriousWake
<1>11. CASE sem_post_
  <2>1. value' = value + 1
    BY <1>11 DEF sem_post_
  <2>2. CASE UNCHANGED <<sleeping, signalled>>
    BY <2>1, <2>2, <1>3, <1>4 DEF Post, Inside, Asleep, Woken
  <2>3. CASE \E t \in sleeping : /\ sleeping' = sleeping \ {t}
                                 /\ signalled' = signalled \cup {t}
    <3>1. Asleep' = Asleep - 1 /\ Woken' = Woken + 1
      BY <2>3, <1>1, OneWoken
    <3>2. Inside' = Inside
      BY <2>3 DEF Inside
    <3> QED
      BY <3>1, <3>2, <2>1, <1>3, <1>4 DEF Post
  <2> QED
    BY <1>11, <2>2, <2>3, Zenon DEF sem_post_, Signal
<1>12. CASE sem_get_value_ \/ UNCHANGED vars
  BY <1>12 DEF sem_get_value_, vars, Stay, permits, Inside
<1>13. ~sem_decrease_ /\ ~sem_increase_ /\ ~sem_reset_ /\ ~(\E v \in Int : sem_set_value_(v))
  BY DEF AsUsed, sem_decrease_, sem_increase_, sem_reset_, sem_set_value_, Assign
<1>14. {Initial - 1, Initial + 1} \subseteq Int
  BY SemAssumption
<1> QED
  BY <1>6, <1>7, <1>8, <1>9, <1>10, <1>11, <1>12, <1>13, <1>14, Zenon DEF Next, Wait

(* As job_scheduler.c uses it, with any initial value, the semaphore is a  *)
(* counting semaphore as long as pthread_cond_wait returns when signalled  *)
(* and not before: nobody gets past sem_wait_ but against a permit that    *)
(* sem_init_ or sem_post_ gave (semaphore.c:18-62).                        *)
THEOREM IsCounting ==
    ASSUME AsUsed
    PROVE  Spec => IsCountingSemaphore
<1>1. sem_init_ => Counting!Init
  <2> SUFFICES ASSUME sem_init_
               PROVE  permits = Initial /\ Inside = {}
    BY DEF Counting!Init, permits
  <2>1. Inside = {} /\ value = Initial
    BY DEF sem_init_, Inside
  <2> QED
    BY <2>1, FS_EmptySet, SemAssumption DEF permits
<1>2. sem_init_ /\ Balance => Calm
  BY Zenon DEF sem_init_, Calm
<1>3. Calm /\ [Next]_vars => [Counting!Next]_(Counting!vars)
  BY CalmStepCounts, CountingSteps
<1>4. Calm /\ [Next]_vars => Calm'
  BY CalmKept
<1> QED
  BY <1>1, <1>2, <1>3, <1>4, BalanceHolds, PTL DEF Spec, IsCountingSemaphore, Counting!Spec
=============================================================================
