-------------------------- MODULE JobSchedulerProofs --------------------------
(***************************************************************************)
(* Proofs about JobScheduler, for any number of threads and jobs, queues   *)
(* of any size and any calls of the master.                                *)
(*                                                                         *)
(* First the types: TypeInv, which says of every place in the code what    *)
(* the counters, queues and variables hold there.  The rest builds on it:  *)
(* the order of the waiting queue, what a returned wait means, the counter *)
(* ready, the end of a work cycle, work that is left behind, the order of  *)
(* the running queue, the barrier, and the pool that all of it implements. *)
(* Each part starts with a lemma that says which steps touch the variables *)
(* it is about.                                                            *)
(***************************************************************************)
EXTENDS JobScheduler, FiniteSetTheorems, TLAPS

JobType == [ran : BOOLEAN, complete : BOOLEAN, sem_complete : Nat, freed : BOOLEAN]

SubmitPlaces == {"submit", "doze", "asleep", "blocked", "signal", "append"}
WaitAllPlaces == {"check", "collect", "peek", "waitjob"}
DestroyPlaces == {"joining", "exit", "broadcastexit", "join"}

\* A call that is made for a job names one.
NamesItsJob(c) == c.op \in {"submit", "waitjob", "free"} => c.job \in Jobs

(* Where the master is in a call, that call is the head of todo.  Where a  *)
(* thread or the master has a job in hand, there is one.                   *)
InCallOK ==
    /\ \A i \in 1..Len(todo) : NamesItsJob(todo[i])
    /\ mpc \in SubmitPlaces => todo # <<>> /\ Call.op = "submit"
    /\ mpc = "broadcast" => todo # <<>> /\ Call.op = "execute"
    /\ mpc \in WaitAllPlaces => todo # <<>> /\ Call.op = "waitall"
    /\ mpc = "semwait" => todo # <<>> /\ Call.op \in {"waitall", "waitjob"}
    /\ mpc \in DestroyPlaces => todo # <<>> /\ Call.op = "destroy"
    /\ mpc \in {"waitjob", "semwait"} => mjob \in Jobs
    /\ \A w \in Workers : wpc[w] \in {"run", "complete", "post"} => wjob[w] \in Jobs

TypeInv == TypeOK /\ InCallOK

(* The initial states. *)
LEMMA TypeInit == Init => TypeInv
<1> SUFFICES ASSUME Init PROVE TypeInv
  OBVIOUS
<1>1. N \in Nat
  BY FS_CardinalityType, SchedulerAssumption DEF N
<1>2. todo \in Seq(Calls) /\ \A i \in 1..Len(todo) : NamesItsJob(todo[i])
  BY SchedulerAssumption DEF Init, NamesItsJob
<1>3. TypeOK
  <2>1. /\ semValue = 1 - N /\ semWakeups = 0 /\ semSleeping = {} /\ semSignalled = {}
        /\ spurious = 0 /\ waiting = <<>> /\ running = <<>>
    BY DEF Init, Barrier!sem_init_, WaitingQueue!Init, RunningQueue!Init
  <2>2. js_create_job \in JobType
    BY DEF js_create_job, JobType
  <2>3. job \in [Jobs -> JobType]
    BY <2>2 DEF Init
  <2>4. spurious \in 0..MaxSpurious
    BY <2>1, SchedulerAssumption
  <2>5. semValue \in Int /\ semWakeups \in Nat
    BY <1>1, <2>1
  <2>6. /\ wpc \in [Workers -> WorkerPlaces]
        /\ wjob \in [Workers -> Jobs \cup {NoJob}]
        /\ mpc \in MasterPlaces
    BY DEF Init, WorkerPlaces, MasterPlaces
  <2>7. /\ waiting \in Seq(Jobs) /\ running \in Seq(Jobs)
        /\ submitted \in Seq(Jobs) /\ started \in Seq(Jobs) /\ collected \in Seq(Jobs)
    BY <2>1 DEF Init
  <2>8. /\ working = FALSE /\ exit = FALSE /\ locked = FALSE
        /\ ready = 0 /\ mjob = NoJob /\ awaited = {}
    BY DEF Init
  <2>9. ready \in Int /\ semValue \in Int /\ semWakeups \in Nat
    BY <2>5, <2>8
  <2>10. QED
    BY Zenon, <1>2, <2>1, <2>3, <2>4, <2>6, <2>7, <2>8, <2>9 DEF TypeOK, JobType
<1>4. InCallOK
  BY <1>2 DEF Init, InCallOK, SubmitPlaces, WaitAllPlaces, DestroyPlaces
<1>5. QED
  BY <1>3, <1>4 DEF TypeInv

(* The call at the head of todo, and what is left after it. *)
LEMMA HeadOfTodo ==
    ASSUME TypeInv, todo # <<>>
    PROVE  /\ Call \in Calls /\ NamesItsJob(Call)
           /\ Tail(todo) \in Seq(Calls)
           /\ \A i \in 1..Len(Tail(todo)) : NamesItsJob(Tail(todo)[i])
<1>1. todo \in Seq(Calls) /\ \A i \in 1..Len(todo) : NamesItsJob(todo[i])
  BY DEF TypeInv, TypeOK, InCallOK
<1>2. 1 \in 1..Len(todo) /\ Call = todo[1]
  BY <1>1 DEF Call
<1>3. \A i \in 1..Len(Tail(todo)) : i + 1 \in 1..Len(todo) /\ Tail(todo)[i] = todo[i + 1]
  BY <1>1
<1>4. QED
  BY <1>1, <1>2, <1>3

(* Setting one field of one job keeps the types. *)
LEMMA JobUpdates ==
    ASSUME NEW f \in [Jobs -> JobType], NEW j \in Jobs
    PROVE  /\ [f EXCEPT ![j].ran = TRUE] \in [Jobs -> JobType]
           /\ [f EXCEPT ![j].complete = TRUE] \in [Jobs -> JobType]
           /\ [f EXCEPT ![j].sem_complete = @ + 1] \in [Jobs -> JobType]
           /\ [f EXCEPT ![j].freed = TRUE] \in [Jobs -> JobType]
<1>1. [f EXCEPT ![j].ran = TRUE] \in [Jobs -> JobType]
  BY DEF JobType
<1>2. [f EXCEPT ![j].complete = TRUE] \in [Jobs -> JobType]
  BY DEF JobType
<1>3. [f EXCEPT ![j].sem_complete = @ + 1] \in [Jobs -> JobType]
  BY DEF JobType
<1>4. [f EXCEPT ![j].freed = TRUE] \in [Jobs -> JobType]
  BY DEF JobType
<1>5. QED
  BY <1>1, <1>2, <1>3, <1>4

(* The jobs after JobDone. *)
LEMMA JobDoneType ==
    ASSUME NEW f \in [Jobs -> JobType], NEW j \in Jobs, NEW n \in Nat, NEW b \in BOOLEAN
    PROVE  [f EXCEPT ![j].sem_complete = n, ![j].freed = @ \/ b] \in [Jobs -> JobType]
BY DEF JobType

-----------------------------------------------------------------------------
(* Types: the steps of the execution threads *)

(* Every step of a thread keeps the types. *)
LEMMA WorkerTypes ==
    ASSUME TypeInv, NEW w \in Workers, Worker(w)
    PROVE  TypeInv'
<1> USE DEF TypeInv
<1>1. CASE WorkerSleep(w)
  <2>1. Barrier!sem_post_
    BY <1>1 DEF WorkerSleep
  <2>2. /\ semValue' \in Int /\ semWakeups' \in Nat
        /\ semSleeping' \subseteq {Master} /\ semSignalled' \subseteq {Master}
        /\ spurious' = spurious
    BY <2>1 DEF Barrier!sem_post_, Barrier!Signal, Barrier!WakesWaiter, TypeOK
  <2>3. ready' \in Int /\ working' \in BOOLEAN
    BY <1>1 DEF WorkerSleep, ReadyNow, TypeOK
  <2>4. wpc' = [wpc EXCEPT ![w] = "asleep"] /\ UNCHANGED <<mjob, todo, wjob>>
    BY <1>1 DEF WorkerSleep, Move, SignalSubmitter
  <2>5. mpc' = mpc \/ (mpc = "asleep" /\ mpc' = "submit")
    BY <1>1 DEF WorkerSleep, SignalSubmitter
  <2>6. TypeOK'
    BY <1>1, <2>2, <2>3, <2>4, <2>5 DEF WorkerSleep, TypeOK, queues, history,
       WorkerPlaces, MasterPlaces
  <2>7. InCallOK'
    BY <2>4, <2>5 DEF InCallOK, Call, SubmitPlaces, WaitAllPlaces, DestroyPlaces, TypeOK
  <2>8. QED
    BY <2>6, <2>7
<1>2. CASE WorkerExit(w)
  <2>1. ready' \in Int /\ wpc' = [wpc EXCEPT ![w] = "exited"] /\ UNCHANGED <<mpc, mjob, todo, wjob>>
    BY <1>2 DEF WorkerExit, ReadyNow, TypeOK, Move, master
  <2>2. TypeOK'
    BY <1>2, <2>1 DEF WorkerExit, TypeOK, queues, history, barrier, WorkerPlaces
  <2>3. InCallOK'
    BY <2>1 DEF InCallOK, Call, TypeOK
  <2>4. QED
    BY <2>2, <2>3
<1>3. CASE WorkerTake(w)
  <2>1. /\ waiting # <<>> /\ waiting' = Tail(waiting)
        /\ Head(waiting) \in Jobs /\ waiting' \in Seq(Jobs)
    BY <1>3 DEF WorkerTake, WaitingQueue!Get, WaitingQueue!Empty, TypeOK
  <2>2. running' \in Seq(Jobs)
    <3>1. running \in Seq(Jobs)
      BY DEF TypeOK
    <3>2. running' = Append(running, Head(waiting)) \/ running' = running
      BY <1>3 DEF WorkerTake, EnqueueRunning, RunningQueue!Put
    <3>3. QED
      BY <2>1, <3>1, <3>2
  <2>3. ready' \in Int /\ started' \in Seq(Jobs)
    BY <1>3, <2>1 DEF WorkerTake, ReadyNow, TypeOK
  <2>4. /\ wpc' = [wpc EXCEPT ![w] = "run"] /\ wjob' = [wjob EXCEPT ![w] = Head(waiting)]
        /\ UNCHANGED <<mjob, todo>>
        /\ mpc' = mpc \/ (mpc = "blocked" /\ mpc' = "submit")
    BY <1>3 DEF WorkerTake, Move, UnblockSubmitter
  <2>5. TypeOK'
    BY <1>3, <2>1, <2>2, <2>3, <2>4 DEF WorkerTake, TypeOK, barrier, WorkerPlaces, MasterPlaces
  <2>6. InCallOK'
    BY <2>1, <2>4 DEF InCallOK, Call, SubmitPlaces, WaitAllPlaces, DestroyPlaces, TypeOK
  <2>7. QED
    BY <2>5, <2>6
<1>4. CASE WorkerRun(w) \/ WorkerComplete(w) \/ WorkerPost(w)
  <2>1. wjob[w] \in Jobs
    BY <1>4 DEF WorkerRun, WorkerComplete, WorkerPost, InCallOK
  <2>2. job' \in [Jobs -> JobType]
    <3>1. job \in [Jobs -> JobType]
      BY DEF TypeOK, JobType
    <3>2. \/ job' = [job EXCEPT ![wjob[w]].ran = TRUE]
          \/ job' = [job EXCEPT ![wjob[w]].complete = TRUE]
          \/ job' = [job EXCEPT ![wjob[w]].sem_complete = @ + 1]
      BY <1>4 DEF WorkerRun, WorkerComplete, WorkerPost, NOTIFY_JOB_COMPLETE_
    <3>3. CASE job' = [job EXCEPT ![wjob[w]].ran = TRUE]
      BY <2>1, <3>1, <3>3, JobUpdates
    <3>4. CASE job' = [job EXCEPT ![wjob[w]].complete = TRUE]
      BY <2>1, <3>1, <3>4, JobUpdates
    <3>5. CASE job' = [job EXCEPT ![wjob[w]].sem_complete = @ + 1]
      BY <2>1, <3>1, <3>5, JobUpdates
    <3>6. QED
      BY <3>2, <3>3, <3>4, <3>5
  <2>3. /\ \/ wpc' = [wpc EXCEPT ![w] = "start"] /\ wjob' = [wjob EXCEPT ![w] = NoJob]
           \/ wpc' = [wpc EXCEPT ![w] = "complete"] /\ wjob' = wjob
           \/ wpc' = [wpc EXCEPT ![w] = "post"] /\ wjob' = wjob
        /\ UNCHANGED <<sched, barrier, master, spurious, history>>
    BY <1>4 DEF WorkerRun, WorkerComplete, WorkerPost, Move
  <2>4. TypeOK'
    BY <2>2, <2>3 DEF TypeOK, JobType, sched, queues, barrier, master, history, WorkerPlaces
  <2>5. InCallOK'
    BY <2>1, <2>3 DEF InCallOK, Call, TypeOK, master
  <2>6. QED
    BY <2>4, <2>5
<1>5. QED
  BY <1>1, <1>2, <1>3, <1>4 DEF Worker
-----------------------------------------------------------------------------
(* Types: the steps of the master, by what they change *)

SchedTypes ==
    /\ working \in BOOLEAN /\ exit \in BOOLEAN /\ locked \in BOOLEAN
    /\ ready \in Int
    /\ waiting \in Seq(Jobs) /\ running \in Seq(Jobs)
BarrierTypes ==
    /\ semValue \in Int /\ semWakeups \in Nat
    /\ semSleeping \subseteq {Master} /\ semSignalled \subseteq {Master}
    /\ spurious \in 0..MaxSpurious
JobTypes == job \in [Jobs -> JobType]
ThreadTypes == wpc \in [Workers -> WorkerPlaces] /\ wjob \in [Workers -> Jobs \cup {NoJob}]
MasterTypes == mpc \in MasterPlaces /\ mjob \in Jobs \cup {NoJob} /\ todo \in Seq(Calls)
HistoryTypes ==
    /\ submitted \in Seq(Jobs) /\ started \in Seq(Jobs) /\ collected \in Seq(Jobs)
    /\ awaited \subseteq Jobs

(* TypeOK in parts that the steps disturb one by one. *)
LEMMA TypeParts ==
    TypeOK <=> /\ SchedTypes /\ BarrierTypes /\ JobTypes /\ ThreadTypes
               /\ MasterTypes /\ HistoryTypes
BY Zenon DEF TypeOK, SchedTypes, BarrierTypes, JobTypes, JobType, ThreadTypes,
   MasterTypes, HistoryTypes

(* The same of the next state. *)
LEMMA TypePartsNext ==
    TypeOK' <=> /\ SchedTypes' /\ BarrierTypes' /\ JobTypes' /\ ThreadTypes'
                /\ MasterTypes' /\ HistoryTypes'
BY Zenon DEF TypeOK, SchedTypes, BarrierTypes, JobTypes, JobType, ThreadTypes,
   MasterTypes, HistoryTypes

(* Woken threads are threads. *)
LEMMA WakeTypes ==
    ASSUME ThreadTypes, wjob' = wjob,
           BROADCAST_WAKEUP_ \/ SIGNAL_WAKEUP_
    PROVE  /\ ThreadTypes'
           /\ \A w \in Workers : wpc'[w] = wpc[w] \/ (wpc[w] = "asleep" /\ wpc'[w] = "woken")
<1>1. ASSUME BROADCAST_WAKEUP_
      PROVE  /\ wpc' \in [Workers -> WorkerPlaces]
             /\ \A w \in Workers : wpc'[w] = wpc[w] \/ (wpc[w] = "asleep" /\ wpc'[w] = "woken")
  BY <1>1 DEF BROADCAST_WAKEUP_, Asleep, ThreadTypes, WorkerPlaces
<1>2. ASSUME SIGNAL_WAKEUP_
      PROVE  /\ wpc' \in [Workers -> WorkerPlaces]
             /\ \A w \in Workers : wpc'[w] = wpc[w] \/ (wpc[w] = "asleep" /\ wpc'[w] = "woken")
  BY <1>2 DEF SIGNAL_WAKEUP_, Move, Asleep, ThreadTypes, WorkerPlaces
<1>3. QED
  BY <1>1, <1>2 DEF ThreadTypes

\* The threads with a job in hand have one after the step.
HandsKept == \A w \in Workers :
    wpc'[w] \in {"run", "complete", "post"} => wjob'[w] \in Jobs

(* Threads that do not move keep the job in their hands. *)
LEMMA HandsSame ==
    ASSUME TypeInv, UNCHANGED workers
    PROVE  HandsKept
BY DEF TypeInv, InCallOK, HandsKept, workers

(* So do threads that are woken. *)
LEMMA HandsWoken ==
    ASSUME TypeInv, wjob' = wjob, BROADCAST_WAKEUP_ \/ SIGNAL_WAKEUP_
    PROVE  HandsKept
<1>1. ThreadTypes
  BY TypeParts DEF TypeInv
<1>2. QED
  BY <1>1, WakeTypes DEF TypeInv, InCallOK, HandsKept

(* The master returns from a call. *)
LEMMA AfterReturn ==
    ASSUME TypeInv, HandsKept, todo # <<>>, todo' = Tail(todo),
           mpc' \in {"idle", "gone"}, mjob' \in Jobs \cup {NoJob}
    PROVE  MasterTypes' /\ InCallOK'
<1>1. todo' \in Seq(Calls) /\ \A i \in 1..Len(todo') : NamesItsJob(todo'[i])
  BY HeadOfTodo
<1>2. MasterTypes'
  BY <1>1 DEF MasterTypes, MasterPlaces
<1>3. InCallOK'
  BY <1>1 DEF InCallOK, HandsKept, SubmitPlaces, WaitAllPlaces, DestroyPlaces, NamesItsJob
<1>4. QED
  BY <1>2, <1>3

(* The master goes on inside a call. *)
LEMMA AfterGoto ==
    ASSUME TypeInv, HandsKept, todo' = todo, NEW place \in MasterPlaces, mpc' = place,
           mjob' \in Jobs \cup {NoJob},
           place \in SubmitPlaces => todo # <<>> /\ Call.op = "submit",
           place = "broadcast" => todo # <<>> /\ Call.op = "execute",
           place \in WaitAllPlaces => todo # <<>> /\ Call.op = "waitall",
           place = "semwait" => todo # <<>> /\ Call.op \in {"waitall", "waitjob"},
           place \in DestroyPlaces => todo # <<>> /\ Call.op = "destroy",
           place \in {"waitjob", "semwait"} => mjob' \in Jobs
    PROVE  MasterTypes' /\ InCallOK'
<1>1. MasterTypes'
  BY DEF MasterTypes, TypeInv, TypeOK
<1>2. Call' = Call
  BY DEF Call
<1>3. InCallOK'
  BY <1>2 DEF TypeInv, InCallOK, HandsKept, NamesItsJob
<1>4. QED
  BY <1>1, <1>3

(* Steps that only move the master, and steps that also wake threads. *)
LEMMA OnlyMovesOK ==
    ASSUME TypeInv, OnlyMoves, MasterTypes', InCallOK'
    PROVE  TypeInv'
<1>1. SchedTypes' /\ BarrierTypes' /\ JobTypes' /\ ThreadTypes' /\ HistoryTypes'
  BY TypeParts DEF TypeInv, OnlyMoves, sched, queues, barrier, workers, history,
     SchedTypes, BarrierTypes, JobTypes, ThreadTypes, HistoryTypes
<1>2. QED
  BY <1>1, TypePartsNext DEF TypeInv

(* Steps that move the master and wake threads keep the types. *)
LEMMA OnlyWakesOK ==
    ASSUME TypeInv, OnlyWakes, BROADCAST_WAKEUP_ \/ SIGNAL_WAKEUP_,
           MasterTypes', InCallOK'
    PROVE  TypeInv'
<1>1. SchedTypes' /\ BarrierTypes' /\ JobTypes' /\ HistoryTypes'
  BY TypeParts DEF TypeInv, OnlyWakes, sched, queues, barrier, history,
     SchedTypes, BarrierTypes, JobTypes, HistoryTypes
<1>2. ThreadTypes'
  BY TypeParts, WakeTypes DEF TypeInv, OnlyWakes
<1>3. QED
  BY <1>1, <1>2, TypePartsNext DEF TypeInv

(* The call that begins is the head of todo. *)
LEMMA CallingOK ==
    ASSUME TypeInv, NEW op, Calling(op)
    PROVE  /\ todo # <<>> /\ Call.op = op /\ mjob \in Jobs \cup {NoJob}
           /\ op \in {"submit", "waitjob", "free"} => Call.job \in Jobs
  BY HeadOfTodo DEF Calling, TypeInv, TypeOK, NamesItsJob

(* js_submit_job keeps the types. *)
LEMMA SubmitTypes ==
    ASSUME TypeInv, js_submit_job
    PROVE  TypeInv'
<1>1. mjob \in Jobs \cup {NoJob}
  BY DEF TypeInv, TypeOK
<1>2. CASE SubmitCheck
  <2>1. todo # <<>> /\ Call.op = "submit"
    BY <1>2, CallingOK DEF SubmitCheck
  <2>2. OnlyMoves /\ todo' = todo /\ mjob' = mjob
    BY <1>2 DEF SubmitCheck, OnlyMoves, Goto
  <2>3. HandsKept
    BY <2>2, HandsSame DEF OnlyMoves
  <2>4. PICK place \in {"submit", "append"} : mpc' = place
    BY <1>2 DEF SubmitCheck, Goto
  <2>5. MasterTypes' /\ InCallOK'
    BY <1>1, <2>1, <2>2, <2>3, <2>4, AfterGoto DEF MasterPlaces, SubmitPlaces,
       WaitAllPlaces, DestroyPlaces
  <2>6. QED
    BY <2>2, <2>5, OnlyMovesOK
<1>3. CASE SubmitNoneReady \/ SubmitDoze
  <2>1. todo # <<>> /\ Call.op = "submit"
    BY <1>3 DEF SubmitNoneReady, SubmitDoze, TypeInv, InCallOK, SubmitPlaces
  <2>2. OnlyMoves /\ todo' = todo /\ mjob' = mjob
    BY <1>3 DEF SubmitNoneReady, SubmitDoze, OnlyMoves, Goto
  <2>3. HandsKept
    BY <2>2, HandsSame DEF OnlyMoves
  <2>4. PICK place \in {"doze", "asleep"} : mpc' = place
    BY <1>3 DEF SubmitNoneReady, SubmitDoze, Goto
  <2>5. MasterTypes' /\ InCallOK'
    BY <1>1, <2>1, <2>2, <2>3, <2>4, AfterGoto DEF MasterPlaces, SubmitPlaces,
       WaitAllPlaces, DestroyPlaces
  <2>6. QED
    BY <2>2, <2>5, OnlyMovesOK
<1>4. CASE SubmitGuarded \/ SubmitBlocked
  <2>1. todo # <<>> /\ Call.op = "submit" /\ Call.job \in Jobs
    BY <1>4, HeadOfTodo DEF SubmitGuarded, SubmitBlocked, TypeInv, InCallOK, SubmitPlaces,
       NamesItsJob
  <2>2. UNCHANGED <<barrier, job, workers, mjob, spurious, todo>>
    BY <1>4 DEF SubmitGuarded, SubmitBlocked, Goto
  <2>3. HandsKept
    BY <2>2, HandsSame
  <2>4. PICK place \in {"signal", "blocked"} : mpc' = place
    BY <1>4 DEF SubmitGuarded, SubmitBlocked, Goto
  <2>5. MasterTypes' /\ InCallOK'
    BY <1>1, <2>1, <2>2, <2>3, <2>4, AfterGoto DEF MasterPlaces, SubmitPlaces,
       WaitAllPlaces, DestroyPlaces
  <2>6. SchedTypes' /\ HistoryTypes'
    <3>1. CASE SubmitGuarded
      BY <3>1, <2>1, TypeParts DEF TypeInv, SubmitGuarded, WaitingQueue!Put, SchedTypes, HistoryTypes
    <3>2. CASE SubmitBlocked
      BY <3>2, TypeParts DEF TypeInv, SubmitBlocked, queues, history, SchedTypes, HistoryTypes
    <3>3. QED
      BY <1>4, <3>1, <3>2
  <2>7. BarrierTypes' /\ JobTypes' /\ ThreadTypes'
    BY <2>2, TypeParts DEF TypeInv, barrier, workers, BarrierTypes, JobTypes, ThreadTypes
  <2>8. QED
    BY <2>5, <2>6, <2>7, TypePartsNext DEF TypeInv
<1>5. CASE SubmitSignal
  <2>1. OnlyWakes /\ SIGNAL_WAKEUP_ /\ todo # <<>> /\ todo' = Tail(todo) /\ mpc' = "idle"
    BY <1>5 DEF SubmitSignal, Return, TypeInv, InCallOK, SubmitPlaces
  <2>2. mjob' = mjob /\ HandsKept
    BY <2>1, HandsWoken DEF OnlyWakes
  <2>3. MasterTypes' /\ InCallOK'
    BY <1>1, <2>1, <2>2, AfterReturn
  <2>4. QED
    BY <2>1, <2>3, OnlyWakesOK
<1>6. CASE SubmitPlain
  <2>1. /\ todo # <<>> /\ Call.job \in Jobs
        /\ todo' = Tail(todo) /\ mpc' = "idle"
        /\ UNCHANGED <<barrier, job, workers, mjob, spurious>>
    BY <1>6, HeadOfTodo DEF SubmitPlain, Return, TypeInv, InCallOK, SubmitPlaces, NamesItsJob
  <2>2. HandsKept
    BY <2>1, HandsSame
  <2>3. MasterTypes' /\ InCallOK'
    BY <1>1, <2>1, <2>2, AfterReturn
  <2>4. SchedTypes' /\ HistoryTypes'
    <3>1. SchedTypes /\ HistoryTypes
      BY TypeParts DEF TypeInv
    <3>2. \/ waiting' = Append(waiting, Call.job) /\ submitted' = Append(submitted, Call.job)
          \/ UNCHANGED <<waiting, submitted>>
      BY <1>6 DEF SubmitPlain, PlainPut, WaitingQueue!Put
    <3>3. waiting' \in Seq(Jobs) /\ submitted' \in Seq(Jobs)
      <4>1. PICK j \in Jobs : j = Call.job
        BY <2>1
      <4>2. waiting \in Seq(Jobs) /\ submitted \in Seq(Jobs)
        BY <3>1 DEF SchedTypes, HistoryTypes
      <4>3. Append(waiting, j) \in Seq(Jobs) /\ Append(submitted, j) \in Seq(Jobs)
        BY <4>2
      <4>4. QED
        BY <3>2, <4>1, <4>2, <4>3
    <3>4. UNCHANGED <<working, exit, ready, running, locked, started, collected, awaited>>
      BY <1>6 DEF SubmitPlain
    <3>5. QED
      BY <3>1, <3>3, <3>4 DEF SchedTypes, HistoryTypes
  <2>5. BarrierTypes' /\ JobTypes' /\ ThreadTypes'
    BY <2>1, TypeParts DEF TypeInv, barrier, workers, BarrierTypes, JobTypes, ThreadTypes
  <2>6. QED
    BY <2>3, <2>4, <2>5, TypePartsNext DEF TypeInv
<1>7. QED
  BY <1>2, <1>3, <1>4, <1>5, <1>6 DEF js_submit_job

(* js_execute_all_jobs keeps the types. *)
LEMMA ExecuteTypes ==
    ASSUME TypeInv, js_execute_all_jobs
    PROVE  TypeInv'
<1>1. mjob \in Jobs \cup {NoJob}
  BY DEF TypeInv, TypeOK
<1>2. CASE ExecuteBusy
  <2>1. OnlyMoves /\ todo # <<>> /\ todo' = Tail(todo) /\ mpc' = "idle" /\ mjob' = mjob
    BY <1>2 DEF ExecuteBusy, Calling, Return, OnlyMoves
  <2>2. MasterTypes' /\ InCallOK'
    BY <1>1, <2>1, HandsSame, AfterReturn DEF OnlyMoves
  <2>3. QED
    BY <2>1, <2>2, OnlyMovesOK
<1>3. CASE ExecuteBegin \/ ExecuteNotReady
  <2>1. /\ UNCHANGED <<exit, ready, queues, barrier, job, workers, mjob, spurious, history>>
        /\ working' \in {working, TRUE} /\ locked' \in {locked, TRUE}
    BY <1>3 DEF ExecuteBegin, ExecuteNotReady
  <2>2. HandsKept
    BY <2>1, HandsSame
  <2>3. todo # <<>> /\ Call.op = "execute"
    BY <1>3, CallingOK DEF ExecuteBegin, ExecuteNotReady
  <2>4. MasterTypes' /\ InCallOK'
    <3>1. CASE mpc' = "idle" /\ todo' = Tail(todo)
      BY <1>1, <2>1, <2>2, <2>3, <3>1, AfterReturn
    <3>2. CASE mpc' = "broadcast" /\ todo' = todo
      BY <1>1, <2>1, <2>2, <2>3, <3>2, AfterGoto DEF MasterPlaces, SubmitPlaces, WaitAllPlaces,
         DestroyPlaces
    <3>3. QED
      BY <1>3, <3>1, <3>2 DEF ExecuteBegin, ExecuteNotReady, Goto, Return
  <2>5. SchedTypes' /\ BarrierTypes' /\ JobTypes' /\ ThreadTypes' /\ HistoryTypes'
    BY <2>1, TypeParts DEF TypeInv, queues, barrier, workers, history,
       SchedTypes, BarrierTypes, JobTypes, ThreadTypes, HistoryTypes
  <2>6. QED
    BY <2>4, <2>5, TypePartsNext DEF TypeInv
<1>4. CASE ExecuteBroadcast
  <2>1. OnlyWakes /\ BROADCAST_WAKEUP_ /\ todo # <<>> /\ todo' = Tail(todo) /\ mpc' = "idle"
    BY <1>4 DEF ExecuteBroadcast, Return, TypeInv, InCallOK
  <2>2. mjob' = mjob /\ HandsKept
    BY <2>1, HandsWoken DEF OnlyWakes
  <2>3. MasterTypes' /\ InCallOK'
    BY <1>1, <2>1, <2>2, AfterReturn
  <2>4. QED
    BY <2>1, <2>3, OnlyWakesOK
<1>5. QED
  BY <1>2, <1>3, <1>4 DEF js_execute_all_jobs

(* The way out of js_wait_job. *)
LEMMA JobDoneTypes ==
    ASSUME TypeInv, NEW j \in Jobs, NEW s \in Nat, JobDone(j, s),
           todo # <<>>, mpc = "idle" => Call.op = "waitjob",
           mpc \in {"idle", "waitjob", "semwait"}
    PROVE  TypeInv'
<1>1. UNCHANGED <<sched, barrier, workers, mjob, spurious, submitted, started, collected>>
      /\ awaited' = awaited \cup {j}
  BY DEF JobDone
<1>2. HandsKept /\ mjob' \in Jobs \cup {NoJob}
  BY <1>1, HandsSame DEF TypeInv, TypeOK
<1>3. Call.flag \in BOOLEAN
  BY HeadOfTodo DEF Calls
<1>4. JobTypes'
  <2>1. job \in [Jobs -> JobType]
    BY TypeParts DEF TypeInv, JobTypes
  <2>2. job' = [job EXCEPT ![j].sem_complete = s, ![j].freed = @ \/ Call.flag]
    BY DEF JobDone
  <2>3. QED
    BY <1>3, <2>1, <2>2, JobDoneType DEF JobTypes
<1>5. MasterTypes' /\ InCallOK'
  <2>1. CASE Call.op = "waitall"
    <3>1. mpc' = "check" /\ todo' = todo
      BY <2>1 DEF JobDone, Goto
    <3>2. QED
      BY <1>2, <2>1, <3>1, AfterGoto DEF MasterPlaces, SubmitPlaces, WaitAllPlaces, DestroyPlaces
  <2>2. CASE Call.op # "waitall"
    <3>1. mpc' = "idle" /\ todo' = Tail(todo)
      BY <2>2 DEF JobDone, Return
    <3>2. QED
      BY <1>2, <3>1, AfterReturn
  <2>3. QED
    BY <2>1, <2>2
<1>6. SchedTypes' /\ BarrierTypes' /\ ThreadTypes'
  BY <1>1, TypeParts DEF TypeInv, sched, queues, barrier, workers, SchedTypes, BarrierTypes, ThreadTypes
<1>7. HistoryTypes'
  BY <1>1, TypeParts DEF TypeInv, HistoryTypes
<1>8. QED
  BY <1>4, <1>5, <1>6, <1>7, TypePartsNext DEF TypeInv

(* js_wait_job keeps the types. *)
LEMMA WaitJobTypes ==
    ASSUME TypeInv, js_wait_job
    PROVE  TypeInv'
<1>1. CASE WaitJobComplete \/ WaitJobSleep
  <2>1. /\ todo # <<>> /\ JobInHand \in Jobs
        /\ mpc \in {"idle", "waitjob"}
        /\ mpc = "idle" => Call.op = "waitjob"
    <3>1. CASE mpc = "waitjob"
      BY <3>1 DEF TypeInv, InCallOK, WaitAllPlaces, JobInHand
    <3>2. CASE Calling("waitjob")
      BY <3>2, CallingOK DEF Calling, JobInHand
    <3>3. QED
      BY <1>1, <3>1, <3>2 DEF WaitJobComplete, WaitJobSleep, AtWaitJob
  <2>2. PICK j \in Jobs : j = JobInHand
    BY <2>1
  <2>3. CASE WaitJobComplete
    <3>1. JobDone(j, job[j].sem_complete) /\ job[j].sem_complete \in Nat
      BY <2>2, <2>3, TypeParts DEF WaitJobComplete, TypeInv, JobTypes, JobType
    <3>2. QED
      BY <2>1, <3>1, JobDoneTypes
  <2>4. CASE WaitJobSleep
    <3>1. /\ UNCHANGED <<sched, barrier, job, workers, spurious, history>>
          /\ mjob' = j /\ mpc' = "semwait" /\ todo' = todo
      BY <2>2, <2>4 DEF WaitJobSleep, Goto
    <3>2. HandsKept
      BY <3>1, HandsSame
    <3>3. Call.op \in {"waitall", "waitjob"}
      BY <2>1 DEF TypeInv, InCallOK, WaitAllPlaces
    <3>4. MasterTypes' /\ InCallOK'
      BY <2>1, <3>1, <3>2, <3>3, AfterGoto DEF MasterPlaces, SubmitPlaces, WaitAllPlaces,
         DestroyPlaces
    <3>5. SchedTypes' /\ BarrierTypes' /\ JobTypes' /\ ThreadTypes' /\ HistoryTypes'
      BY <3>1, TypeParts DEF TypeInv, sched, queues, barrier, workers, history,
         SchedTypes, BarrierTypes, JobTypes, ThreadTypes, HistoryTypes
    <3>6. QED
      BY <3>4, <3>5, TypePartsNext DEF TypeInv
  <2>5. QED
    BY <1>1, <2>3, <2>4
<1>2. CASE WaitJobSem
  <2>1. /\ todo # <<>> /\ mpc = "semwait"
    BY <1>2 DEF WaitJobSem, TypeInv, InCallOK
  <2>2. PICK j \in Jobs : j = mjob
    BY <2>1 DEF TypeInv, InCallOK
  <2>3. JobDone(j, job[j].sem_complete - 1) /\ job[j].sem_complete > 0
    BY <1>2, <2>2 DEF WaitJobSem
  <2>4. job[j].sem_complete \in Nat
    BY TypeParts DEF TypeInv, JobTypes, JobType
  <2>5. PICK s \in Nat : s = job[j].sem_complete - 1
    BY <2>3, <2>4
  <2>6. QED
    BY <2>1, <2>3, <2>5, JobDoneTypes
<1>3. QED
  BY <1>1, <1>2 DEF js_wait_job

(* js_wait_all_jobs keeps the types. *)
LEMMA WaitAllTypes ==
    ASSUME TypeInv, js_wait_all_jobs
    PROVE  TypeInv'
<1>1. mjob \in Jobs \cup {NoJob}
  BY DEF TypeInv, TypeOK
<1>2. todo # <<>> /\ Call.op = "waitall"
  BY CallingOK DEF js_wait_all_jobs, WaitAllNothing, WaitAllBroadcast, WaitAllCollect,
     WaitAllNone, WaitAllPeek, AtWaitAll, TypeInv, InCallOK, WaitAllPlaces
<1>3. CASE WaitAllNothing \/ WaitAllNone \/ WaitAllPeek
  <2>1. OnlyMoves /\ mjob' = mjob
    BY <1>3 DEF WaitAllNothing, WaitAllNone, WaitAllPeek, OnlyMoves
  <2>2. HandsKept
    BY <2>1, HandsSame DEF OnlyMoves
  <2>3. MasterTypes' /\ InCallOK'
    <3>1. CASE mpc' = "idle" /\ todo' = Tail(todo)
      BY <1>1, <1>2, <2>1, <2>2, <3>1, AfterReturn
    <3>2. CASE mpc' \in {"peek", "check"} /\ todo' = todo
      <4>1. PICK place \in {"peek", "check"} : mpc' = place
        BY <3>2
      <4>2. QED
        BY <1>1, <1>2, <2>1, <2>2, <3>2, <4>1, AfterGoto DEF MasterPlaces, SubmitPlaces,
           WaitAllPlaces, DestroyPlaces
    <3>3. QED
      BY <1>3, <3>1, <3>2 DEF WaitAllNothing, WaitAllNone, WaitAllPeek, Return, Goto
  <2>4. QED
    BY <2>1, <2>3, OnlyMovesOK
<1>4. CASE WaitAllBroadcast
  <2>1. OnlyWakes /\ BROADCAST_WAKEUP_ /\ todo' = todo /\ mpc' = "collect"
    BY <1>4 DEF WaitAllBroadcast, Goto
  <2>2. mjob' = mjob /\ HandsKept
    BY <2>1, HandsWoken DEF OnlyWakes
  <2>3. MasterTypes' /\ InCallOK'
    BY <1>1, <1>2, <2>1, <2>2, AfterGoto DEF MasterPlaces, SubmitPlaces, WaitAllPlaces,
       DestroyPlaces
  <2>4. QED
    BY <2>1, <2>3, OnlyWakesOK
<1>5. CASE WaitAllCollect
  <2>1. /\ running # <<>> /\ running' = Tail(running)
        /\ mjob' = Head(running) /\ collected' = Append(collected, Head(running))
        /\ mpc' = "waitjob" /\ todo' = todo
        /\ UNCHANGED <<working, exit, ready, waiting, locked, barrier, job, workers, spurious,
                       submitted, started, awaited>>
    BY <1>5 DEF WaitAllCollect, RunningQueue!Get, RunningQueue!Empty, Goto
  <2>2. running \in Seq(Jobs) /\ collected \in Seq(Jobs)
    BY DEF TypeInv, TypeOK
  <2>3. Head(running) \in Jobs /\ running' \in Seq(Jobs) /\ collected' \in Seq(Jobs)
    BY <2>1, <2>2
  <2>4. MasterTypes' /\ InCallOK'
    BY <1>2, <2>1, <2>3, HandsSame, AfterGoto DEF MasterPlaces, SubmitPlaces, WaitAllPlaces,
       DestroyPlaces
  <2>5. SchedTypes' /\ HistoryTypes'
    BY <2>1, <2>3, TypeParts DEF TypeInv, SchedTypes, HistoryTypes
  <2>6. BarrierTypes' /\ JobTypes' /\ ThreadTypes'
    BY <2>1, TypeParts DEF TypeInv, barrier, workers, BarrierTypes, JobTypes, ThreadTypes
  <2>7. QED
    BY <2>4, <2>5, <2>6, TypePartsNext DEF TypeInv
<1>6. QED
  BY <1>3, <1>4, <1>5 DEF js_wait_all_jobs

(* The barrier keeps its types; only the master is ever inside. *)
LEMMA BarrierStepTypes ==
    ASSUME TypeInv,
           \/ Barrier!WaitThrough(Master) \/ Barrier!WaitBlock(Master)
           \/ Barrier!WakePass(Master) \/ Barrier!WakeAgain(Master)
    PROVE  BarrierTypes'
<1>1. BarrierTypes
  BY TypeParts DEF TypeInv
<1>2. spurious' = spurious
  BY DEF Barrier!WaitThrough, Barrier!WaitBlock, Barrier!WakePass, Barrier!WakeAgain
<1>3. semSleeping' \subseteq {Master} /\ semSignalled' \subseteq {Master}
  BY <1>1 DEF BarrierTypes, Barrier!WaitThrough, Barrier!WaitBlock, Barrier!WakePass,
     Barrier!WakeAgain
<1>4. semValue' \in Int /\ semWakeups' \in Nat
  BY <1>1 DEF BarrierTypes, Barrier!WaitThrough, Barrier!WaitBlock, Barrier!WakePass,
     Barrier!WakeAgain, Barrier!Leave
<1>5. QED
  BY <1>1, <1>2, <1>3, <1>4 DEF BarrierTypes

(* js_create and js_destroy keep the types. *)
LEMMA CreateDestroyTypes ==
    ASSUME TypeInv, js_create \/ js_destroy
    PROVE  TypeInv'
<1>1. mjob \in Jobs \cup {NoJob}
  BY DEF TypeInv, TypeOK
<1>2. CASE js_create \/ JoinBarrier
  <2>1. /\ \/ Barrier!WaitThrough(Master) \/ Barrier!WaitBlock(Master)
           \/ Barrier!WakePass(Master) \/ Barrier!WakeAgain(Master)
        /\ UNCHANGED <<sched, job, workers, mjob, history, todo>>
    BY <1>2 DEF js_create, JoinBarrier, BarrierArrive, BarrierAwake, Goto
  <2>2. HandsKept
    BY <2>1, HandsSame
  <2>3. \/ mpc' \in {"creating", "idle"}
        \/ mpc' \in {"joining", "exit"} /\ todo # <<>> /\ Call.op = "destroy"
    BY <1>2, CallingOK DEF js_create, JoinBarrier, BarrierArrive, BarrierAwake, Goto, TypeInv,
       InCallOK, DestroyPlaces
  <2>4. PICK place \in {"creating", "idle", "joining", "exit"} : mpc' = place
    BY <2>3
  <2>5. MasterTypes' /\ InCallOK'
    BY <1>1, <2>1, <2>2, <2>3, <2>4, AfterGoto DEF MasterPlaces, SubmitPlaces, WaitAllPlaces,
       DestroyPlaces
  <2>6. SchedTypes' /\ JobTypes' /\ ThreadTypes' /\ HistoryTypes'
    BY <2>1, TypeParts DEF TypeInv, sched, queues, workers, history,
       SchedTypes, JobTypes, ThreadTypes, HistoryTypes
  <2>7. BarrierTypes'
    BY <2>1, BarrierStepTypes
  <2>8. QED
    BY <2>5, <2>6, <2>7, TypePartsNext DEF TypeInv
<1>3. CASE JoinExit
  <2>1. /\ exit' = TRUE /\ working' = FALSE /\ mpc' = "broadcastexit" /\ todo' = todo
        /\ UNCHANGED <<ready, queues, locked, barrier, job, workers, mjob, spurious, history>>
    BY <1>3 DEF JoinExit, Goto
  <2>2. todo # <<>> /\ Call.op = "destroy"
    BY <1>3 DEF JoinExit, TypeInv, InCallOK, DestroyPlaces
  <2>3. MasterTypes' /\ InCallOK'
    BY <1>1, <2>1, <2>2, HandsSame, AfterGoto DEF MasterPlaces, SubmitPlaces, WaitAllPlaces,
       DestroyPlaces
  <2>4. SchedTypes' /\ BarrierTypes' /\ JobTypes' /\ ThreadTypes' /\ HistoryTypes'
    BY <2>1, TypeParts DEF TypeInv, queues, barrier, workers, history,
       SchedTypes, BarrierTypes, JobTypes, ThreadTypes, HistoryTypes
  <2>5. QED
    BY <2>3, <2>4, TypePartsNext DEF TypeInv
<1>4. CASE JoinBroadcast
  <2>1. OnlyWakes /\ BROADCAST_WAKEUP_ /\ mpc' = "join" /\ todo' = todo
        /\ todo # <<>> /\ Call.op = "destroy"
    BY <1>4 DEF JoinBroadcast, Goto, TypeInv, InCallOK, DestroyPlaces
  <2>2. mjob' = mjob /\ HandsKept
    BY <2>1, HandsWoken DEF OnlyWakes
  <2>3. MasterTypes' /\ InCallOK'
    BY <1>1, <2>1, <2>2, AfterGoto DEF MasterPlaces, SubmitPlaces, WaitAllPlaces, DestroyPlaces
  <2>4. QED
    BY <2>1, <2>3, OnlyWakesOK
<1>5. CASE JoinDone
  <2>1. OnlyMoves /\ mpc' = "gone" /\ todo' = Tail(todo) /\ mjob' = mjob /\ todo # <<>>
    BY <1>5 DEF JoinDone, OnlyMoves, TypeInv, InCallOK, DestroyPlaces
  <2>2. MasterTypes' /\ InCallOK'
    BY <1>1, <2>1, HandsSame, AfterReturn DEF OnlyMoves
  <2>3. QED
    BY <2>1, <2>2, OnlyMovesOK
<1>6. QED
  BY <1>2, <1>3, <1>4, <1>5 DEF js_destroy

(* js_destroy_job keeps the types. *)
LEMMA FreeTypes ==
    ASSUME TypeInv, js_destroy_job
    PROVE  TypeInv'
<1>1. todo # <<>> /\ Call.job \in Jobs /\ mjob \in Jobs \cup {NoJob}
  BY CallingOK DEF js_destroy_job
<1>2. /\ job' = [job EXCEPT ![Call.job].freed = TRUE]
      /\ mpc' = "idle" /\ todo' = Tail(todo)
      /\ UNCHANGED <<sched, barrier, workers, mjob, spurious, history>>
  BY DEF js_destroy_job, Return
<1>3. MasterTypes' /\ InCallOK'
  BY <1>1, <1>2, HandsSame, AfterReturn
<1>4. JobTypes'
  BY <1>1, <1>2, TypeParts, JobUpdates DEF TypeInv, JobTypes
<1>5. SchedTypes' /\ BarrierTypes' /\ ThreadTypes' /\ HistoryTypes'
  BY <1>2, TypeParts DEF TypeInv, sched, queues, barrier, workers, history,
     SchedTypes, BarrierTypes, ThreadTypes, HistoryTypes
<1>6. QED
  BY <1>3, <1>4, <1>5, TypePartsNext DEF TypeInv

(* Spurious wakeups keep the types. *)
LEMMA SpuriousTypes ==
    ASSUME TypeInv, Spurious
    PROVE  TypeInv'
<1>1. mjob \in Jobs \cup {NoJob} /\ spurious \in 0..MaxSpurious
  BY DEF TypeInv, TypeOK
<1>2. CASE SpuriousBarrier
  <2>1. /\ Barrier!SpuriousWake(Master)
        /\ UNCHANGED <<sched, job, workers, master, history>>
    BY <1>2 DEF SpuriousBarrier
  <2>2. BarrierTypes'
    BY <2>1, TypeParts, SchedulerAssumption DEF TypeInv, BarrierTypes, Barrier!SpuriousWake
  <2>3. SchedTypes' /\ JobTypes' /\ ThreadTypes' /\ HistoryTypes' /\ MasterTypes'
    BY <2>1, TypeParts DEF TypeInv, sched, queues, workers, master, history,
       SchedTypes, JobTypes, ThreadTypes, HistoryTypes, MasterTypes
  <2>4. InCallOK'
    BY <2>1 DEF TypeInv, InCallOK, workers, master, Call
  <2>5. QED
    BY <2>2, <2>3, <2>4, TypePartsNext DEF TypeInv
<1>3. CASE SpuriousSubmitter
  <2>1. /\ spurious < MaxSpurious /\ spurious' = spurious + 1
        /\ mpc = "asleep" /\ mpc' = "submit" /\ todo' = todo
        /\ UNCHANGED <<sched, barrier, job, workers, mjob, history>>
    BY <1>3 DEF SpuriousSubmitter, Goto
  <2>2. todo # <<>> /\ Call.op = "submit"
    BY <2>1 DEF TypeInv, InCallOK, SubmitPlaces
  <2>3. MasterTypes' /\ InCallOK'
    BY <1>1, <2>1, <2>2, HandsSame, AfterGoto DEF MasterPlaces, SubmitPlaces, WaitAllPlaces,
       DestroyPlaces
  <2>4. BarrierTypes'
    BY <1>1, <2>1, TypeParts, SchedulerAssumption DEF TypeInv, BarrierTypes, barrier
  <2>5. SchedTypes' /\ JobTypes' /\ ThreadTypes' /\ HistoryTypes'
    BY <2>1, TypeParts DEF TypeInv, sched, queues, workers, history,
       SchedTypes, JobTypes, ThreadTypes, HistoryTypes
  <2>6. QED
    BY <2>3, <2>4, <2>5, TypePartsNext DEF TypeInv
<1>4. ASSUME NEW w \in Workers, SpuriousWorker(w)
      PROVE  TypeInv'
  <2>1. /\ spurious < MaxSpurious /\ spurious' = spurious + 1
        /\ wpc' = [wpc EXCEPT ![w] = "woken"]
        /\ UNCHANGED <<sched, barrier, job, wjob, master, history>>
    BY <1>4 DEF SpuriousWorker, Move
  <2>2. BarrierTypes'
    BY <1>1, <2>1, TypeParts, SchedulerAssumption DEF TypeInv, BarrierTypes, barrier
  <2>3. ThreadTypes'
    BY <2>1, TypeParts DEF TypeInv, ThreadTypes, WorkerPlaces
  <2>4. SchedTypes' /\ JobTypes' /\ HistoryTypes' /\ MasterTypes'
    BY <2>1, TypeParts DEF TypeInv, sched, queues, master, history,
       SchedTypes, JobTypes, HistoryTypes, MasterTypes
  <2>5. InCallOK'
    BY <2>1, TypeParts DEF TypeInv, InCallOK, master, Call, ThreadTypes
  <2>6. QED
    BY <2>2, <2>3, <2>4, <2>5, TypePartsNext DEF TypeInv
<1>5. QED
  BY <1>2, <1>3, <1>4 DEF Spurious

(* A step that changes nothing keeps the types. *)
LEMMA StutterTypes ==
    ASSUME TypeInv, UNCHANGED vars
    PROVE  TypeInv'
<1>1. TypeOK'
  BY DEF TypeInv, TypeOK, vars, sched, queues, barrier, workers, master, history
<1>2. InCallOK'
  BY DEF TypeInv, InCallOK, vars, workers, master, Call
<1>3. QED
  BY <1>1, <1>2 DEF TypeInv

(* TypeInv is kept by every step. *)
LEMMA StepTypes ==
    ASSUME TypeInv, [Next]_vars
    PROVE  TypeInv'
  BY WorkerTypes, SubmitTypes, ExecuteTypes, WaitJobTypes, WaitAllTypes,
     CreateDestroyTypes, FreeTypes, SpuriousTypes, StutterTypes DEF Next, MasterStep, Finished

(* The types always hold, and a call is never left half-way: whatever the  *)
(* master is at, the call it is in is there, and no thread or master works *)
(* on the NULL job (job_scheduler.c:69-101, 216-331).                      *)
THEOREM Types == Spec => []TypeInv
<1>1. TypeInv /\ [Next]_vars => TypeInv'
  BY StepTypes
<1>2. QED
  BY <1>1, TypeInit, PTL DEF Spec

(* TypeOK holds of every reachable state. *)
THEOREM TypeCorrect == Spec => []TypeOK
<1>1. TypeInv => TypeOK
  BY DEF TypeInv
<1>2. QED
  BY <1>1, Types, PTL

-----------------------------------------------------------------------------
(* The waiting queue *)

\* A job goes into the waiting queue,
Enqueued(j) ==
    /\ j \in Jobs
    /\ waiting' = Append(waiting, j)
    /\ submitted' = Append(submitted, j)
    /\ started' = started

\* or out of it.
Dequeued ==
    /\ waiting # <<>>
    /\ waiting' = Tail(waiting)
    /\ started' = Append(started, Head(waiting))
    /\ submitted' = submitted

QueueKept == UNCHANGED <<waiting, submitted, started>>

(* No step does anything else to the waiting queue. *)
LEMMA WhoTouchesQueue ==
    ASSUME TypeInv, [Next]_vars
    PROVE  QueueKept \/ Dequeued \/ \E j \in Jobs : Enqueued(j)
<1> USE DEF QueueKept, sched, queues, history
<1>1. CASE \E w \in Workers : Worker(w)
  BY <1>1 DEF Worker, WorkerSleep, WorkerExit, WorkerTake, WorkerRun, WorkerComplete,
     WorkerPost, Dequeued, WaitingQueue!Get, WaitingQueue!Empty
<1>2. CASE js_submit_job
  <2>1. CASE SubmitGuarded \/ SubmitPlain
    <3>1. Call.job \in Jobs
      BY <2>1, HeadOfTodo DEF TypeInv, InCallOK, SubmitPlaces, SubmitGuarded, SubmitPlain,
         NamesItsJob
    <3>2. QED
      BY <2>1, <3>1 DEF SubmitGuarded, SubmitPlain, PlainPut, WaitingQueue!Put, Enqueued
  <2>2. QED
    BY <1>2, <2>1 DEF js_submit_job, SubmitCheck, SubmitNoneReady, SubmitDoze,
       SubmitBlocked, SubmitSignal, OnlyMoves, OnlyWakes
<1>3. CASE js_create \/ js_destroy
  BY <1>3 DEF js_create, js_destroy, JoinBarrier, JoinExit, JoinBroadcast, JoinDone,
     BarrierArrive, BarrierAwake, OnlyMoves, OnlyWakes
<1>4. CASE js_execute_all_jobs
  BY <1>4 DEF js_execute_all_jobs, ExecuteBusy, ExecuteBegin, ExecuteBroadcast,
     ExecuteNotReady, OnlyMoves, OnlyWakes
<1>5. CASE js_wait_job
  BY <1>5 DEF js_wait_job, WaitJobComplete, WaitJobSleep, WaitJobSem, JobDone
<1>6. CASE js_wait_all_jobs
  BY <1>6 DEF js_wait_all_jobs, WaitAllNothing, WaitAllBroadcast, WaitAllCollect,
     WaitAllNone, WaitAllPeek, OnlyMoves, OnlyWakes
<1>7. CASE js_destroy_job
  BY <1>7 DEF js_destroy_job
<1>8. CASE Spurious
  BY <1>8 DEF Spurious, SpuriousWorker, SpuriousSubmitter, SpuriousBarrier
<1>9. CASE UNCHANGED vars
  BY <1>9 DEF vars
<1>10. QED
  BY <1>1, <1>2, <1>3, <1>4, <1>5, <1>6, <1>7, <1>8, <1>9
     DEF Next, MasterStep, Finished

(* Moving the head of t to the end of s keeps the two in order. *)
LEMMA HeadMoves ==
    ASSUME NEW S, NEW s \in Seq(S), NEW t \in Seq(S), t # <<>>
    PROVE  Append(s, Head(t)) \o Tail(t) = s \o t
OBVIOUS

(* So does a new element at the end of t. *)
LEMMA EndGrows ==
    ASSUME NEW S, NEW s \in Seq(S), NEW t \in Seq(S), NEW x \in S
    PROVE  s \o Append(t, x) = Append(s \o t, x)
OBVIOUS

(* Jobs are started in the order in which they were accepted, and none is  *)
(* lost or doubled on the way through the waiting queue, whatever its size *)
(* (job_scheduler.c:88-91, 228, 237).                                      *)
THEOREM StartsInOrder == Spec => []StartedInOrder
<1>1. Init => StartedInOrder
  BY DEF Init, StartedInOrder, WaitingQueue!Init
<1>2. TypeInv /\ StartedInOrder /\ [Next]_vars => StartedInOrder'
  <2> SUFFICES ASSUME TypeInv, StartedInOrder, [Next]_vars
               PROVE  StartedInOrder'
    OBVIOUS
  <2>1. started \in Seq(Jobs) /\ waiting \in Seq(Jobs)
    BY DEF TypeInv, TypeOK
  <2>2. CASE QueueKept
    BY <2>2 DEF QueueKept, StartedInOrder
  <2>3. CASE Dequeued
    BY <2>1, <2>3, HeadMoves DEF Dequeued, StartedInOrder
  <2>4. ASSUME NEW j \in Jobs, Enqueued(j)
        PROVE  StartedInOrder'
    <3>1. started \o Append(waiting, j) = Append(started \o waiting, j)
      BY <2>1, EndGrows
    <3>2. QED
      BY <2>4, <3>1 DEF Enqueued, StartedInOrder
  <2>5. QED
    BY <2>2, <2>3, <2>4, WhoTouchesQueue
<1>3. QED
  BY <1>1, <1>2, Types, PTL DEF Spec

-----------------------------------------------------------------------------
(* What a returned wait means *)

\* A job is complete only after its routine has returned, sem_complete is
\* posted only for a complete job, and a thread that is about to set complete
\* or to post has got that far.
RunInv ==
    /\ \A j \in Jobs : job[j].complete => job[j].ran
    /\ \A j \in Jobs : job[j].sem_complete > 0 => job[j].complete
    /\ \A w \in Workers : wpc[w] = "complete" => job[wjob[w]].ran
    /\ \A w \in Workers : wpc[w] = "post" => job[wjob[w]].complete
    /\ AwaitedHaveRun

\* No field of a job is taken back, and no job is posted that is not complete.
JobsGoOn ==
    \A j \in Jobs :
        /\ job[j].ran => job'[j].ran
        /\ job[j].complete => job'[j].complete
        /\ job'[j].complete => job[j].complete \/ job'[j].ran
        /\ job'[j].sem_complete > 0 => job[j].sem_complete > 0 \/ job'[j].complete

\* No thread comes to the places of RunInv.
PlacesKept ==
    \A w \in Workers :
        wpc'[w] \in {"complete", "post"} => wpc'[w] = wpc[w] /\ wjob'[w] = wjob[w]

(* Steps that keep the jobs and the places of the threads. *)
LEMMA RunInvKept ==
    ASSUME TypeInv, TypeInv', RunInv, JobsGoOn, PlacesKept,
           \A j \in awaited' : j \in awaited \/ job'[j].complete
    PROVE  RunInv'
<1>1. /\ \A w \in Workers : wpc[w] \in {"complete", "post"} => wjob[w] \in Jobs
      /\ awaited' \subseteq Jobs
  BY DEF TypeInv, TypeOK, InCallOK
<1>2. \A j \in Jobs : job'[j].complete => job'[j].ran
  BY DEF RunInv, JobsGoOn
<1>3. \A j \in Jobs : job'[j].sem_complete > 0 => job'[j].complete
  BY DEF RunInv, JobsGoOn
<1>4. /\ \A w \in Workers : wpc'[w] = "complete" => job'[wjob'[w]].ran
      /\ \A w \in Workers : wpc'[w] = "post" => job'[wjob'[w]].complete
  BY <1>1 DEF RunInv, JobsGoOn, PlacesKept
<1>5. \A j \in awaited' : job'[j].ran /\ job'[j].complete
  BY <1>1, <1>2 DEF RunInv, JobsGoOn, AwaitedHaveRun
<1>6. QED
  BY <1>2, <1>3, <1>4, <1>5 DEF RunInv, AwaitedHaveRun

(* The steps of thread w that are about its job. *)
LEMMA RunInvWorker ==
    ASSUME TypeInv, TypeInv', RunInv, NEW w \in Workers,
           WorkerRun(w) \/ WorkerComplete(w) \/ WorkerPost(w)
    PROVE  RunInv'
<1>1. PICK j \in Jobs : j = wjob[w]
  BY DEF TypeInv, InCallOK, WorkerRun, WorkerComplete, WorkerPost
<1>2. /\ wpc \in [Workers -> WorkerPlaces]
      /\ wjob \in [Workers -> Jobs \cup {NoJob}]
      /\ job \in [Jobs -> JobType]
      /\ \A v \in Workers : wpc[v] \in {"complete", "post"} => wjob[v] \in Jobs
      /\ awaited \subseteq Jobs /\ awaited' = awaited
  BY DEF TypeInv, TypeOK, JobType, InCallOK, WorkerRun, WorkerComplete, WorkerPost, history
<1>3. CASE WorkerRun(w)
  <2>1. /\ job' = [job EXCEPT ![j].ran = TRUE]
        /\ wpc' = [wpc EXCEPT ![w] = "complete"] /\ wjob' = wjob
    BY <1>1, <1>3 DEF WorkerRun, Move
  <2>2. JobsGoOn /\ job'[j].ran
    BY <1>2, <2>1 DEF JobsGoOn, JobType
  <2>3. \A v \in Workers : wpc'[v] \in {"complete", "post"} =>
           v = w \/ (wpc'[v] = wpc[v] /\ wjob'[v] = wjob[v])
    BY <1>2, <2>1
  <2>4. QED
    BY <1>1, <1>2, <2>1, <2>2, <2>3 DEF RunInv, JobsGoOn, AwaitedHaveRun
<1>4. CASE WorkerComplete(w)
  <2>1. /\ job' = [job EXCEPT ![j].complete = TRUE]
        /\ wpc' = [wpc EXCEPT ![w] = "post"] /\ wjob' = wjob
        /\ job[j].ran
    BY <1>1, <1>4 DEF WorkerComplete, Move, RunInv
  <2>2. JobsGoOn /\ job'[j].complete
    BY <1>2, <2>1 DEF JobsGoOn, JobType
  <2>3. \A v \in Workers : wpc'[v] \in {"complete", "post"} =>
           v = w \/ (wpc'[v] = wpc[v] /\ wjob'[v] = wjob[v])
    BY <1>2, <2>1
  <2>4. QED
    BY <1>1, <1>2, <2>1, <2>2, <2>3 DEF RunInv, JobsGoOn, AwaitedHaveRun
<1>5. CASE WorkerPost(w)
  <2>1. /\ job' = [job EXCEPT ![j].sem_complete = @ + 1]
        /\ wpc' = [wpc EXCEPT ![w] = "start"] /\ wjob' = [wjob EXCEPT ![w] = NoJob]
        /\ job[j].complete
    BY <1>1, <1>5 DEF WorkerPost, Move, NOTIFY_JOB_COMPLETE_, RunInv
  <2>2. JobsGoOn
    BY <1>2, <2>1 DEF JobsGoOn, JobType
  <2>3. PlacesKept
    BY <1>2, <2>1 DEF PlacesKept
  <2>4. QED
    BY <1>2, <2>2, <2>3, RunInvKept
<1>6. QED
  BY <1>3, <1>4, <1>5

(* A wait that returns for job j, and takes one from its semaphore or none. *)
LEMMA RunInvJobDone ==
    ASSUME TypeInv, TypeInv', RunInv, NEW j \in Jobs, NEW s \in Nat, JobDone(j, s),
           job[j].complete, s > 0 => job[j].sem_complete > 0
    PROVE  RunInv'
<1>1. /\ job \in [Jobs -> JobType] /\ awaited' = awaited \cup {j}
      /\ job' = [job EXCEPT ![j].sem_complete = s, ![j].freed = @ \/ Call.flag]
      /\ UNCHANGED workers
  BY DEF TypeInv, TypeOK, JobType, JobDone
<1>2. JobsGoOn /\ job'[j].complete
  BY <1>1 DEF JobsGoOn, JobType
<1>3. PlacesKept
  BY <1>1 DEF PlacesKept, workers
<1>4. QED
  BY <1>1, <1>2, <1>3, RunInvKept

(* js_wait_job returns by complete, or by sem_complete. *)
LEMMA RunInvWaitJob ==
    ASSUME TypeInv, TypeInv', RunInv, js_wait_job
    PROVE  RunInv'
<1>1. job \in [Jobs -> JobType]
  BY DEF TypeInv, TypeOK, JobType
<1>2. CASE WaitJobComplete
  <2>1. PICK j \in Jobs : j = JobInHand
    BY <1>2, CallingOK DEF WaitJobComplete, AtWaitJob, JobInHand, TypeInv, InCallOK, Calling
  <2>2. JobDone(j, job[j].sem_complete) /\ job[j].complete
    BY <1>2, <2>1 DEF WaitJobComplete, IsComplete
  <2>3. job[j].sem_complete \in Nat
    BY <1>1 DEF JobType
  <2>4. QED
    BY <2>2, <2>3, RunInvJobDone
<1>3. CASE WaitJobSem
  <2>1. PICK j \in Jobs : j = mjob
    BY <1>3 DEF WaitJobSem, TypeInv, InCallOK
  <2>2. JobDone(j, job[j].sem_complete - 1) /\ job[j].sem_complete > 0
    BY <1>3, <2>1 DEF WaitJobSem
  <2>3. job[j].sem_complete - 1 \in Nat /\ job[j].complete
    BY <1>1, <2>2 DEF JobType, RunInv
  <2>4. QED
    BY <2>2, <2>3, RunInvJobDone
<1>4. CASE WaitJobSleep
  <2>1. UNCHANGED <<job, awaited, workers>>
    BY <1>4 DEF WaitJobSleep, history
  <2>2. JobsGoOn /\ PlacesKept
    BY <2>1 DEF JobsGoOn, PlacesKept, workers
  <2>3. QED
    BY <2>1, <2>2, RunInvKept
<1>5. QED
  BY <1>2, <1>3, <1>4 DEF js_wait_job

(* Which steps touch the jobs, and which the places of the threads.        *)
LEMMA WhoTouchesJobs ==
    ASSUME TypeInv, [Next]_vars
    PROVE  \/ \E w \in Workers : WorkerRun(w) \/ WorkerComplete(w) \/ WorkerPost(w)
           \/ js_wait_job
           \/ js_destroy_job
           \/ UNCHANGED <<job, awaited>>
<1> USE DEF history
<1>1. CASE \E w \in Workers : Worker(w)
  BY <1>1 DEF Worker, WorkerSleep, WorkerExit, WorkerTake
<1>2. CASE js_submit_job
  BY <1>2 DEF js_submit_job, SubmitCheck, SubmitNoneReady, SubmitDoze, SubmitGuarded,
     SubmitPlain, SubmitBlocked, SubmitSignal, OnlyMoves, OnlyWakes
<1>3. CASE js_create \/ js_destroy
  BY <1>3 DEF js_create, js_destroy, JoinBarrier, JoinExit, JoinBroadcast, JoinDone,
     BarrierArrive, BarrierAwake, OnlyMoves, OnlyWakes
<1>4. CASE js_execute_all_jobs
  BY <1>4 DEF js_execute_all_jobs, ExecuteBusy, ExecuteBegin, ExecuteBroadcast,
     ExecuteNotReady, OnlyMoves, OnlyWakes
<1>5. CASE js_wait_all_jobs
  BY <1>5 DEF js_wait_all_jobs, WaitAllNothing, WaitAllBroadcast, WaitAllCollect,
     WaitAllNone, WaitAllPeek, OnlyMoves, OnlyWakes
<1>6. CASE Spurious
  BY <1>6 DEF Spurious, SpuriousWorker, SpuriousSubmitter, SpuriousBarrier
<1>7. CASE UNCHANGED vars
  BY <1>7 DEF vars
<1>8. QED
  BY <1>1, <1>2, <1>3, <1>4, <1>5, <1>6, <1>7 DEF Next, MasterStep, Finished

(* Apart from its own steps a thread is only ever woken. *)
LEMMA WhoMovesWorkers ==
    ASSUME TypeInv, [Next]_vars
    PROVE  \/ \E w \in Workers : Worker(w)
           \/ /\ wpc' \in [Workers -> WorkerPlaces] /\ wjob' = wjob
              /\ UNCHANGED ready
              /\ \A w \in Workers :
                    wpc'[w] = wpc[w] \/ (wpc[w] = "asleep" /\ wpc'[w] = "woken")
<1> DEFINE Woken == /\ wpc' \in [Workers -> WorkerPlaces] /\ wjob' = wjob
                    /\ UNCHANGED ready
                    /\ \A w \in Workers :
                          wpc'[w] = wpc[w] \/ (wpc[w] = "asleep" /\ wpc'[w] = "woken")
<1>1. wpc \in [Workers -> WorkerPlaces]
  BY DEF TypeInv, TypeOK
<1>2. ASSUME UNCHANGED <<workers, ready>> PROVE Woken
  BY <1>1, <1>2 DEF workers
<1>3. ASSUME OnlyWakes, BROADCAST_WAKEUP_ \/ SIGNAL_WAKEUP_ PROVE Woken
  <2>1. ThreadTypes /\ wjob' = wjob /\ ready' = ready
    BY <1>3, TypeParts DEF TypeInv, OnlyWakes, sched
  <2>2. QED
    BY <1>3, <2>1, WakeTypes DEF ThreadTypes
<1>4. CASE js_submit_job
  BY <1>2, <1>3, <1>4 DEF js_submit_job, SubmitCheck, SubmitNoneReady, SubmitDoze,
     SubmitGuarded, SubmitPlain, SubmitBlocked, SubmitSignal, OnlyMoves, sched
<1>5. CASE js_create \/ js_destroy
  BY <1>2, <1>3, <1>5 DEF js_create, js_destroy, JoinBarrier, JoinExit, JoinBroadcast,
     JoinDone, BarrierArrive, BarrierAwake, OnlyMoves, sched
<1>6. CASE js_execute_all_jobs
  BY <1>2, <1>3, <1>6 DEF js_execute_all_jobs, ExecuteBusy, ExecuteBegin, ExecuteBroadcast,
     ExecuteNotReady, OnlyMoves, sched
<1>7. CASE js_wait_job \/ js_destroy_job
  BY <1>2, <1>7 DEF js_wait_job, WaitJobComplete, WaitJobSleep, WaitJobSem, JobDone,
     js_destroy_job, sched
<1>8. CASE js_wait_all_jobs
  BY <1>2, <1>3, <1>8 DEF js_wait_all_jobs, WaitAllNothing, WaitAllBroadcast,
     WaitAllCollect, WaitAllNone, WaitAllPeek, OnlyMoves, sched
<1>9. CASE Spurious
  <2>1. CASE \E w \in Workers : SpuriousWorker(w)
    <3>1. PICK w \in Workers : SpuriousWorker(w)
      BY <2>1
    <3>2. wpc[w] = "asleep" /\ wpc' = [wpc EXCEPT ![w] = "woken"] /\ wjob' = wjob
          /\ ready' = ready
      BY <3>1 DEF SpuriousWorker, Move, sched
    <3>3. QED
      BY <1>1, <3>2 DEF WorkerPlaces
  <2>2. CASE SpuriousSubmitter \/ SpuriousBarrier
    BY <1>2, <2>2 DEF SpuriousSubmitter, SpuriousBarrier, sched
  <2>3. QED
    BY <1>9, <2>1, <2>2 DEF Spurious
<1>10. CASE UNCHANGED vars
  BY <1>2, <1>10 DEF vars, sched
<1>11. QED
  BY <1>4, <1>5, <1>6, <1>7, <1>8, <1>9, <1>10 DEF Next, MasterStep, Finished

(* RunInv is kept by every step. *)
LEMMA RunInvNext ==
    ASSUME TypeInv, RunInv, [Next]_vars
    PROVE  RunInv'
<1>1. TypeInv'
  BY StepTypes
<1>2. CASE \E w \in Workers : WorkerRun(w) \/ WorkerComplete(w) \/ WorkerPost(w)
  BY <1>1, <1>2, RunInvWorker
<1>3. CASE js_wait_job
  BY <1>1, <1>3, RunInvWaitJob
<1>4. CASE js_destroy_job
  <2>1. PICK j \in Jobs : j = Call.job
    BY <1>4, CallingOK DEF js_destroy_job
  <2>2. /\ job' = [job EXCEPT ![j].freed = TRUE]
        /\ UNCHANGED <<workers, awaited>> /\ job \in [Jobs -> JobType]
    BY <1>4, <2>1 DEF js_destroy_job, history, TypeInv, TypeOK, JobType
  <2>3. JobsGoOn /\ PlacesKept
    BY <2>2 DEF JobsGoOn, PlacesKept, workers, JobType
  <2>4. QED
    BY <1>1, <2>2, <2>3, RunInvKept
<1>5. CASE /\ UNCHANGED <<job, awaited>>
           /\ ~\E w \in Workers : WorkerRun(w) \/ WorkerComplete(w) \/ WorkerPost(w)
  <2>1. JobsGoOn
    BY <1>5 DEF JobsGoOn
  <2>2. PlacesKept
    <3>1. CASE \E w \in Workers : Worker(w)
      <4>1. PICK w \in Workers : WorkerSleep(w) \/ WorkerExit(w) \/ WorkerTake(w)
        BY <1>5, <3>1 DEF Worker
      <4>2. /\ \E to \in {"asleep", "exited", "run"} : wpc' = [wpc EXCEPT ![w] = to]
            /\ wjob' = wjob \/ wjob' = [wjob EXCEPT ![w] = Head(waiting)]
        BY <4>1 DEF WorkerSleep, WorkerExit, WorkerTake, Move
      <4>3. wpc \in [Workers -> WorkerPlaces] /\ wjob \in [Workers -> Jobs \cup {NoJob}]
        BY DEF TypeInv, TypeOK
      <4>4. QED
        BY <4>2, <4>3 DEF PlacesKept
    <3>2. QED
      BY <3>1, WhoMovesWorkers DEF PlacesKept
  <2>3. QED
    BY <1>1, <1>5, <2>1, <2>2, RunInvKept
<1>6. QED
  BY <1>2, <1>3, <1>4, <1>5, WhoTouchesJobs

(* When js_wait_job, js_get_return_val or the loop of js_wait_all_jobs     *)
(* returns for a job, its routine has returned, whether they went by       *)
(* complete, set outside the mutex, or by the semaphore of the job         *)
(* (job_scheduler.c:94-96, 286-302).                                       *)
THEOREM WaitsAreRight == Spec => []AwaitedHaveRun
<1>1. Init => RunInv
  BY DEF Init, RunInv, AwaitedHaveRun, js_create_job
<1>2. TypeInv /\ RunInv /\ [Next]_vars => RunInv'
  BY RunInvNext
<1>3. RunInv => AwaitedHaveRun
  BY DEF RunInv
<1>4. QED
  BY <1>1, <1>2, <1>3, Types, PTL DEF Spec

-----------------------------------------------------------------------------
(* The counter ready *)

(* The threads that are ready are finitely many. *)
LEMMA ReadyFinite == IsFiniteSet(Ready) /\ Cardinality(Ready) \in 0..N
<1>1. Ready \subseteq Workers
  BY DEF Ready
<1>2. QED
  BY <1>1, FS_Subset, FS_CardinalityType, SchedulerAssumption DEF N

(* A thread that moves alone joins or leaves the ready ones, or neither. *)
LEMMA ReadyMoves ==
    ASSUME TypeInv, NEW w \in Workers, NEW to \in WorkerPlaces, Move(w, to)
    PROVE  Ready' = IF to \in {"asleep", "woken"} THEN Ready \cup {w} ELSE Ready \ {w}
BY DEF TypeInv, TypeOK, Ready, Move

(* ready counts the ready threads after the step of a thread. *)
LEMMA ReadyCountWorker ==
    ASSUME TypeInv, ReadyCount, NEW w \in Workers, Worker(w)
    PROVE  ReadyCount'
<1>1. PICK to \in WorkerPlaces : Move(w, to)
  BY DEF Worker, WorkerSleep, WorkerExit, WorkerTake, WorkerRun, WorkerComplete,
     WorkerPost, WorkerPlaces
<1>2. wpc'[w] = to
  BY <1>1 DEF Move, TypeInv, TypeOK
<1>3. w \in Ready <=> wpc[w] \in {"asleep", "woken"}
  BY DEF Ready
<1>4. CASE WorkerSleep(w)
  <2>1. to = "asleep" /\ ready' = ReadyNow(w) + 1 /\ wpc[w] \in {"start", "woken"}
    BY <1>2, <1>4 DEF WorkerSleep, Move, AtLock, TypeInv, TypeOK
  <2>2. Ready' = Ready \cup {w}
    BY <1>1, <2>1, ReadyMoves
  <2>3. Cardinality(Ready') = IF w \in Ready THEN Cardinality(Ready) ELSE Cardinality(Ready) + 1
    BY <2>2, ReadyFinite, FS_AddElement
  <2>4. QED
    BY <1>3, <2>1, <2>3, ReadyFinite DEF ReadyCount, ReadyNow
<1>5. CASE ~WorkerSleep(w)
  <2>1. /\ to \notin {"asleep", "woken"}
        /\ ready' = IF wpc[w] = "woken" THEN ready - 1 ELSE ready
        /\ wpc[w] # "asleep"
    BY <1>2, <1>5 DEF Worker, WorkerExit, WorkerTake, WorkerRun, WorkerComplete, WorkerPost,
       Move, ReadyNow, AtLock, sched, TypeInv, TypeOK
  <2>2. Ready' = Ready \ {w}
    BY <1>1, <2>1, ReadyMoves
  <2>3. Cardinality(Ready') = IF w \in Ready THEN Cardinality(Ready) - 1 ELSE Cardinality(Ready)
    BY <2>2, ReadyFinite, FS_RemoveElement
  <2>4. QED
    BY <1>3, <2>1, <2>3, ReadyFinite DEF ReadyCount
<1>6. QED
  BY <1>4, <1>5

(* ready counts the ready threads after any step. *)
LEMMA ReadyCountNext ==
    ASSUME TypeInv, ReadyCount, [Next]_vars
    PROVE  ReadyCount'
<1>1. CASE \E w \in Workers : Worker(w)
  BY <1>1, ReadyCountWorker
<1>2. CASE ~\E w \in Workers : Worker(w)
  <2>1. ready' = ready /\ Ready' = Ready
    BY <1>2, WhoMovesWorkers DEF Ready
  <2>2. QED
    BY <2>1 DEF ReadyCount
<1>3. QED
  BY <1>1, <1>2

(* The counter ready, which each thread adjusts for itself around WAIT_,   *)
(* is the number of threads that sleep or have been woken and not run yet  *)
(* (job_scheduler.c:75, 81), for any number of threads and with any        *)
(* spurious wakeups.                                                       *)
THEOREM ReadyCounts == Spec => []ReadyCount
<1>1. Init => ReadyCount
  <2> SUFFICES ASSUME Init PROVE ReadyCount
    OBVIOUS
  <2>1. Ready = {} /\ ready = 0
    BY DEF Init, Ready
  <2>2. QED
    BY <2>1, FS_EmptySet DEF ReadyCount
<1>2. TypeInv /\ ReadyCount /\ [Next]_vars => ReadyCount'
  BY ReadyCountNext
<1>3. QED
  BY <1>1, <1>2, Types, PTL DEF Spec

-----------------------------------------------------------------------------
(* The end of a work cycle *)

Creating == mpc \in {"create", "creating"}

\* While js_create runs, each thread goes to sleep once; the barrier counts
\* these threads and lets the master go when all of them sleep.
Starting ==
    /\ ~working /\ ~exit
    /\ \A w \in Workers : wpc[w] \in {"start", "asleep"}
    /\ semValue = IF mpc = "creating" THEN ready - N ELSE ready + 1 - N
    /\ mpc = "create" => semSleeping = {} /\ semSignalled = {}
    /\ semSignalled # {} => ready = N

CycleInv == spurious = 0 => (Creating => Starting) /\ AllReadyBetweenCycles

(* Between cycles every thread is in Ready. *)
LEMMA AllReady ==
    ASSUME TypeInv, ReadyCount, ready = N
    PROVE  Ready = Workers
<1>1. Ready \subseteq Workers /\ Cardinality(Workers) = Cardinality(Ready)
  BY DEF Ready, ReadyCount, N
<1>2. QED
  BY <1>1, FS_Subset, SchedulerAssumption

(* A thread goes to sleep while js_create runs. *)
LEMMA StartingWorker ==
    ASSUME TypeInv, ReadyCount, ReadyCount', CycleInv, spurious = 0, Creating,
           NEW w \in Workers, Worker(w)
    PROVE  CycleInv'
<1>1. Starting
  BY DEF CycleInv
<1>2. wpc[w] = "start" /\ WorkerSleep(w)
  BY <1>1 DEF Starting, Worker, WorkerSleep, WorkerExit, WorkerTake, WorkerRun,
     WorkerComplete, WorkerPost, AtLock, NothingToDo
<1>3. /\ ready' = ready + 1 /\ ~working' /\ exit' = exit
      /\ mpc' = mpc /\ spurious' = spurious
      /\ wpc' = [wpc EXCEPT ![w] = "asleep"]
      /\ Barrier!sem_post_
  BY <1>1, <1>2 DEF WorkerSleep, ReadyNow, SignalSubmitter, Starting, Creating, Move,
     Barrier!sem_post_
<1>4. ready \in 0..N /\ ready' \in 0..N /\ N \in Nat
  <2>1. Cardinality(Ready) \in 0..N /\ Cardinality(Ready') \in 0..N
    <3>1. Ready' \subseteq Workers
      BY DEF Ready
    <3>2. QED
      BY <3>1, ReadyFinite, FS_Subset, FS_CardinalityType, SchedulerAssumption DEF N
  <2>2. N \in Nat
    BY FS_CardinalityType, SchedulerAssumption DEF N
  <2>3. QED
    BY <2>1, <2>2 DEF ReadyCount
<1>5. /\ semValue' = semValue + 1
      /\ mpc = "create" => semSleeping' = {} /\ semSignalled' = {}
      /\ semSignalled' # {} => ready' = N
  <2>1. semSignalled = {}
    BY <1>1, <1>3, <1>4 DEF Starting
  <2>2. semValue' = semValue + 1
    BY <1>3 DEF Barrier!sem_post_
  <2>3. /\ semValue \in Int
        /\ semValue + 1 < 0 => semSleeping' = semSleeping /\ semSignalled' = semSignalled
        /\ semSleeping = {} => semSleeping' = {} /\ semSignalled' = semSignalled
    BY <1>3 DEF Barrier!sem_post_, Barrier!Signal, Barrier!WakesWaiter, TypeInv, TypeOK
  <2>4. QED
    BY <1>1, <1>3, <1>4, <2>1, <2>2, <2>3 DEF Starting, Creating
<1>6. Creating' /\ Starting'
  BY <1>1, <1>3, <1>4, <1>5 DEF Creating, Starting, TypeInv, TypeOK
<1>7. QED
  BY <1>6 DEF CycleInv, AllReadyBetweenCycles, Creating

(* A step of a thread when js_create is over. *)
LEMMA CycleWorker ==
    ASSUME TypeInv, ReadyCount, CycleInv, spurious = 0, ~Creating,
           NEW w \in Workers, Worker(w)
    PROVE  CycleInv'
<1>1. ~working /\ ~exit => ready = N /\ wpc[w] \in {"asleep", "woken"}
  <2>1. ~working /\ ~exit => ready = N
    BY DEF CycleInv, AllReadyBetweenCycles, Creating
  <2>2. QED
    BY <2>1, AllReady DEF Ready
<1>2. ~Creating'
  BY DEF Creating, Worker, WorkerSleep, WorkerExit, WorkerTake, WorkerRun, WorkerComplete,
     WorkerPost, SignalSubmitter, UnblockSubmitter, master
<1>3. ~working' /\ ~exit' => ready' = N
  <2>1. CASE WorkerSleep(w)
    <3>1. /\ exit' = exit /\ ready' = ReadyNow(w) + 1 /\ ready \in Int
          /\ working' = (working /\ ready' # N)
      BY <2>1 DEF WorkerSleep, LastOne, TypeInv, TypeOK
    <3>2. wpc[w] \in {"start", "woken"}
      BY <2>1 DEF WorkerSleep, AtLock
    <3>3. CASE working
      BY <3>1, <3>3, Zenon
    <3>4. CASE ~working /\ ~exit
      <4>1. ready = N /\ wpc[w] = "woken"
        BY <1>1, <3>2, <3>4
      <4>2. QED
        BY <3>1, <4>1 DEF ReadyNow
    <3>5. QED
      BY <3>1, <3>3, <3>4
  <2>2. CASE WorkerExit(w) \/ WorkerTake(w)
    <3>1. ~NothingToDo /\ working' = working /\ exit' = exit
      BY <2>2 DEF WorkerExit, WorkerTake
    <3>2. QED
      BY <3>1 DEF NothingToDo
  <2>3. CASE WorkerRun(w) \/ WorkerComplete(w) \/ WorkerPost(w)
    BY <1>1, <2>3 DEF WorkerRun, WorkerComplete, WorkerPost, sched
  <2>4. QED
    BY <2>1, <2>2, <2>3 DEF Worker
<1>4. QED
  BY <1>2, <1>3 DEF CycleInv, AllReadyBetweenCycles, Creating

(* The steps of js_create. *)
LEMMA CycleCreate ==
    ASSUME TypeInv, ReadyCount, CycleInv, spurious = 0, js_create
    PROVE  CycleInv'
<1>1. Creating /\ Starting /\ spurious' = spurious
  BY DEF CycleInv, js_create, Creating, BarrierArrive, BarrierAwake, Barrier!WaitThrough,
     Barrier!WaitBlock, Barrier!WakePass, Barrier!WakeAgain
<1>2. UNCHANGED <<working, exit, ready, wpc>> /\ ready \in 0..N /\ N \in Nat
  <2>1. N \in Nat
    BY FS_CardinalityType, SchedulerAssumption DEF N
  <2>2. QED
    BY <2>1, ReadyFinite DEF js_create, BarrierArrive, BarrierAwake, sched, workers, ReadyCount
<1>3. CASE mpc = "create" /\ Barrier!WaitThrough(Master) /\ Goto("idle")
  <2>1. ~(semValue - 1 < 0) /\ semValue \in Int
    BY <1>3 DEF Barrier!WaitThrough, Barrier!MustSleep, TypeInv, TypeOK
  <2>2. mpc' = "idle" /\ ready' = N
    BY <1>1, <1>2, <1>3, <2>1 DEF Starting, Goto
  <2>3. QED
    BY <2>2 DEF CycleInv, AllReadyBetweenCycles, Creating
<1>4. CASE mpc = "create" /\ Barrier!WaitBlock(Master) /\ Goto("creating")
  <2>1. /\ mpc' = "creating" /\ semValue' = semValue - 1 /\ semSignalled' = semSignalled
    BY <1>4 DEF Goto, Barrier!WaitBlock
  <2>2. Creating' /\ Starting'
    BY <1>1, <1>2, <1>4, <2>1 DEF Starting, Creating
  <2>3. QED
    BY <2>2 DEF CycleInv, AllReadyBetweenCycles, Creating
<1>5. CASE mpc = "creating" /\ Barrier!WakePass(Master) /\ Goto("idle")
  <2>1. mpc' = "idle" /\ ready' = N
    BY <1>1, <1>2, <1>5 DEF Starting, Goto, Barrier!WakePass
  <2>2. QED
    BY <2>1 DEF CycleInv, AllReadyBetweenCycles, Creating
<1>6. CASE mpc = "creating" /\ Barrier!WakeAgain(Master) /\ Goto("creating")
  <2>1. /\ mpc' = "creating" /\ semValue' = semValue
        /\ semSignalled' \subseteq semSignalled
    BY <1>6 DEF Goto, Barrier!WakeAgain
  <2>2. Creating' /\ Starting'
    BY <1>1, <1>2, <1>6, <2>1 DEF Starting, Creating
  <2>3. QED
    BY <2>2 DEF CycleInv, AllReadyBetweenCycles, Creating
<1>7. QED
  BY <1>3, <1>4, <1>5, <1>6 DEF js_create, BarrierArrive, BarrierAwake

(* Any other step neither ends a cycle nor touches the flags and ready.    *)
LEMMA CycleOther ==
    ASSUME TypeInv, [Next]_vars, ~js_create, ~\E w \in Workers : Worker(w)
    PROVE  \/ UNCHANGED vars
           \/ spurious' = spurious + 1
           \/ /\ ~Creating /\ ~Creating' /\ spurious' = spurious
              /\ UNCHANGED <<working, exit, ready>> \/ working' \/ exit'
<1>1. CASE js_submit_job
  BY <1>1 DEF js_submit_job, SubmitCheck, SubmitNoneReady, SubmitDoze, SubmitGuarded,
     SubmitBlocked, SubmitSignal, SubmitPlain, OnlyMoves, OnlyWakes, Goto, Return, Calling,
     sched, Creating
<1>2. CASE js_execute_all_jobs
  BY <1>2 DEF js_execute_all_jobs, ExecuteBusy, ExecuteBegin, ExecuteBroadcast,
     ExecuteNotReady, OnlyMoves, OnlyWakes, Goto, Return, Calling, sched, Creating
<1>3. CASE js_wait_job
  BY <1>3 DEF js_wait_job, WaitJobComplete, WaitJobSleep, WaitJobSem, JobDone, AtWaitJob,
     Goto, Return, Calling, sched, Creating
<1>4. CASE js_wait_all_jobs
  BY <1>4 DEF js_wait_all_jobs, WaitAllNothing, WaitAllBroadcast, WaitAllCollect,
     WaitAllNone, WaitAllPeek, AtWaitAll, OnlyMoves, OnlyWakes, Goto, Return, Calling,
     sched, Creating
<1>5. CASE js_destroy_job
  BY <1>5 DEF js_destroy_job, Return, Calling, sched, Creating
<1>6. CASE js_destroy
  <2>1. CASE JoinBarrier
    BY <2>1 DEF JoinBarrier, BarrierArrive, BarrierAwake, Barrier!WaitThrough,
       Barrier!WaitBlock, Barrier!WakePass, Barrier!WakeAgain, Goto, Calling, sched, Creating
  <2>2. CASE JoinExit \/ JoinBroadcast \/ JoinDone
    BY <2>2 DEF JoinExit, JoinBroadcast, JoinDone, OnlyMoves, OnlyWakes, Goto, sched, Creating
  <2>3. QED
    BY <1>6, <2>1, <2>2 DEF js_destroy
<1>7. CASE Spurious
  BY <1>7 DEF Spurious, SpuriousBarrier, SpuriousSubmitter, SpuriousWorker,
     Barrier!SpuriousWake
<1>8. CASE Finished \/ UNCHANGED vars
  BY <1>8 DEF Finished
<1>9. QED
  BY <1>1, <1>2, <1>3, <1>4, <1>5, <1>6, <1>7, <1>8 DEF Next, MasterStep

(* CycleInv survives any step.                                             *)
LEMMA CycleNext ==
    ASSUME TypeInv, ReadyCount, ReadyCount', CycleInv, [Next]_vars
    PROVE  CycleInv'
<1>1. CASE spurious # 0
  <2>1. spurious' = spurious \/ spurious' = spurious + 1
    <3>1. CASE js_create
      BY <3>1 DEF js_create, BarrierArrive, BarrierAwake, Barrier!WaitThrough,
         Barrier!WaitBlock, Barrier!WakePass, Barrier!WakeAgain
    <3>2. ASSUME NEW w \in Workers, Worker(w) PROVE spurious' = spurious
      BY <3>2 DEF Worker, WorkerSleep, WorkerExit, WorkerTake, WorkerRun, WorkerComplete,
         WorkerPost, Barrier!sem_post_
    <3>3. QED
      BY <3>1, <3>2, CycleOther DEF vars
  <2>2. spurious' # 0
    BY <1>1, <2>1 DEF TypeInv, TypeOK
  <2>3. QED
    BY <2>2 DEF CycleInv
<1>2. CASE spurious = 0 /\ js_create
  BY <1>2, CycleCreate
<1>3. CASE spurious = 0 /\ \E w \in Workers : Worker(w)
  BY <1>3, StartingWorker, CycleWorker
<1>4. CASE spurious = 0 /\ ~js_create /\ ~\E w \in Workers : Worker(w)
  <2>1. CASE UNCHANGED vars
    BY <2>1 DEF vars, sched, barrier, workers, master, CycleInv, Creating, Starting,
       AllReadyBetweenCycles
  <2>2. CASE spurious' = spurious + 1
    BY <1>4, <2>2 DEF CycleInv
  <2>3. CASE /\ ~Creating /\ ~Creating' /\ spurious' = spurious
             /\ UNCHANGED <<working, exit, ready>> \/ working' \/ exit'
    BY <1>4, <2>3 DEF CycleInv, AllReadyBetweenCycles, Creating
  <2>4. QED
    BY <1>4, <2>1, <2>2, <2>3, CycleOther
<1>5. QED
  BY <1>1, <1>2, <1>3, <1>4

(* Between two cycles every thread is ready, whatever the number of        *)
(* threads, as long as no thread was woken spuriously: the next            *)
(* js_execute_all_jobs finds ready = N (job_scheduler.c:227) and does not  *)
(* return with js->mutex locked.                                           *)
THEOREM CyclesEndReady == Spec => []AllReadyBetweenCycles
<1>1. Init => CycleInv
  BY DEF Init, CycleInv, Creating, Starting, AllReadyBetweenCycles, Barrier!sem_init_
<1>2. TypeInv /\ ReadyCount /\ ReadyCount' /\ CycleInv /\ [Next]_vars => CycleInv'
  BY CycleNext
<1>3. spurious = 0 /\ CycleInv => AllReadyBetweenCycles
  BY DEF CycleInv
<1>4. CycleInv => AllReadyBetweenCycles
  BY <1>3 DEF AllReadyBetweenCycles
<1>5. QED
  BY <1>1, <1>2, <1>4, Types, ReadyCounts, PTL DEF Spec

-----------------------------------------------------------------------------
(* Work that is left behind *)

\* js_join_threads sets exit once and ends the work cycle; only then do threads
\* exit, and only with nothing waiting.  No cycle begins between the test of
\* js_submit_job and its enqueue without waiting.
Closing ==
    /\ exit => ~working /\ mpc \in {"broadcastexit", "join", "gone"}
    /\ (\E w \in Workers : wpc[w] = "exited") => exit /\ waiting = <<>>
    /\ mpc = "append" => ~working

(* Closing, by the steps of a thread, *)
LEMMA ClosingWorker ==
    ASSUME TypeInv, Closing, NEW w \in Workers, Worker(w)
    PROVE  Closing'
<1>1. wpc \in [Workers -> WorkerPlaces]
  BY DEF TypeInv, TypeOK
<1>2. CASE WorkerSleep(w)
  <2>1. /\ wpc' = [wpc EXCEPT ![w] = "asleep"] /\ UNCHANGED <<exit, waiting>>
        /\ working' => working
        /\ mpc' = mpc \/ (mpc = "asleep" /\ mpc' = "submit")
    BY <1>2 DEF WorkerSleep, Move, SignalSubmitter, queues
  <2>2. QED
    BY <1>1, <2>1 DEF Closing
<1>3. CASE WorkerExit(w)
  <2>1. /\ wpc' = [wpc EXCEPT ![w] = "exited"] /\ UNCHANGED <<exit, waiting, working, mpc>>
        /\ exit /\ waiting = <<>>
    BY <1>3 DEF WorkerExit, MayExit, Move, queues, master
  <2>2. QED
    BY <1>1, <2>1 DEF Closing
<1>4. CASE WorkerTake(w)
  <2>1. /\ wpc' = [wpc EXCEPT ![w] = "run"] /\ UNCHANGED <<exit, working>>
        /\ waiting # <<>>
        /\ mpc' = mpc \/ (mpc = "blocked" /\ mpc' = "submit")
    BY <1>4 DEF WorkerTake, Move, UnblockSubmitter, WaitingQueue!Get, WaitingQueue!Empty
  <2>2. QED
    BY <1>1, <2>1 DEF Closing
<1>5. CASE WorkerRun(w) \/ WorkerComplete(w) \/ WorkerPost(w)
  <2>1. /\ \E to \in {"start", "complete", "post"} : wpc' = [wpc EXCEPT ![w] = to]
        /\ UNCHANGED <<exit, working, waiting, mpc>>
    BY <1>5 DEF WorkerRun, WorkerComplete, WorkerPost, Move, sched, queues, master
  <2>2. QED
    BY <1>1, <2>1 DEF Closing
<1>6. QED
  BY <1>2, <1>3, <1>4, <1>5 DEF Worker

(* and by any step. *)
LEMMA ClosingNext ==
    ASSUME TypeInv, Closing, [Next]_vars
    PROVE  Closing'
<1>1. CASE \E w \in Workers : Worker(w)
  BY <1>1, ClosingWorker
<1>2. CASE ~\E w \in Workers : Worker(w)
  <2>1. (\E w \in Workers : wpc'[w] = "exited") => \E w \in Workers : wpc[w] = "exited"
    BY <1>2, WhoMovesWorkers
  <2> USE DEF Closing, sched, queues
  <2>2. CASE js_submit_job
    BY <2>1, <2>2 DEF js_submit_job, SubmitCheck, SubmitNoneReady, SubmitDoze, SubmitGuarded,
       SubmitBlocked, SubmitSignal, SubmitPlain, OnlyMoves, OnlyWakes, Goto, Return, Calling
  <2>3. CASE js_execute_all_jobs
    BY <2>1, <2>3 DEF js_execute_all_jobs, ExecuteBusy, ExecuteBegin, ExecuteBroadcast,
       ExecuteNotReady, OnlyMoves, OnlyWakes, Goto, Return, Calling
  <2>4. CASE js_wait_job
    BY <2>1, <2>4 DEF js_wait_job, WaitJobComplete, WaitJobSleep, WaitJobSem, JobDone,
       AtWaitJob, Goto, Return, Calling
  <2>5. CASE js_wait_all_jobs
    BY <2>1, <2>5 DEF js_wait_all_jobs, WaitAllNothing, WaitAllBroadcast, WaitAllCollect,
       WaitAllNone, WaitAllPeek, AtWaitAll, OnlyMoves, OnlyWakes, Goto, Return, Calling
  <2>6. CASE js_create \/ js_destroy_job \/ JoinBarrier
    BY <2>1, <2>6 DEF js_create, js_destroy_job, JoinBarrier, BarrierArrive, BarrierAwake,
       Goto, Return, Calling
  <2>7. CASE JoinExit \/ JoinBroadcast \/ JoinDone
    BY <2>1, <2>7 DEF JoinExit, JoinBroadcast, JoinDone, OnlyMoves, OnlyWakes, Goto
  <2>8. CASE Spurious \/ Finished \/ UNCHANGED vars
    BY <2>1, <2>8 DEF Spurious, SpuriousBarrier, SpuriousSubmitter, SpuriousWorker,
       Finished, vars, master, Goto
  <2>9. QED
    BY <1>2, <2>2, <2>3, <2>4, <2>5, <2>6, <2>7, <2>8 DEF Next, MasterStep, js_destroy
<1>3. QED
  BY <1>1, <1>2

(* A thread that is awake can look for work. *)
Awake == \E w \in Workers : wpc[w] \notin {"asleep", "exited"}

(* The steps after which a job waits in a work cycle. *)
LEMMA StrandedNext ==
    ASSUME TypeInv, Closing, NoStrandedWork, [Next]_vars
    PROVE  NoStrandedWork'
<1>1. wpc \in [Workers -> WorkerPlaces]
  BY DEF TypeInv, TypeOK
<1>2. ASSUME NEW w \in Workers, Worker(w) PROVE NoStrandedWork'
  <2>1. CASE WorkerSleep(w) \/ WorkerExit(w)
    <3>1. waiting' = waiting
      BY <2>1 DEF WorkerSleep, WorkerExit, queues
    <3>2. working' => working
      BY <2>1, Zenon DEF WorkerSleep, WorkerExit
    <3>3. ~(working /\ waiting # <<>>)
      BY <2>1 DEF WorkerSleep, WorkerExit, NothingToDo, MayExit
    <3>4. QED
      BY <3>1, <3>3, <3>2 DEF NoStrandedWork
  <2>2. CASE ~(WorkerSleep(w) \/ WorkerExit(w))
    <3>1. \E to \in {"run", "complete", "post", "start"} : wpc' = [wpc EXCEPT ![w] = to]
      BY <1>2, <2>2 DEF Worker, WorkerTake, WorkerRun, WorkerComplete, WorkerPost, Move
    <3>2. wpc'[w] \notin {"asleep", "exited"}
      BY <1>1, <3>1
    <3>3. QED
      BY <3>2 DEF NoStrandedWork
  <2>3. QED
    BY <2>1, <2>2
<1>3. ASSUME ~\E w \in Workers : Worker(w) PROVE NoStrandedWork'
  <2>1. \A w \in Workers : wpc'[w] = wpc[w] \/ (wpc[w] = "asleep" /\ wpc'[w] = "woken")
    BY <1>3, WhoMovesWorkers
  <2>2. Awake => Awake'
    BY <2>1 DEF Awake
  <2>3. CASE SubmitSignal \/ ExecuteBroadcast
    <3>1. working' => \A w \in Workers : wpc[w] # "exited"
      BY <2>3 DEF SubmitSignal, ExecuteBroadcast, OnlyWakes, sched, Closing
    <3>2. Workers # {}
      BY SchedulerAssumption
    <3>3. (\A w \in Workers : wpc[w] # "exited") => Awake'
      BY <1>1, <2>3, <3>2 DEF SubmitSignal, ExecuteBroadcast, SIGNAL_WAKEUP_,
         BROADCAST_WAKEUP_, Asleep, Move, Awake
    <3>4. QED
      BY <3>1, <3>3 DEF NoStrandedWork, Awake
  <2>4. CASE SubmitGuarded \/ SubmitPlain \/ ExecuteBegin
    <3>1. mpc' \in {"signal", "broadcast"} \/ ~working'
      BY <2>4 DEF SubmitGuarded, SubmitPlain, ExecuteBegin, Goto, Closing
    <3>2. QED
      BY <3>1 DEF NoStrandedWork
  <2>5. CASE ~(SubmitSignal \/ ExecuteBroadcast \/ SubmitGuarded \/ SubmitPlain \/ ExecuteBegin)
    <3>1. /\ waiting' = waiting /\ (working' => working)
          /\ mpc \in {"broadcast", "signal"} => mpc' = mpc
      <4> USE DEF sched, queues, Goto, Return, Calling
      <4>1. CASE js_submit_job
        BY <2>5, <4>1 DEF js_submit_job, SubmitCheck, SubmitNoneReady, SubmitDoze,
           SubmitBlocked, OnlyMoves
      <4>2. CASE js_execute_all_jobs
        BY <2>5, <4>2 DEF js_execute_all_jobs, ExecuteBusy, ExecuteNotReady, OnlyMoves
      <4>3. CASE js_wait_job
        BY <4>3 DEF js_wait_job, WaitJobComplete, WaitJobSleep, WaitJobSem, JobDone, AtWaitJob
      <4>4. CASE js_wait_all_jobs
        BY <4>4 DEF js_wait_all_jobs, WaitAllNothing, WaitAllBroadcast, WaitAllCollect,
           WaitAllNone, WaitAllPeek, AtWaitAll, OnlyMoves, OnlyWakes
      <4>5. CASE js_create \/ js_destroy_job \/ js_destroy
        BY <4>5 DEF js_create, js_destroy_job, js_destroy, JoinBarrier, BarrierArrive,
           BarrierAwake, JoinExit, JoinBroadcast, JoinDone, OnlyMoves, OnlyWakes
      <4>6. CASE Spurious \/ Finished \/ UNCHANGED vars
        BY <4>6 DEF Spurious, SpuriousBarrier, SpuriousSubmitter, SpuriousWorker,
           Finished, vars, master
      <4>7. QED
        BY <1>3, <4>1, <4>2, <4>3, <4>4, <4>5, <4>6 DEF Next, MasterStep
    <3>2. NoStrandedWork => ~working \/ waiting = <<>> \/ mpc \in {"broadcast", "signal"} \/ Awake
      BY DEF NoStrandedWork, Awake
    <3>3. Awake' \/ ~working' \/ waiting' = <<>> \/ mpc' \in {"broadcast", "signal"}
      BY <2>2, <3>1, <3>2
    <3>4. QED
      BY <3>3 DEF NoStrandedWork, Awake
  <2>6. QED
    BY <2>3, <2>4, <2>5
<1>4. QED
  BY <1>2, <1>3

(* In a work cycle no job waits while every thread sleeps, for any number  *)
(* of threads and any spurious wakeups, unless the master is about to wake *)
(* one (job_scheduler.c:73, 240, 275).                                     *)
THEOREM NoWorkStranded == Spec => []NoStrandedWork
<1>1. Init => Closing /\ NoStrandedWork
  BY DEF Init, Closing, NoStrandedWork
<1>2. TypeInv /\ Closing /\ [Next]_vars => Closing'
  BY ClosingNext
<1>3. TypeInv /\ Closing /\ NoStrandedWork /\ [Next]_vars => NoStrandedWork'
  BY StrandedNext
<1>4. QED
  BY <1>1, <1>2, <1>3, Types, PTL DEF Spec

-----------------------------------------------------------------------------
(* The running queue *)

\* A job is started and goes into the running queue, or is dropped,
Started ==
    \E j \in Jobs :
        /\ started' = Append(started, j) /\ collected' = collected
        /\ \/ Len(running) < QueueSize /\ running' = Append(running, j)
           \/ Len(running) >= QueueSize /\ running' = running

\* or js_wait_all_jobs takes one out.
Collected ==
    /\ running # <<>>
    /\ running' = Tail(running)
    /\ collected' = Append(collected, Head(running))
    /\ started' = started

(* No step does anything else to the running queue. *)
LEMMA WhoTouchesRunning ==
    ASSUME TypeInv, [Next]_vars
    PROVE  UNCHANGED <<running, started, collected>> \/ Started \/ Collected
<1> USE DEF sched, queues, history
<1>1. ASSUME NEW w \in Workers, WorkerTake(w) PROVE Started
  <2>1. Head(waiting) \in Jobs /\ running \in Seq(Jobs) /\ QueueSize \in Nat
    BY <1>1, SchedulerAssumption DEF WorkerTake, WaitingQueue!Get, WaitingQueue!Empty,
       TypeInv, TypeOK
  <2>2. QED
    BY <1>1, <2>1 DEF WorkerTake, EnqueueRunning, RunningQueue!Put, RunningQueue!Full, Started
<1>2. CASE \E w \in Workers : Worker(w) /\ ~WorkerTake(w)
  BY <1>2 DEF Worker, WorkerSleep, WorkerExit, WorkerRun, WorkerComplete, WorkerPost
<1>3. CASE js_submit_job
  BY <1>3 DEF js_submit_job, SubmitCheck, SubmitNoneReady, SubmitDoze, SubmitGuarded,
     SubmitPlain, SubmitBlocked, SubmitSignal, OnlyMoves, OnlyWakes
<1>4. CASE js_create \/ js_destroy
  BY <1>4 DEF js_create, js_destroy, JoinBarrier, JoinExit, JoinBroadcast, JoinDone,
     BarrierArrive, BarrierAwake, OnlyMoves, OnlyWakes
<1>5. CASE js_execute_all_jobs
  BY <1>5 DEF js_execute_all_jobs, ExecuteBusy, ExecuteBegin, ExecuteBroadcast,
     ExecuteNotReady, OnlyMoves, OnlyWakes
<1>6. CASE js_wait_job \/ js_destroy_job
  BY <1>6 DEF js_wait_job, WaitJobComplete, WaitJobSleep, WaitJobSem, JobDone, js_destroy_job
<1>7. CASE js_wait_all_jobs
  BY <1>7 DEF js_wait_all_jobs, WaitAllNothing, WaitAllBroadcast, WaitAllCollect,
     WaitAllNone, WaitAllPeek, OnlyMoves, OnlyWakes, RunningQueue!Get, RunningQueue!Empty,
     Collected
<1>8. CASE Spurious \/ UNCHANGED vars
  BY <1>8 DEF Spurious, SpuriousWorker, SpuriousSubmitter, SpuriousBarrier, vars
<1>9. QED
  BY <1>1, <1>2, <1>3, <1>4, <1>5, <1>6, <1>7, <1>8 DEF Next, MasterStep, Finished

(* The lengths of the queues when a job goes in or out. *)
LEMMA Lengths ==
    ASSUME NEW S, NEW s \in Seq(S), NEW t \in Seq(S), NEW x \in S
    PROVE  /\ Len(Append(s, x)) = Len(s) + 1 /\ Len(s \o t) = Len(s) + Len(t)
           /\ t # <<>> => Len(Tail(t)) = Len(t) - 1 /\ Len(Append(s, Head(t))) = Len(s) + 1
           /\ Len(s) \in Nat /\ Len(t) \in Nat
OBVIOUS

(* Jobs come out of the running queue, by js_wait_all_jobs, in the order   *)
(* in which they were started, and all of them do, unless more were        *)
(* started than it has room for: the result of the enqueue is ignored      *)
(* (job_scheduler.c:91, 318).                                              *)
THEOREM CollectsInOrder == Spec => []CollectedInOrder
<1>1. Init => CollectedInOrder
  BY DEF Init, CollectedInOrder, RunningQueue!Init
<1>2. TypeInv /\ CollectedInOrder /\ [Next]_vars => CollectedInOrder'
  <2> SUFFICES ASSUME TypeInv, CollectedInOrder, [Next]_vars
               PROVE  CollectedInOrder'
    OBVIOUS
  <2>1. /\ started \in Seq(Jobs) /\ running \in Seq(Jobs) /\ collected \in Seq(Jobs)
        /\ QueueSize \in Nat
    BY SchedulerAssumption DEF TypeInv, TypeOK
  <2>2. CASE UNCHANGED <<running, started, collected>>
    BY <2>2 DEF CollectedInOrder
  <2>3. CASE Started
    <3>1. PICK j \in Jobs :
            /\ started' = Append(started, j) /\ collected' = collected
            /\ \/ Len(running) < QueueSize /\ running' = Append(running, j)
               \/ Len(running) >= QueueSize /\ running' = running
      BY <2>3 DEF Started
    <3>2. CASE running' = Append(running, j)
      <4>1. collected \o Append(running, j) = Append(collected \o running, j)
        BY <2>1, EndGrows
      <4>2. Len(started') = Len(started) + 1 /\ Len(running') = Len(running) + 1
        BY <2>1, <3>1, <3>2, Lengths
      <4>3. Len(started) \in Nat /\ Len(running) \in Nat /\ Len(collected) \in Nat
        BY <2>1, Lengths
      <4>4. QED
        BY <2>1, <3>1, <3>2, <4>1, <4>2, <4>3 DEF CollectedInOrder
    <3>3. CASE Len(running) >= QueueSize /\ running' = running
      <4>1. /\ Len(started') = Len(started) + 1
            /\ Len(collected \o running) = Len(collected) + Len(running)
            /\ Len(started) \in Nat /\ Len(running) \in Nat /\ Len(collected) \in Nat
        BY <2>1, <3>1, Lengths
      <4>2. QED
        BY <2>1, <3>1, <3>3, <4>1 DEF CollectedInOrder
    <3>4. QED
      BY <3>1, <3>2, <3>3
  <2>4. CASE Collected
    <3>1. collected' \o running' = collected \o running
      BY <2>1, <2>4, HeadMoves DEF Collected
    <3>2. /\ Len(running') = Len(running) - 1 /\ Len(collected') = Len(collected) + 1
          /\ Len(running) \in Nat /\ Len(collected) \in Nat
      <4>1. Head(running) \in Jobs
        BY <2>1, <2>4 DEF Collected
      <4>2. QED
        BY <2>1, <2>4, <4>1, Lengths DEF Collected
    <3>3. QED
      BY <2>1, <2>4, <3>1, <3>2 DEF CollectedInOrder, Collected
  <2>5. QED
    BY <2>2, <2>3, <2>4, WhoTouchesRunning
<1>3. QED
  BY <1>1, <1>2, Types, PTL DEF Spec

-----------------------------------------------------------------------------
(* sem_barrier as a counting semaphore *)

\* Without spurious wakeups the master is woken only when there is a permit for
\* it, and it is either asleep or woken.
Paid ==
    /\ spurious = 0
    /\ semSleeping \cap semSignalled = {}
    /\ semSignalled # {} => semValue >= 0

permits == semValue + Cardinality(Barrier!Inside)

\* What the steps of CountingSemaphore say of sem_barrier.
Post  == permits' = permits + 1 /\ UNCHANGED Barrier!Inside
Arrive == /\ Barrier!Inside = {} /\ Barrier!Inside' = {Master}
          /\ permits' = permits
Pass  == permits > 0 /\ permits' = permits - 1 /\ Barrier!Inside' = {}
Stay  == permits' = permits /\ UNCHANGED Barrier!Inside

(* The cardinality that Semaphore speaks of is the same. *)
LEMMA SameCardinality == \A S : Barrier!Cardinality(S) = Cardinality(S)
BY Zenon DEF Barrier!Cardinality, Cardinality

(* These are the steps of CountingSemaphore. *)
LEMMA CountingSteps ==
    ASSUME Post \/ Arrive \/ Pass \/ Stay, Barrier!Inside \subseteq {Master}
    PROVE  [Barrier!Counting!Next]_(Barrier!Counting!vars)
<1>1. permits = semValue + Barrier!Cardinality(Barrier!Inside)
  BY SameCardinality DEF permits
<1>2. permits' = (semValue + Barrier!Cardinality(Barrier!Inside))'
  BY SameCardinality DEF permits
<1>3. CASE Post
  BY <1>1, <1>2, <1>3 DEF Post, Barrier!Counting!Next, Barrier!Counting!Post
<1>4. CASE Arrive
  BY <1>1, <1>2, <1>4 DEF Arrive, Barrier!Counting!Next, Barrier!Counting!Arrive
<1>5. CASE Pass
  BY <1>1, <1>2, <1>5 DEF Pass, Barrier!Counting!Next, Barrier!Counting!Pass
<1>6. CASE Stay
  BY <1>1, <1>2, <1>6 DEF Stay, Barrier!Counting!vars
<1>7. QED
  BY <1>3, <1>4, <1>5, <1>6

(* The master alone is inside the barrier, or nobody. *)
LEMMA InsideCounts ==
    ASSUME NEW v \in Int, NEW S, S \subseteq {Master}
    PROVE  /\ S = {} => v + Cardinality(S) = v
           /\ S # {} => S = {Master} /\ v + Cardinality(S) = v + 1
<1>1. S = {} \/ S = {Master}
  OBVIOUS
<1>2. Cardinality({Master}) = 1 /\ Cardinality({}) = 0
  BY FS_Singleton, FS_EmptySet
<1>3. QED
  BY <1>1, <1>2

(* The permits before and after a step, by who is inside. *)
LEMMA PermitsOf ==
    ASSUME TypeOK, TypeOK'
    PROVE  /\ semValue \in Int /\ semValue' \in Int
           /\ Barrier!Inside \subseteq {Master}
           /\ Barrier!Inside = {} => permits = semValue
           /\ Barrier!Inside' = {} => permits' = semValue'
           /\ Barrier!Inside # {} => Barrier!Inside = {Master} /\ permits = semValue + 1
           /\ Barrier!Inside' # {} => Barrier!Inside' = {Master} /\ permits' = semValue' + 1
<1>1. /\ Barrier!Inside \subseteq {Master} /\ Barrier!Inside' \subseteq {Master}
      /\ semValue \in Int /\ semValue' \in Int
  BY DEF TypeOK, Barrier!Inside
<1>2. QED
  BY <1>1, InsideCounts DEF permits

(* sem_post_ makes a permit; *)
LEMMA PostCounts ==
    ASSUME TypeOK, TypeOK', Paid, Barrier!sem_post_
    PROVE  Paid' /\ Post
<1>1. /\ semValue' = semValue + 1 /\ Barrier!Inside' = Barrier!Inside
      /\ spurious' = spurious
  BY DEF Barrier!sem_post_, Barrier!Signal, Barrier!WakesWaiter, Barrier!Inside
<1>2. semValue \in Int
  BY DEF TypeOK
<1>3. /\ semSleeping' \cap semSignalled' = {}
      /\ semSignalled' # {} => semValue' >= 0
  BY <1>2 DEF Paid, Barrier!sem_post_, Barrier!Signal, Barrier!WakesWaiter
<1>4. Paid'
  BY <1>1, <1>3 DEF Paid
<1>5. QED
  BY <1>1, <1>2, <1>4, PermitsOf DEF Post

(* and sem_wait_ arrives, passes for a permit, or stays where it is. *)
LEMMA WaitCounts ==
    ASSUME TypeOK, TypeOK', Paid, Barrier!Wait(Master)
    PROVE  Paid' /\ (Arrive \/ Pass \/ Stay)
<1>1. semValue \in Int /\ semSleeping \subseteq {Master} /\ semSignalled \subseteq {Master}
  BY DEF TypeOK
<1> USE DEF Barrier!Inside
<1>2. CASE Barrier!WaitBlock(Master)
  <2>1. /\ semValue' = semValue - 1 /\ Master \notin Barrier!Inside
        /\ semSleeping' = semSleeping \cup {Master}
        /\ UNCHANGED <<semSignalled, spurious>>
    BY <1>2 DEF Barrier!WaitBlock
  <2>2. Barrier!Inside = {} /\ Barrier!Inside' = {Master} /\ semSignalled = {}
    BY <1>1, <2>1
  <2>3. QED
    BY <1>1, <2>1, <2>2, PermitsOf DEF Arrive, Paid
<1>3. CASE Barrier!WaitThrough(Master)
  <2>1. /\ semValue' = semValue - 1 /\ semValue - 1 >= 0 /\ Master \notin Barrier!Inside
        /\ UNCHANGED <<semSleeping, semSignalled, spurious>>
    BY <1>1, <1>3 DEF Barrier!WaitThrough, Barrier!MustSleep, Barrier!Leave
  <2>2. Barrier!Inside = {} /\ Barrier!Inside' = {} /\ semSignalled = {}
    BY <1>1, <2>1
  <2>3. QED
    BY <1>1, <2>1, <2>2, PermitsOf DEF Pass, Paid
<1>4. CASE Barrier!WakePass(Master)
  <2>1. /\ semValue' = semValue /\ Master \in semSignalled
        /\ semSignalled' = semSignalled \ {Master}
        /\ UNCHANGED <<semSleeping, spurious>>
    BY <1>4 DEF Barrier!WakePass, Barrier!Leave
  <2>2. /\ semValue >= 0 /\ semSleeping = {} /\ semSignalled' = {}
        /\ Barrier!Inside = {Master} /\ Barrier!Inside' = {}
    BY <1>1, <2>1 DEF Paid
  <2>3. QED
    BY <1>1, <2>1, <2>2, PermitsOf DEF Pass, Paid
<1>5. CASE Barrier!WakeAgain(Master)
  <2>1. /\ semValue' = semValue /\ Master \in semSignalled
        /\ semSignalled' = semSignalled \ {Master}
        /\ semSleeping' = semSleeping \cup {Master} /\ UNCHANGED spurious
    BY <1>5 DEF Barrier!WakeAgain
  <2>2. Barrier!Inside = {Master} /\ Barrier!Inside' = {Master} /\ semSignalled' = {}
    BY <1>1, <2>1
  <2>3. QED
    BY <1>1, <2>1, <2>2, PermitsOf DEF Stay, Paid
<1>6. QED
  BY <1>2, <1>3, <1>4, <1>5 DEF Barrier!Wait

(* Which steps touch sem_barrier. *)
LEMMA WhoTouchesBarrier ==
    ASSUME [Next]_vars, MaxSpurious = 0, spurious = 0
    PROVE  Barrier!sem_post_ \/ Barrier!Wait(Master) \/ UNCHANGED <<barrier, spurious>>
<1>1. CASE \E w \in Workers : Worker(w)
  BY <1>1 DEF Worker, WorkerSleep, WorkerExit, WorkerTake, WorkerRun, WorkerComplete, WorkerPost
<1>2. CASE js_submit_job
  BY <1>2 DEF js_submit_job, SubmitCheck, SubmitNoneReady, SubmitDoze, SubmitGuarded,
     SubmitPlain, SubmitBlocked, SubmitSignal, OnlyMoves, OnlyWakes
<1>3. CASE js_create \/ JoinBarrier
  BY <1>3 DEF js_create, JoinBarrier, BarrierArrive, BarrierAwake, Barrier!Wait
<1>4. CASE JoinExit \/ JoinBroadcast \/ JoinDone \/ js_destroy_job
  BY <1>4 DEF JoinExit, JoinBroadcast, JoinDone, OnlyMoves, OnlyWakes, js_destroy_job
<1>5. CASE js_execute_all_jobs
  BY <1>5 DEF js_execute_all_jobs, ExecuteBusy, ExecuteBegin, ExecuteBroadcast,
     ExecuteNotReady, OnlyMoves, OnlyWakes
<1>6. CASE js_wait_job
  BY <1>6 DEF js_wait_job, WaitJobComplete, WaitJobSleep, WaitJobSem, JobDone
<1>7. CASE js_wait_all_jobs
  BY <1>7 DEF js_wait_all_jobs, WaitAllNothing, WaitAllBroadcast, WaitAllCollect,
     WaitAllNone, WaitAllPeek, OnlyMoves, OnlyWakes
<1>8. CASE Spurious
  BY <1>8 DEF Spurious, SpuriousWorker, SpuriousSubmitter, SpuriousBarrier,
     Barrier!SpuriousWake
<1>9. CASE Finished \/ UNCHANGED vars
  BY <1>9 DEF Finished, vars
<1>10. QED
  BY <1>1, <1>2, <1>3, <1>4, <1>5, <1>6, <1>7, <1>8, <1>9 DEF Next, MasterStep, js_destroy

(* Every step is one of CountingSemaphore, or does not touch the barrier.  *)
LEMMA BarrierNext ==
    ASSUME TypeOK, TypeOK', Paid, MaxSpurious = 0, [Next]_vars
    PROVE  Paid' /\ [Barrier!Counting!Next]_(Barrier!Counting!vars)
<1>1. CASE UNCHANGED <<barrier, spurious>>
  BY <1>1, PermitsOf, CountingSteps DEF barrier, Stay, Paid, permits, Barrier!Inside
<1>2. QED
  BY <1>1, WhoTouchesBarrier, PostCounts, WaitCounts, CountingSteps, PermitsOf DEF Paid

(* Where no thread is woken spuriously, sem_barrier is a counting          *)
(* semaphore to js_create and js_join_threads, for any number of threads:  *)
(* the master never gets past it without a post for each pass, although    *)
(* the value goes below zero and wakeups are counted apart                 *)
(* (semaphore.c:32-66, job_scheduler.c:105).                               *)
THEOREM BarrierIsCounting == ASSUME MaxSpurious = 0 PROVE Spec => BarrierCounts
<1>1. Init => Paid /\ Barrier!Counting!Init
  <2> SUFFICES ASSUME Init PROVE Paid /\ Barrier!Counting!Init
    OBVIOUS
  <2>1. /\ semValue = 1 - N /\ semSleeping = {} /\ semSignalled = {} /\ spurious = 0
    BY DEF Init, Barrier!sem_init_
  <2>2. N \in Nat
    BY FS_CardinalityType, SchedulerAssumption DEF N
  <2>3. Barrier!Inside = {}
    BY <2>1 DEF Barrier!Inside
  <2>4. semValue + Barrier!Cardinality(Barrier!Inside) = 1 - N
    BY <2>1, <2>2, <2>3, SameCardinality, FS_EmptySet
  <2>5. QED
    BY <2>1, <2>3, <2>4 DEF Paid, Barrier!Counting!Init
<1>2. /\ TypeInv /\ TypeInv' /\ Paid /\ [Next]_vars => Paid'
      /\ TypeInv /\ TypeInv' /\ Paid /\ [Next]_vars
            => [Barrier!Counting!Next]_(Barrier!Counting!vars)
  BY BarrierNext DEF TypeInv
<1>3. QED
  BY <1>1, <1>2, Types, PTL DEF Spec, BarrierCounts, Barrier!IsCountingSemaphore,
     Barrier!Counting!Spec

-----------------------------------------------------------------------------
(* The job pool *)

\* A job is created for one submission, as js_create_and_submit_job does.
SubmitsOnce(calls) ==
    \A i, k \in 1..Len(calls) :
        /\ calls[i].op = "submit" /\ calls[k].op = "submit"
        /\ calls[i].job = calls[k].job
        => i = k

InSeq(x, s) == \E i \in 1..Len(s) : s[i] = x
Distinct(s) == \A i, k \in 1..Len(s) : s[i] = s[k] => i = k

\* Threads that are running a job.
Busy == {w \in Workers : wpc[w] \in {"run", "complete"}}

\* No job is submitted twice, those that threads run are different, have been
\* taken out of the waiting queue and are not complete.
EachOnce ==
    /\ SubmitsOnce(todo)
    /\ Distinct(submitted)
    /\ \A i \in 1..Len(todo) :
          todo[i].op = "submit" /\ (i = 1 => mpc # "signal") => ~InSeq(todo[i].job, submitted)
    /\ \A w \in Busy : InSeq(wjob[w], started) /\ ~job[wjob[w]].complete
    /\ \A w \in Workers : wpc[w] = "post" => InSeq(wjob[w], started)
    /\ \A w, v \in Busy : wjob[w] = wjob[v] => w = v
    /\ \A j \in Jobs : job[j].complete => InSeq(j, started)

(* Sequences that grow at the end, or lose their head. *)
LEMMA InAppend ==
    ASSUME NEW S, NEW s \in Seq(S), NEW x \in S, NEW y
    PROVE  InSeq(y, Append(s, x)) <=> InSeq(y, s) \/ y = x
<1>1. Len(Append(s, x)) = Len(s) + 1 /\ Len(s) \in Nat
  OBVIOUS
<1>2. \A i \in 1..Len(s) : Append(s, x)[i] = s[i]
  OBVIOUS
<1>3. Append(s, x)[Len(s) + 1] = x
  OBVIOUS
<1>4. QED
  BY <1>1, <1>2, <1>3 DEF InSeq

(* A new element at the end keeps them distinct. *)
LEMMA DistinctAppend ==
    ASSUME NEW S, NEW s \in Seq(S), NEW x \in S, Distinct(s), ~InSeq(x, s)
    PROVE  Distinct(Append(s, x))
<1>1. Len(Append(s, x)) = Len(s) + 1 /\ Len(s) \in Nat
  OBVIOUS
<1>2. \A i \in 1..Len(s) : Append(s, x)[i] = s[i] /\ s[i] # x
  BY DEF InSeq
<1>3. Append(s, x)[Len(s) + 1] = x
  OBVIOUS
<1>4. QED
  BY <1>1, <1>2, <1>3 DEF Distinct

(* The oldest waiting job has not been started. *)
LEMMA HeadIsNew ==
    ASSUME NEW S, NEW s \in Seq(S), NEW t \in Seq(S), t # <<>>, Distinct(s \o t)
    PROVE  ~InSeq(Head(t), s)
<1>1. Len(s \o t) = Len(s) + Len(t) /\ Len(s) \in Nat /\ Len(t) \in Nat /\ Len(t) > 0
  OBVIOUS
<1>2. \A i \in 1..Len(s) : (s \o t)[i] = s[i]
  OBVIOUS
<1>3. (s \o t)[Len(s) + 1] = Head(t)
  OBVIOUS
<1>4. QED
  BY <1>1, <1>2, <1>3 DEF Distinct, InSeq

(* A job is in the sequence of all if it is in one of the two. *)
LEMMA InConcat ==
    ASSUME NEW S, NEW s \in Seq(S), NEW t \in Seq(S), NEW x
    PROVE  InSeq(x, s \o t) <=> InSeq(x, s) \/ InSeq(x, t)
<1>1. Len(s \o t) = Len(s) + Len(t) /\ Len(s) \in Nat /\ Len(t) \in Nat
  OBVIOUS
<1>2. \A i \in 1..Len(s) : (s \o t)[i] = s[i]
  OBVIOUS
<1>3. \A i \in 1..Len(t) : (s \o t)[Len(s) + i] = t[i]
  OBVIOUS
<1>4. ASSUME InSeq(x, s \o t) PROVE InSeq(x, s) \/ InSeq(x, t)
  <2>1. PICK i \in 1..(Len(s) + Len(t)) : (s \o t)[i] = x
    BY <1>1, <1>4 DEF InSeq
  <2>2. CASE i \in 1..Len(s)
    BY <1>2, <2>1, <2>2 DEF InSeq
  <2>3. CASE i \notin 1..Len(s)
    <3>1. i - Len(s) \in 1..Len(t) /\ i = Len(s) + (i - Len(s))
      BY <1>1, <2>1, <2>3
    <3>2. QED
      BY <1>3, <2>1, <3>1 DEF InSeq
  <2>4. QED
    BY <2>2, <2>3
<1>5. ASSUME InSeq(x, s) PROVE InSeq(x, s \o t)
  <2>1. PICK i \in 1..Len(s) : s[i] = x
    BY <1>5 DEF InSeq
  <2>2. i \in 1..Len(s \o t)
    BY <1>1
  <2>3. QED
    BY <1>2, <2>1, <2>2 DEF InSeq
<1>6. ASSUME InSeq(x, t) PROVE InSeq(x, s \o t)
  <2>1. PICK i \in 1..Len(t) : t[i] = x
    BY <1>6 DEF InSeq
  <2>2. Len(s) + i \in 1..Len(s \o t)
    BY <1>1
  <2>3. QED
    BY <1>3, <2>1, <2>2 DEF InSeq
<1>7. QED
  BY <1>4, <1>5, <1>6

\* What a step leaves alone that is none of the pool's: the queue and the histories,
QueuesKept == UNCHANGED <<waiting, submitted, started>>

\* what is complete and what is being run,
WorkKept ==
    /\ \A j \in Jobs : job'[j].complete = job[j].complete
    /\ Busy' = Busy
    /\ \A w \in Busy : wjob'[w] = wjob[w]
    /\ \A w \in Workers : wpc'[w] = "post" => wpc[w] = "post" /\ wjob'[w] = wjob[w]

\* and, with the submissions of the master, its place.
CallsKept ==
    \/ todo' = todo /\ (mpc' = "signal" <=> mpc = "signal")
    \/ todo # <<>> /\ todo' = Tail(todo) /\ mpc' # "signal"

PoolKept == QueuesKept /\ WorkKept /\ CallsKept /\ (mpc' = "gone" <=> mpc = "gone")

\* A submission that is accepted.
Accepts == /\ SubmitGuarded \/ SubmitPlain
           /\ WaitingQueue!Put(Call.job) /\ submitted' = Append(submitted, Call.job)

(* Steps of the master that move no thread and complete no job. *)
LEMMA WorkStays ==
    ASSUME TypeInv, UNCHANGED workers,
           \/ job' = job
           \/ \E j \in Jobs, s \in Nat, f \in BOOLEAN :
                 job' = [job EXCEPT ![j].sem_complete = s, ![j].freed = f]
    PROVE  WorkKept
<1>1. job \in [Jobs -> JobType]
  BY DEF TypeInv, TypeOK, JobType
<1>2. ASSUME NEW i \in Jobs PROVE job'[i].complete = job[i].complete
  <2>1. CASE job' = job
    BY <2>1
  <2>2. ASSUME NEW j \in Jobs, NEW s \in Nat, NEW f \in BOOLEAN,
               job' = [job EXCEPT ![j].sem_complete = s, ![j].freed = f]
        PROVE  job'[i].complete = job[i].complete
    BY <1>1, <2>2 DEF JobType
  <2>3. QED
    BY <2>1, <2>2
<1>3. QED
  BY <1>2 DEF WorkKept, Busy, workers

(* Threads that are woken were asleep. *)
LEMMA WorkWoken ==
    ASSUME TypeInv, job' = job, wjob' = wjob, BROADCAST_WAKEUP_ \/ SIGNAL_WAKEUP_
    PROVE  WorkKept
<1>1. ThreadTypes
  BY TypeParts DEF TypeInv
<1>2. \A w \in Workers : wpc'[w] = wpc[w] \/ (wpc[w] = "asleep" /\ wpc'[w] = "woken")
  BY <1>1, WakeTypes
<1>3. Busy' = Busy
  BY <1>2 DEF Busy
<1>4. QED
  BY <1>2, <1>3 DEF WorkKept

(* What each step is to the pool. *)
LEMMA PoolSteps ==
    ASSUME TypeInv, [Next]_vars
    PROVE  \/ PoolKept
           \/ Accepts
           \/ \E w \in Workers : WorkerTake(w) \/ WorkerComplete(w)
           \/ JoinDone
<1>1. wpc \in [Workers -> WorkerPlaces] /\ wjob \in [Workers -> Jobs \cup {NoJob}]
  BY DEF TypeInv, TypeOK
<1> USE DEF sched, queues, history, QueuesKept
<1>2. ASSUME NEW w \in Workers, Worker(w), ~WorkerTake(w), ~WorkerComplete(w)
      PROVE  PoolKept
  <2>1. /\ QueuesKept /\ todo' = todo
        /\ mpc' = mpc \/ (mpc = "asleep" /\ mpc' = "submit")
    BY <1>2 DEF Worker, WorkerSleep, WorkerExit, WorkerRun, WorkerPost, SignalSubmitter, master
  <2>2. WorkKept
    <3>1. CASE WorkerSleep(w) \/ WorkerExit(w)
      <4>1. /\ wpc' = [wpc EXCEPT ![w] = "asleep"] \/ wpc' = [wpc EXCEPT ![w] = "exited"]
            /\ wpc[w] \in {"start", "woken"} /\ UNCHANGED <<wjob, job>>
        BY <3>1 DEF WorkerSleep, WorkerExit, Move, AtLock
      <4>2. QED
        BY <1>1, <4>1 DEF WorkKept, Busy
    <3>2. CASE WorkerRun(w)
      <4>1. /\ wpc' = [wpc EXCEPT ![w] = "complete"] /\ wpc[w] = "run" /\ wjob' = wjob
            /\ wjob[w] \in Jobs /\ job' = [job EXCEPT ![wjob[w]].ran = TRUE]
        BY <3>2 DEF WorkerRun, Move, TypeInv, InCallOK
      <4>2. \A j \in Jobs : job'[j].complete = job[j].complete
        BY <4>1 DEF TypeInv, TypeOK
      <4>3. QED
        BY <1>1, <4>1, <4>2 DEF WorkKept, Busy
    <3>3. CASE WorkerPost(w)
      <4>1. /\ wpc' = [wpc EXCEPT ![w] = "start"] /\ wpc[w] = "post"
            /\ wjob' = [wjob EXCEPT ![w] = NoJob]
            /\ wjob[w] \in Jobs /\ job' = [job EXCEPT ![wjob[w]].sem_complete = @ + 1]
        BY <3>3 DEF WorkerPost, NOTIFY_JOB_COMPLETE_, Move, TypeInv, InCallOK
      <4>2. \A j \in Jobs : job'[j].complete = job[j].complete
        BY <4>1 DEF TypeInv, TypeOK
      <4>3. QED
        BY <1>1, <4>1, <4>2 DEF WorkKept, Busy
    <3>4. QED
      BY <1>2, <3>1, <3>2, <3>3 DEF Worker
  <2>3. QED
    BY <2>1, <2>2 DEF PoolKept, CallsKept
<1>3. CASE SubmitGuarded \/ SubmitPlain
  <2>1. CASE waiting' = waiting /\ submitted' = submitted
    <3>1. SubmitPlain
      <4>1. ASSUME SubmitGuarded PROVE FALSE
        <5>1. Len(submitted') = Len(submitted) + 1 /\ Len(submitted) \in Nat
          BY <4>1 DEF SubmitGuarded, TypeInv, TypeOK
        <5>2. QED
          BY <2>1, <5>1
      <4>2. QED
        BY <1>3, <4>1
    <3>2. /\ UNCHANGED workers /\ job' = job /\ started' = started /\ todo # <<>>
          /\ mpc = "append" /\ mpc' = "idle" /\ todo' = Tail(todo)
      BY <3>1 DEF SubmitPlain, Return, TypeInv, InCallOK, SubmitPlaces
    <3>3. QED
      BY <2>1, <3>2, WorkStays DEF PoolKept, CallsKept
  <2>2. CASE ~(waiting' = waiting /\ submitted' = submitted)
    BY <1>3, <2>2 DEF SubmitGuarded, SubmitPlain, PlainPut, Accepts
  <2>3. QED
    BY <2>1, <2>2
<1>4. CASE js_submit_job /\ ~(SubmitGuarded \/ SubmitPlain)
  <2>1. CASE SubmitSignal
    <3>1. UNCHANGED <<job, wjob>> /\ (BROADCAST_WAKEUP_ \/ SIGNAL_WAKEUP_)
      BY <2>1 DEF SubmitSignal, OnlyWakes
    <3>2. QED
      BY <2>1, <3>1, WorkWoken DEF SubmitSignal, OnlyWakes, Return, PoolKept, CallsKept,
         TypeInv, InCallOK, SubmitPlaces
  <2>2. CASE ~SubmitSignal
    <3>1. /\ UNCHANGED <<workers, job>> /\ QueuesKept /\ todo' = todo
          /\ mpc \notin {"signal", "gone"} /\ mpc' \notin {"signal", "gone"}
      BY <1>4, <2>2 DEF js_submit_job, SubmitCheck, SubmitNoneReady, SubmitDoze,
         SubmitBlocked, OnlyMoves, Goto, Calling
    <3>2. QED
      BY <3>1, WorkStays DEF PoolKept, CallsKept
  <2>3. QED
    BY <2>1, <2>2
<1>5. CASE js_create \/ JoinBarrier \/ JoinExit
  <2>1. /\ UNCHANGED <<workers, job>> /\ QueuesKept /\ todo' = todo
        /\ mpc \notin {"signal", "gone"} /\ mpc' \notin {"signal", "gone"}
    BY <1>5 DEF js_create, JoinBarrier, BarrierArrive, BarrierAwake, JoinExit, Goto, Calling
  <2>2. QED
    BY <2>1, WorkStays DEF PoolKept, CallsKept
<1>6. CASE JoinBroadcast \/ ExecuteBroadcast \/ WaitAllBroadcast
  <2>1. /\ UNCHANGED <<job, wjob>> /\ BROADCAST_WAKEUP_ /\ QueuesKept
        /\ \/ todo' = todo
           \/ todo # <<>> /\ todo' = Tail(todo)
        /\ mpc \notin {"signal", "gone"} /\ mpc' \notin {"signal", "gone"}
    BY <1>6 DEF JoinBroadcast, ExecuteBroadcast, WaitAllBroadcast, OnlyWakes, Goto, Return,
       AtWaitAll, Calling, TypeInv, InCallOK
  <2>2. QED
    BY <2>1, WorkWoken DEF PoolKept, CallsKept
<1>7. CASE js_execute_all_jobs /\ ~ExecuteBroadcast
  <2>1. /\ UNCHANGED <<job, workers>> /\ QueuesKept
        /\ \/ todo' = todo
           \/ todo # <<>> /\ todo' = Tail(todo)
        /\ mpc \notin {"signal", "gone"} /\ mpc' \notin {"signal", "gone"}
    BY <1>7 DEF js_execute_all_jobs, ExecuteBusy, ExecuteBegin, ExecuteNotReady, OnlyMoves,
       Goto, Return, Calling
  <2>2. QED
    BY <2>1, WorkStays DEF PoolKept, CallsKept
<1>8. CASE js_wait_all_jobs /\ ~WaitAllBroadcast
  <2>1. /\ UNCHANGED <<job, workers>> /\ QueuesKept
        /\ \/ todo' = todo
           \/ todo # <<>> /\ todo' = Tail(todo)
        /\ mpc \notin {"signal", "gone"} /\ mpc' \notin {"signal", "gone"}
    BY <1>8 DEF js_wait_all_jobs, WaitAllNothing, WaitAllCollect, WaitAllNone, WaitAllPeek,
       AtWaitAll, OnlyMoves, Goto, Return, Calling, TypeInv, InCallOK, WaitAllPlaces
  <2>2. QED
    BY <2>1, WorkStays DEF PoolKept, CallsKept
<1>9. ASSUME NEW j \in Jobs, NEW s \in Nat, JobDone(j, s), todo # <<>>, mpc \notin {"signal", "gone"}
      PROVE  PoolKept
  <2>1. /\ UNCHANGED workers /\ QueuesKept
        /\ \/ todo' = todo
           \/ todo' = Tail(todo)
        /\ mpc' \notin {"signal", "gone"}
    BY <1>9 DEF JobDone, Goto, Return
  <2>2. \E f \in BOOLEAN : job' = [job EXCEPT ![j].sem_complete = s, ![j].freed = f]
    <3>1. job \in [Jobs -> JobType] /\ Call.flag \in BOOLEAN
      BY <1>9, HeadOfTodo DEF TypeInv, TypeOK, JobType, Calls
    <3>2. (job[j].freed \/ Call.flag) \in BOOLEAN
      BY <3>1
    <3>3. job' = [job EXCEPT ![j].sem_complete = s, ![j].freed = job[j].freed \/ Call.flag]
      BY <1>9, <3>1 DEF JobDone, JobType
    <3>4. QED
      BY <3>2, <3>3
  <2>3. QED
    BY <1>9, <2>1, <2>2, WorkStays DEF PoolKept, CallsKept
<1>10. CASE WaitJobComplete \/ WaitJobSem
  <2>1. /\ todo # <<>> /\ mpc \notin {"signal", "gone"}
    BY <1>10 DEF WaitJobComplete, WaitJobSem, AtWaitJob, Calling, TypeInv, InCallOK,
       WaitAllPlaces
  <2>2. /\ WaitJobComplete => JobInHand \in Jobs
        /\ WaitJobSem => mjob \in Jobs
    <3>1. WaitJobSem => mjob \in Jobs
      BY DEF WaitJobSem, TypeInv, InCallOK
    <3>2. CASE Calling("waitjob")
      BY <3>1, <3>2, CallingOK DEF JobInHand, Calling
    <3>3. CASE mpc = "waitjob"
      BY <3>1, <3>3 DEF JobInHand, TypeInv, InCallOK
    <3>4. QED
      BY <3>1, <3>2, <3>3 DEF WaitJobComplete, AtWaitJob
  <2>3. \E j \in Jobs, s \in Nat : JobDone(j, s)
    <3>1. \A j \in Jobs : job[j].sem_complete \in Nat
      BY DEF TypeInv, TypeOK
    <3>2. CASE WaitJobComplete
      BY <2>2, <3>1, <3>2 DEF WaitJobComplete, AtWaitJob, Calling
    <3>3. CASE WaitJobSem
      <4>1. mjob \in Jobs /\ job[mjob].sem_complete - 1 \in Nat
        BY <2>2, <3>1, <3>3 DEF WaitJobSem
      <4>2. QED
        BY <3>3, <4>1 DEF WaitJobSem
    <3>4. QED
      BY <1>10, <3>2, <3>3
  <2>4. QED
    BY <1>9, <2>1, <2>3
<1>11. CASE WaitJobSleep
  <2>1. /\ UNCHANGED <<workers, job>> /\ QueuesKept /\ todo' = todo
        /\ mpc \notin {"signal", "gone"} /\ mpc' \notin {"signal", "gone"}
    BY <1>11 DEF WaitJobSleep, AtWaitJob, Goto, Calling
  <2>2. QED
    BY <2>1, WorkStays DEF PoolKept, CallsKept
<1>12. CASE js_destroy_job
  <2>1. PICK j \in Jobs : j = Call.job
    BY <1>12, CallingOK DEF js_destroy_job
  <2>2. /\ UNCHANGED workers /\ QueuesKept /\ todo' = Tail(todo) /\ todo # <<>>
        /\ mpc = "idle" /\ mpc' = "idle"
        /\ job' = [job EXCEPT ![j].freed = TRUE] /\ job \in [Jobs -> JobType]
    BY <1>12, <2>1 DEF js_destroy_job, Calling, Return, TypeInv, TypeOK, JobType
  <2>3. /\ job[j].sem_complete \in Nat
        /\ job' = [job EXCEPT ![j].sem_complete = job[j].sem_complete, ![j].freed = TRUE]
    BY <2>2 DEF JobType
  <2>4. WorkKept
    BY <2>2, <2>3, WorkStays
  <2>5. QED
    BY <2>2, <2>4 DEF PoolKept, CallsKept
<1>13. ASSUME NEW w \in Workers, SpuriousWorker(w) PROVE PoolKept
  <2>1. /\ UNCHANGED <<job, wjob, mpc, todo>> /\ QueuesKept
        /\ wpc' = [wpc EXCEPT ![w] = "woken"] /\ wpc[w] = "asleep"
    BY <1>13 DEF SpuriousWorker, Move, master
  <2>2. WorkKept
    BY <1>1, <2>1 DEF WorkKept, Busy
  <2>3. QED
    BY <2>1, <2>2 DEF PoolKept, CallsKept
<1>14. CASE SpuriousSubmitter \/ SpuriousBarrier \/ Finished \/ UNCHANGED vars
  <2>1. /\ UNCHANGED <<workers, job, todo>> /\ QueuesKept
        /\ mpc' = mpc \/ (mpc = "asleep" /\ mpc' = "submit")
    BY <1>14 DEF SpuriousSubmitter, SpuriousBarrier, Finished, vars, master, Goto
  <2>2. QED
    BY <2>1, WorkStays DEF PoolKept, CallsKept
<1>15. QED
  BY <1>2, <1>3, <1>4, <1>5, <1>6, <1>7, <1>8, <1>10, <1>11, <1>12, <1>13, <1>14
     DEF Next, MasterStep, js_wait_job, js_destroy, Spurious

(* What is left after the first call. *)
LEMMA TailOnce ==
    ASSUME TypeInv, EachOnce, todo # <<>>
    PROVE  /\ SubmitsOnce(Tail(todo))
           /\ \A i \in 1..Len(Tail(todo)) :
                 Tail(todo)[i].op = "submit" =>
                     /\ ~InSeq(Tail(todo)[i].job, submitted)
                     /\ Call.op = "submit" => Tail(todo)[i].job # Call.job
<1>1. todo \in Seq(Calls) /\ Call = todo[1] /\ 1 \in 1..Len(todo)
  BY DEF TypeInv, TypeOK, Call
<1>2. \A i \in 1..Len(Tail(todo)) :
         i + 1 \in 1..Len(todo) /\ i + 1 # 1 /\ Tail(todo)[i] = todo[i + 1]
  BY <1>1
<1>3. SubmitsOnce(Tail(todo))
  <2> SUFFICES ASSUME NEW i \in 1..Len(Tail(todo)), NEW k \in 1..Len(Tail(todo)),
                      Tail(todo)[i].op = "submit", Tail(todo)[k].op = "submit",
                      Tail(todo)[i].job = Tail(todo)[k].job
               PROVE  i = k
    BY DEF SubmitsOnce
  <2>1. i + 1 = k + 1
    BY <1>2 DEF EachOnce, SubmitsOnce
  <2>2. QED
    BY <2>1
<1>4. ASSUME NEW i \in 1..Len(Tail(todo)), Tail(todo)[i].op = "submit"
      PROVE  /\ ~InSeq(Tail(todo)[i].job, submitted)
             /\ Call.op = "submit" => Tail(todo)[i].job # Call.job
  <2>1. ~InSeq(Tail(todo)[i].job, submitted)
    BY <1>2, <1>4 DEF EachOnce
  <2>2. Call.op = "submit" => Tail(todo)[i].job # Call.job
    BY <1>1, <1>2, <1>4 DEF EachOnce, SubmitsOnce
  <2>3. QED
    BY <2>1, <2>2
<1>5. QED
  BY <1>3, <1>4

(* A step that is none of the pool's. *)
LEMMA OnceKept ==
    ASSUME TypeInv, EachOnce, PoolKept
    PROVE  EachOnce'
<1>1. SubmitsOnce(todo') /\
      \A i \in 1..Len(todo') :
         todo'[i].op = "submit" /\ (i = 1 => mpc' # "signal") => ~InSeq(todo'[i].job, submitted')
  <2>1. CASE todo' = todo /\ (mpc' = "signal" <=> mpc = "signal")
    BY <2>1 DEF EachOnce, PoolKept, QueuesKept
  <2>2. CASE todo # <<>> /\ todo' = Tail(todo)
    BY <2>2, TailOnce DEF PoolKept, QueuesKept
  <2>3. QED
    BY <2>1, <2>2 DEF PoolKept, CallsKept
<1>2. \A w \in Busy' : w \in Busy /\ wjob'[w] = wjob[w] /\ wjob[w] \in Jobs
  BY DEF PoolKept, WorkKept, Busy, TypeInv, InCallOK
<1>3. \A w \in Busy' : InSeq(wjob'[w], started') /\ ~job'[wjob'[w]].complete
  BY <1>2 DEF EachOnce, PoolKept, QueuesKept, WorkKept
<1>4. \A w, v \in Busy' : wjob'[w] = wjob'[v] => w = v
  BY <1>2 DEF EachOnce
<1>5. /\ \A w \in Workers : wpc'[w] = "post" => InSeq(wjob'[w], started')
      /\ \A j \in Jobs : job'[j].complete => InSeq(j, started')
      /\ Distinct(submitted')
  BY DEF EachOnce, PoolKept, QueuesKept, WorkKept
<1>6. QED
  BY <1>1, <1>3, <1>4, <1>5 DEF EachOnce

(* The job of the call that the master is making. *)
LEMMA AcceptsNew ==
    ASSUME TypeInv, EachOnce, Accepts
    PROVE  /\ todo # <<>> /\ Call.op = "submit" /\ Call.job \in Jobs
           /\ ~InSeq(Call.job, submitted) /\ mpc # "gone" /\ mpc' # "gone"
           /\ UNCHANGED <<started, workers, job>>
           /\ \/ todo' = todo /\ mpc' = "signal"
              \/ todo' = Tail(todo) /\ mpc' # "signal"
<1>1. mpc \in {"submit", "append"}
  BY DEF Accepts, SubmitGuarded, SubmitPlain
<1>2. todo # <<>> /\ Call.op = "submit"
  BY <1>1 DEF TypeInv, InCallOK, SubmitPlaces
<1>3. Call.job \in Jobs
  BY <1>2, HeadOfTodo DEF NamesItsJob
<1>4. 1 \in 1..Len(todo) /\ Call = todo[1]
  BY <1>2 DEF TypeInv, TypeOK, Call
<1>5. ~InSeq(Call.job, submitted)
  BY <1>1, <1>2, <1>4 DEF EachOnce
<1>6. QED
  BY <1>1, <1>2, <1>3, <1>5 DEF Accepts, SubmitGuarded, SubmitPlain, Goto, Return

(* An accepted submission. *)
LEMMA OnceAccepts ==
    ASSUME TypeInv, EachOnce, Accepts
    PROVE  EachOnce'
<1>1. submitted' = Append(submitted, Call.job) /\ submitted \in Seq(Jobs)
  BY DEF Accepts, TypeInv, TypeOK
<1>2. \A j : InSeq(j, submitted') <=> InSeq(j, submitted) \/ j = Call.job
  BY <1>1, AcceptsNew, InAppend
<1>3. Distinct(submitted')
  BY <1>1, AcceptsNew, DistinctAppend DEF EachOnce
<1>4. SubmitsOnce(todo')
  BY AcceptsNew, TailOnce DEF EachOnce
<1>5. \A i \in 1..Len(todo') :
         todo'[i].op = "submit" /\ (i = 1 => mpc' # "signal") => ~InSeq(todo'[i].job, submitted')
  <2>1. CASE todo' = todo /\ mpc' = "signal"
    <3>1. todo \in Seq(Calls) /\ todo # <<>>
      BY AcceptsNew DEF TypeInv, TypeOK
    <3>2. Call = todo[1] /\ 1 \in 1..Len(todo)
      BY <3>1 DEF Call
    <3>3. ASSUME NEW i \in 1..Len(todo), todo[i].op = "submit", i # 1
          PROVE  ~InSeq(todo[i].job, submitted')
      <4>1. ~InSeq(todo[i].job, submitted)
        BY <3>3 DEF EachOnce
      <4>2. todo[i].job # Call.job
        BY <3>2, <3>3, AcceptsNew DEF EachOnce, SubmitsOnce
      <4>3. QED
        BY <1>2, <4>1, <4>2
    <3>4. QED
      BY <2>1, <3>3
  <2>2. CASE todo' = Tail(todo) /\ mpc' # "signal"
    BY <1>2, <2>2, AcceptsNew, TailOnce
  <2>3. QED
    BY <2>1, <2>2, AcceptsNew
<1>6. Busy' = Busy
  BY AcceptsNew DEF Busy, workers
<1>7. QED
  BY <1>3, <1>4, <1>5, <1>6, AcceptsNew DEF EachOnce, workers

(* What a thread takes has not been started. *)
LEMMA TakesNew ==
    ASSUME TypeInv, EachOnce, StartedInOrder, NEW w \in Workers, WorkerTake(w)
    PROVE  /\ waiting # <<>> /\ Head(waiting) \in Jobs /\ waiting' = Tail(waiting)
           /\ ~InSeq(Head(waiting), started)
           /\ started' = Append(started, Head(waiting))
           /\ wpc[w] \in {"start", "woken"} /\ wpc' = [wpc EXCEPT ![w] = "run"]
           /\ wjob' = [wjob EXCEPT ![w] = Head(waiting)]
           /\ UNCHANGED <<job, submitted, todo>>
           /\ mpc' = mpc \/ (mpc = "blocked" /\ mpc' = "submit")
<1>1. waiting \in Seq(Jobs) /\ started \in Seq(Jobs)
  BY DEF TypeInv, TypeOK
<1>2. waiting # <<>> /\ waiting' = Tail(waiting)
  BY DEF WorkerTake, WaitingQueue!Get, WaitingQueue!Empty
<1>3. Head(waiting) \in Jobs
  BY <1>1, <1>2
<1>4. Distinct(started \o waiting)
  BY DEF EachOnce, StartedInOrder
<1>5. ~InSeq(Head(waiting), started)
  BY <1>1, <1>2, <1>4, HeadIsNew
<1>6. QED
  BY <1>2, <1>3, <1>5 DEF WorkerTake, AtLock, Move, UnblockSubmitter

(* A thread takes a job. *)
LEMMA OnceTake ==
    ASSUME TypeInv, EachOnce, StartedInOrder, NEW w \in Workers, WorkerTake(w)
    PROVE  EachOnce'
<1> DEFINE h == Head(waiting)
<1>1. /\ wpc \in [Workers -> WorkerPlaces] /\ wjob \in [Workers -> Jobs \cup {NoJob}]
      /\ started \in Seq(Jobs)
  BY DEF TypeInv, TypeOK
<1>2. h \in Jobs /\ ~InSeq(h, started) /\ started' = Append(started, h)
  BY TakesNew
<1>3. \A j : InSeq(j, started') <=> InSeq(j, started) \/ j = h
  BY <1>1, <1>2, InAppend
<1>4. /\ Busy' = Busy \cup {w} /\ w \notin Busy
      /\ wjob'[w] = h /\ \A v \in Workers : v # w => wjob'[v] = wjob[v] /\ wpc'[v] = wpc[v]
      /\ wpc'[w] = "run"
  BY <1>1, TakesNew DEF Busy
<1> HIDE DEF h
<1>5. ASSUME NEW v \in Busy' PROVE InSeq(wjob'[v], started') /\ ~job'[wjob'[v]].complete
  <2>1. CASE v = w
    BY <1>2, <1>3, <1>4, <2>1, TakesNew DEF EachOnce
  <2>2. CASE v # w
    BY <1>3, <1>4, <1>5, <2>2, TakesNew DEF EachOnce, Busy
  <2>3. QED
    BY <2>1, <2>2
<1>6. ASSUME NEW u \in Busy', NEW v \in Busy', wjob'[u] = wjob'[v] PROVE u = v
  <2>1. \A x \in Busy : x # w /\ wjob'[x] = wjob[x] /\ wjob[x] # h
    BY <1>2, <1>4 DEF EachOnce, Busy
  <2>2. u \in Busy \cup {w} /\ v \in Busy \cup {w}
    BY <1>4
  <2>3. QED
    BY <1>4, <1>6, <2>1, <2>2 DEF EachOnce
<1>7. \A v \in Workers : wpc'[v] = "post" => InSeq(wjob'[v], started')
  BY <1>3, <1>4 DEF EachOnce
<1>8. \A j \in Jobs : job'[j].complete => InSeq(j, started')
  BY <1>3, TakesNew DEF EachOnce
<1>9. /\ SubmitsOnce(todo') /\ Distinct(submitted')
      /\ \A i \in 1..Len(todo') :
            todo'[i].op = "submit" /\ (i = 1 => mpc' # "signal") => ~InSeq(todo'[i].job, submitted')
  BY TakesNew DEF EachOnce
<1>10. QED
  BY <1>5, <1>6, <1>7, <1>8, <1>9 DEF EachOnce

(* A thread sets complete. *)
LEMMA CompleteStep ==
    ASSUME TypeInv, NEW w \in Workers, WorkerComplete(w)
    PROVE  /\ w \in Busy /\ wjob[w] \in Jobs
           /\ Busy' = Busy \ {w}
           /\ UNCHANGED <<wjob, waiting, submitted, started, mpc, todo>>
           /\ \A v \in Workers : wpc'[v] = "post" => v = w \/ wpc[v] = "post"
           /\ \A j \in Jobs : job'[j].complete <=> job[j].complete \/ j = wjob[w]
<1>1. /\ wpc \in [Workers -> WorkerPlaces] /\ wpc[w] = "complete"
      /\ wpc' = [wpc EXCEPT ![w] = "post"]
      /\ wjob[w] \in Jobs /\ job' = [job EXCEPT ![wjob[w]].complete = TRUE]
      /\ job \in [Jobs -> JobType]
  BY DEF WorkerComplete, Move, TypeInv, TypeOK, InCallOK, JobType
<1>2. \A j \in Jobs : job'[j].complete <=> job[j].complete \/ j = wjob[w]
  BY <1>1 DEF JobType
<1>3. QED
  BY <1>1, <1>2 DEF Busy, WorkerComplete, sched, queues, history, master

(* The job it ran is run no more. *)
LEMMA OnceComplete ==
    ASSUME TypeInv, EachOnce, NEW w \in Workers, WorkerComplete(w)
    PROVE  EachOnce'
<1>1. ASSUME NEW v \in Busy' PROVE InSeq(wjob'[v], started') /\ ~job'[wjob'[v]].complete
  <2>1. v \in Busy /\ v # w /\ wjob[v] \in Jobs /\ wjob'[v] = wjob[v]
    BY <1>1, CompleteStep DEF Busy, TypeInv, InCallOK
  <2>2. wjob[v] # wjob[w]
    BY <2>1, CompleteStep DEF EachOnce
  <2>3. QED
    BY <2>1, <2>2, CompleteStep DEF EachOnce
<1>2. \A u, v \in Busy' : wjob'[u] = wjob'[v] => u = v
  BY CompleteStep DEF EachOnce
<1>3. \A v \in Workers : wpc'[v] = "post" => InSeq(wjob'[v], started')
  BY CompleteStep DEF EachOnce
<1>4. \A j \in Jobs : job'[j].complete => InSeq(j, started')
  BY CompleteStep DEF EachOnce
<1>5. QED
  BY <1>1, <1>2, <1>3, <1>4, CompleteStep DEF EachOnce

(* EachOnce survives any step. *)
LEMMA OnceNext ==
    ASSUME TypeInv, EachOnce, StartedInOrder, [Next]_vars
    PROVE  EachOnce'
<1>1. CASE JoinDone
  <2>1. /\ UNCHANGED <<started, submitted, workers, job>> /\ mpc = "join"
        /\ todo' = Tail(todo)
    BY <1>1 DEF JoinDone, OnlyMoves, history
  <2>2. todo # <<>>
    BY <2>1 DEF TypeInv, InCallOK, DestroyPlaces
  <2>3. Busy' = Busy
    BY <2>1 DEF Busy, workers
  <2>4. \A i \in 1..Len(todo') : todo'[i].op = "submit" => ~InSeq(todo'[i].job, submitted')
    BY <2>1, <2>2, TailOnce
  <2>5. SubmitsOnce(todo')
    BY <2>1, <2>2, TailOnce
  <2>6. QED
    BY <2>1, <2>3, <2>4, <2>5 DEF EachOnce, workers
<1>2. QED
  BY <1>1, PoolSteps, OnceKept, OnceAccepts, OnceTake, OnceComplete

\* The jobs being run, and the finished ones, to the pool.
Active == {wjob[w] : w \in Busy}
Done == {j \in Jobs : job[j].complete}

(* Taking a job, there is room for one more: the thread itself is not busy. *)
LEMMA RoomForOne ==
    ASSUME TypeInv, NEW w \in Workers, w \notin Busy
    PROVE  Cardinality(Active) < N
<1> DEFINE f == [v \in Busy |-> wjob[v]]
<1>1. Busy \subseteq Workers \ {w}
  BY DEF Busy
<1>2. /\ IsFiniteSet(Workers \ {w}) /\ Cardinality(Workers \ {w}) = N - 1
      /\ N \in Nat
  BY FS_RemoveElement, FS_CardinalityType, SchedulerAssumption DEF N
<1>3. IsFiniteSet(Busy) /\ Cardinality(Busy) <= N - 1
  BY <1>1, <1>2, FS_Subset
<1>4. f \in Surjection(Busy, Active)
  BY DEF Surjection, Active
<1>5. IsFiniteSet(Active) /\ Cardinality(Active) <= Cardinality(Busy)
  BY <1>3, <1>4, FS_Surjection
<1>6. Cardinality(Active) \in Nat /\ Cardinality(Busy) \in Nat
  BY <1>3, <1>5, FS_CardinalityType
<1>7. QED
  BY <1>2, <1>3, <1>5, <1>6

(* Cardinality is the same operator in JobPool. *)
LEMMA SamePoolCardinality == \A S : Pool!Cardinality(S) = Cardinality(S)
BY Zenon DEF Pool!Cardinality, Cardinality

(* The pool, in the words of the steps above. *)
LEMMA PoolStep ==
    ASSUME \/ UNCHANGED <<waiting, Active, Done>> /\ (mpc' = "gone" <=> mpc = "gone")
           \/ \E j \in Jobs :
                 /\ mpc # "gone" /\ mpc' # "gone"
                 /\ ~InSeq(j, waiting) /\ j \notin Active /\ j \notin Done
                 /\ waiting' = Append(waiting, j) /\ UNCHANGED <<Active, Done>>
           \/ /\ waiting # <<>> /\ Cardinality(Active) < N
              /\ waiting' = Tail(waiting) /\ Active' = Active \cup {Head(waiting)}
              /\ UNCHANGED Done /\ (mpc' = "gone" <=> mpc = "gone")
           \/ \E j \in Jobs :
                 /\ j \in Active /\ Active' = Active \ {j} /\ Done' = Done \cup {j}
                 /\ waiting' = waiting /\ (mpc' = "gone" <=> mpc = "gone")
           \/ /\ mpc # "gone" /\ mpc' = "gone" /\ waiting = <<>> /\ Active = {}
              /\ UNCHANGED <<waiting, Active, Done>>
    PROVE  [Pool!Next]_(Pool!vars)
<1>1. Pool!Cardinality(Active) = Cardinality(Active)
  BY SamePoolCardinality
<1> DEFINE A == {wjob[w] : w \in {v \in Workers : wpc[v] \in {"run", "complete"}}}
<1>2. Active = A /\ Active' = A'
  BY DEF Active, Busy
<1>3. CASE UNCHANGED <<waiting, Active, Done>> /\ (mpc' = "gone" <=> mpc = "gone")
  <2>1. (mpc = "gone")' = (mpc = "gone")
    BY <1>3
  <2>2. QED
    BY <1>2, <1>3, <2>1 DEF Pool!vars, Done
<1>4. ASSUME NEW j \in Jobs, mpc # "gone", mpc' # "gone",
             ~InSeq(j, waiting), j \notin Active, j \notin Done,
             waiting' = Append(waiting, j), UNCHANGED <<Active, Done>>
      PROVE  Pool!Submit(j)
  <2>1. j \notin Pool!Pending
    BY <1>4 DEF Pool!Pending, InSeq
  <2>2. (mpc = "gone")' = (mpc = "gone")
    BY <1>4
  <2>3. QED
    BY <1>2, <1>4, <2>1, <2>2 DEF Pool!Submit, Done
<1>5. ASSUME waiting # <<>>, Cardinality(Active) < N, waiting' = Tail(waiting),
             Active' = Active \cup {Head(waiting)},
             UNCHANGED Done, mpc' = "gone" <=> mpc = "gone"
      PROVE  Pool!Start
  <2>1. (mpc = "gone")' = (mpc = "gone")
    BY <1>5
  <2>2. Pool!Cardinality(A) < N
    BY <1>1, <1>2, <1>5
  <2>3. QED
    BY <1>2, <1>5, <2>1, <2>2 DEF Pool!Start, Done
<1>6. ASSUME NEW j \in Jobs, j \in Active, Active' = Active \ {j}, Done' = Done \cup {j},
             waiting' = waiting, mpc' = "gone" <=> mpc = "gone"
      PROVE  Pool!Finish(j)
  <2>1. (mpc = "gone")' = (mpc = "gone")
    BY <1>6
  <2>2. QED
    BY <1>2, <1>6, <2>1 DEF Pool!Finish, Done
<1>7. ASSUME mpc # "gone", mpc' = "gone", waiting = <<>>, Active = {},
             UNCHANGED <<waiting, Active, Done>>
      PROVE  Pool!Close
  BY <1>2, <1>7 DEF Pool!Close, Done
<1>8. QED
  BY <1>3, <1>4, <1>5, <1>6, <1>7 DEF Pool!Next

(* Every step of the scheduler is one of the pool or none of its. *)
LEMMA PoolNext ==
    ASSUME TypeInv, Closing, EachOnce, StartedInOrder, [Next]_vars
    PROVE  [Pool!Next]_(Pool!vars)
<1>1. waiting \in Seq(Jobs) /\ started \in Seq(Jobs)
  BY DEF TypeInv, TypeOK
<1>2. CASE PoolKept
  <2>1. waiting' = waiting /\ Active' = Active /\ Done' = Done
    BY <1>2 DEF PoolKept, QueuesKept, WorkKept, Active, Done
  <2>2. mpc' = "gone" <=> mpc = "gone"
    BY <1>2 DEF PoolKept
  <2>3. QED
    BY <2>1, <2>2, PoolStep
<1>3. CASE Accepts
  <2>1. PICK j \in Jobs : j = Call.job
    BY <1>3, AcceptsNew
  <2>2. ~InSeq(j, started) /\ ~InSeq(j, waiting)
    BY <1>1, <1>3, <2>1, AcceptsNew, InConcat DEF StartedInOrder
  <2>3. j \notin Active /\ j \notin Done
    BY <2>2 DEF EachOnce, Active, Done
  <2>4. waiting' = Append(waiting, j) /\ UNCHANGED <<Active, Done>>
    BY <1>3, <2>1, AcceptsNew DEF Accepts, Active, Done, Busy, workers, WaitingQueue!Put
  <2>5. QED
    BY <1>3, <2>2, <2>3, <2>4, AcceptsNew, PoolStep
<1>4. ASSUME NEW w \in Workers, WorkerTake(w) PROVE [Pool!Next]_(Pool!vars)
  <2>1. /\ w \notin Busy /\ Busy' = Busy \cup {w}
        /\ wjob'[w] = Head(waiting) /\ \A v \in Busy : wjob'[v] = wjob[v]
    BY <1>4, TakesNew DEF Busy, TypeInv, TypeOK
  <2>2. Active' = Active \cup {Head(waiting)}
    BY <2>1 DEF Active
  <2>3. Done' = Done /\ waiting # <<>> /\ waiting' = Tail(waiting)
        /\ (mpc' = "gone" <=> mpc = "gone")
    BY <1>4, TakesNew DEF Done
  <2>4. Cardinality(Active) < N
    BY <2>1, RoomForOne
  <2>5. QED
    BY <2>2, <2>3, <2>4, PoolStep
<1>5. ASSUME NEW w \in Workers, WorkerComplete(w) PROVE [Pool!Next]_(Pool!vars)
  <2>1. PICK j \in Jobs : j = wjob[w]
    BY <1>5, CompleteStep
  <2>2. j \in Active /\ Active' = Active \ {j}
    <3>1. Active' = {wjob[v] : v \in Busy \ {w}}
      BY <1>5, CompleteStep DEF Active
    <3>2. QED
      BY <1>5, <2>1, <3>1, CompleteStep DEF Active, EachOnce
  <2>3. Done' = Done \cup {j} /\ waiting' = waiting /\ (mpc' = "gone" <=> mpc = "gone")
    BY <1>5, <2>1, CompleteStep DEF Done
  <2>4. QED
    BY <2>2, <2>3, PoolStep
<1>6. CASE JoinDone
  <2>1. /\ mpc = "join" /\ mpc' = "gone" /\ Joined /\ UNCHANGED <<waiting, workers, job>>
    BY <1>6 DEF JoinDone, OnlyMoves, sched, queues
  <2>2. Busy = {} /\ Busy' = {}
    BY <2>1 DEF Busy, Joined, workers
  <2>3. Workers # {}
    BY SchedulerAssumption
  <2>4. waiting = <<>>
    BY <2>1, <2>3 DEF Closing, Joined
  <2>5. Active = {} /\ Active' = Active /\ Done' = Done
    BY <2>1, <2>2 DEF Active, Done
  <2>6. QED
    BY <2>1, <2>4, <2>5, PoolStep
<1>7. QED
  BY <1>2, <1>3, <1>4, <1>5, <1>6, PoolSteps

(* The scheduler implements the pool of JobPool.tla, for any number of     *)
(* threads and jobs, any queue size, spurious wakeups and calls of the     *)
(* master that submit each job once, as js_create_and_submit_job does: a   *)
(* job is started once, in the order of the submissions, at most N run at  *)
(* a time, and js_destroy returns when all have finished                   *)
(* (job_scheduler.c:67-104, 150-172).                                      *)
THEOREM ImplementsPool ==
    ASSUME \A s \in Scripts : SubmitsOnce(s)
    PROVE  Spec => IsJobPool
<1>1. Init => EachOnce /\ Pool!Init
  <2> SUFFICES ASSUME Init PROVE EachOnce /\ Pool!Init
    OBVIOUS
  <2>1. /\ waiting = <<>> /\ submitted = <<>> /\ mpc = "create" /\ todo \in Scripts
        /\ \A w \in Workers : wpc[w] = "start"
        /\ \A j \in Jobs : ~job[j].complete
    BY DEF Init, WaitingQueue!Init, js_create_job
  <2>2. Busy = {}
    BY <2>1 DEF Busy
  <2>3. EachOnce
    BY <2>1, <2>2 DEF EachOnce, Distinct, InSeq
  <2>4. Pool!Init
    BY <2>1, <2>2 DEF Pool!Init, Busy
  <2>5. QED
    BY <2>3, <2>4
<1>2. Init => Closing
  BY DEF Init, Closing
<1>3. TypeInv /\ Closing /\ [Next]_vars => Closing'
  BY ClosingNext
<1>4. TypeInv /\ EachOnce /\ StartedInOrder /\ [Next]_vars => EachOnce'
  BY OnceNext
<1>5. TypeInv /\ Closing /\ EachOnce /\ StartedInOrder /\ [Next]_vars
         => [Pool!Next]_(Pool!vars)
  BY PoolNext
<1>6. QED
  BY <1>1, <1>2, <1>3, <1>4, <1>5, Types, StartsInOrder, PTL DEF Spec, IsJobPool, Pool!Spec
===============================================================================
