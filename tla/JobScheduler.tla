----------------------------- MODULE JobScheduler -----------------------------
(***************************************************************************)
(* The thread pool of src/src/job_scheduler.c: the threads that run jobs   *)
(* (function thread) and one master thread that calls the js_ functions,   *)
(* as main.c, logreg.c and the tests do.  The stretch between LOCK_ and    *)
(* UNLOCK_ (or WAIT_) of js->mutex is one step; what the code does outside *)
(* the mutex is a step of its own.  sem_barrier is the semaphore of        *)
(* Semaphore.tla with the master as its only waiter; the two queues are    *)
(* the bounded FIFOs that Queue.tla is shown to implement.                 *)
(***************************************************************************)
EXTENDS Integers, Sequences, FiniteSets

CONSTANTS Workers,      \* the execution threads
          Master,       \* the thread that calls js_create ... js_destroy
          Jobs, NoJob,  \* the jobs, and the NULL job
          Scripts,      \* the sequences of calls the master may make
          QueueSize,    \* QUEUE_SIZE: capacity of both queues
          MaxSpurious   \* bound: spurious returns of pthread_cond_wait

N == Cardinality(Workers)

\* One call of the master.  "waitjob" is js_wait_job, also as js_get_return_val;
\* flag is force_execute of a submission, destroy of a wait.
Calls == [op : {"submit", "execute", "waitall", "waitjob", "free", "destroy"},
          job : Jobs \cup {NoJob},
          flag : BOOLEAN]

ASSUME SchedulerAssumption ==
    /\ IsFiniteSet(Workers) /\ Workers # {}
    /\ Master \notin Workers
    /\ NoJob \notin Jobs
    /\ Scripts \subseteq Seq(Calls)
    /\ \A s \in Scripts : \A i \in 1..Len(s) :
          s[i].op \in {"submit", "waitjob", "free"} => s[i].job \in Jobs
    /\ QueueSize \in Nat \ {0}
    /\ MaxSpurious \in Nat

VARIABLES
    working, exit, ready,        \* struct job_scheduler: flags and counter,
    waiting, running,            \* waiting_queue and running_queue,
    locked,                      \* mutex: the master has it for good,
    semValue, semWakeups, semSleeping, semSignalled,         \* sem_barrier
    job,                         \* struct job, for every job
    wpc, wjob,                   \* control and job of each execution thread
    mpc, mjob, todo,             \* control, job, calls left of the master
    spurious,                    \* spurious wakeups so far
    submitted, started, collected, awaited   \* history, for the properties

queues  == <<waiting, running>>
sched   == <<working, exit, ready, queues, locked>>
barrier == <<semValue, semWakeups, semSleeping, semSignalled>>
workers == <<wpc, wjob>>
master  == <<mpc, mjob, todo>>
history == <<submitted, started, collected, awaited>>
vars    == <<sched, barrier, job, workers, master, spurious, history>>

Barrier == INSTANCE Semaphore
              WITH Threads <- {Master}, Resetters <- {}, Initial <- 1 - N,
                   Calls <- {}, Cap <- 0, value <- semValue,
                   wakeups <- semWakeups, sleeping <- semSleeping,
                   signalled <- semSignalled, stuck <- FALSE,
                   assigned <- FALSE

WaitingQueue == INSTANCE BoundedFIFO
                   WITH Items <- Jobs, Capacity <- QueueSize, items <- waiting

RunningQueue == INSTANCE BoundedFIFO
                   WITH Items <- Jobs, Capacity <- QueueSize, items <- running

\* return_val is abstracted to ran: the routine has returned, the value is there.
js_create_job == [ran |-> FALSE, complete |-> FALSE, sem_complete |-> 0,
                  freed |-> FALSE]

\* js_create up to its sem_wait_.
Init ==
    /\ working = FALSE /\ exit = FALSE /\ ready = 0 /\ locked = FALSE
    /\ WaitingQueue!Init /\ RunningQueue!Init
    /\ Barrier!sem_init_
    /\ job = [j \in Jobs |-> js_create_job]
    /\ wpc = [w \in Workers |-> "start"]
    /\ wjob = [w \in Workers |-> NoJob]
    /\ mpc = "create" /\ mjob = NoJob /\ todo \in Scripts
    /\ submitted = <<>> /\ started = <<>> /\ collected = <<>> /\ awaited = {}

-----------------------------------------------------------------------------
(* Execution threads: thread(js) *)

\* About to take js->mutex, at the top of the loop or out of WAIT_.
AtLock(w) == ~locked /\ wpc[w] \in {"start", "woken"}

Move(w, to) == wpc' = [wpc EXCEPT ![w] = to]

\* mutant: ready-- after WAIT_ is forgotten
ReadyForgotten(w) == ready

\* ready-- after WAIT_, if that is where the thread comes from.
ReadyNow(w) == IF wpc[w] = "woken" THEN ready - 1 ELSE ready

\* The condition of the inner while loop.
NothingToDo == (~working /\ ~exit) \/ (waiting = <<>> /\ ~exit)

\* pthread_cond_signal(&js->condition_wake_up_submitter)
SignalSubmitter == /\ mpc' = IF mpc = "asleep" THEN "submit" ELSE mpc
                   /\ UNCHANGED <<mjob, todo>>

\* mutant: ready is compared before it is incremented
LastOneEarly(r) == r + 1 >= N

\* The thread that completes the barrier ends the work cycle.
LastOne(r) == r = N

WorkerSleep(w) ==
    /\ AtLock(w) /\ NothingToDo
    /\ ready' = ReadyNow(w) + 1
    /\ working' = (working /\ ~LastOne(ReadyNow(w) + 1))
    /\ SignalSubmitter
    /\ Barrier!sem_post_
    /\ Move(w, "asleep")
    /\ UNCHANGED <<exit, queues, locked, job, wjob, history>>

\* mutant: exit is obeyed although jobs are waiting
MayExitAnyway == exit

MayExit == exit /\ waiting = <<>>

WorkerExit(w) ==
    /\ AtLock(w) /\ ~NothingToDo /\ MayExit
    /\ ready' = ReadyNow(w)
    /\ Move(w, "exited")
    /\ UNCHANGED <<working, exit, queues, locked, barrier, job, wjob, master,
                   spurious, history>>

\* mutant: the running queue is kept newest first
StackRunning(j) == running' = <<j>> \o running

\* The result of queue_enqueue is ignored: a full running queue drops the job.
EnqueueRunning(j) ==
    \/ RunningQueue!Put(j)
    \/ RunningQueue!Full /\ UNCHANGED running

\* queue_unblock_enqueue(js->waiting_queue)
UnblockSubmitter == /\ mpc' = IF mpc = "blocked" THEN "submit" ELSE mpc
                    /\ UNCHANGED <<mjob, todo>>

WorkerTake(w) ==
    /\ AtLock(w) /\ ~NothingToDo /\ ~MayExit
    /\ WaitingQueue!Get
    /\ EnqueueRunning(Head(waiting))
    /\ UnblockSubmitter
    /\ ready' = ReadyNow(w)
    /\ wjob' = [wjob EXCEPT ![w] = Head(waiting)]
    /\ Move(w, "run")
    /\ started' = Append(started, Head(waiting))
    /\ UNCHANGED <<working, exit, locked, barrier, job, spurious, submitted,
                   collected, awaited>>

\* RUN_ROUTINE_
WorkerRun(w) ==
    /\ wpc[w] = "run"
    /\ job' = [job EXCEPT ![wjob[w]].ran = TRUE]
    /\ Move(w, "complete")
    /\ UNCHANGED <<sched, barrier, wjob, master, spurious, history>>

\* job->complete = true, without the mutex.
WorkerComplete(w) ==
    /\ wpc[w] = "complete"
    /\ job' = [job EXCEPT ![wjob[w]].complete = TRUE]
    /\ Move(w, "post")
    /\ UNCHANGED <<sched, barrier, wjob, master, spurious, history>>

\* mutant: the thread goes on without NOTIFY_JOB_COMPLETE_
NotifyForgotten(j) == UNCHANGED job

NOTIFY_JOB_COMPLETE_(j) == job' = [job EXCEPT ![j].sem_complete = @ + 1]

WorkerPost(w) ==
    /\ wpc[w] = "post"
    /\ NOTIFY_JOB_COMPLETE_(wjob[w])
    /\ Move(w, "start")
    /\ wjob' = [wjob EXCEPT ![w] = NoJob]
    /\ UNCHANGED <<sched, barrier, master, spurious, history>>

Worker(w) == \/ WorkerSleep(w) \/ WorkerExit(w) \/ WorkerTake(w)
             \/ WorkerRun(w) \/ WorkerComplete(w) \/ WorkerPost(w)

-----------------------------------------------------------------------------
(* The master.  Between two calls mpc is "idle" and the next call is the   *)
(* head of todo.                                                           *)

Call == Head(todo)
Calling(op) == mpc = "idle" /\ todo # <<>> /\ Call.op = op

Return == mpc' = "idle" /\ todo' = Tail(todo)      \* from the call
Goto(place) == mpc' = place /\ UNCHANGED todo      \* and stay in the call

\* What the many steps leave alone that only move the master on,
OnlyMoves == UNCHANGED <<sched, barrier, job, workers, mjob, spurious, history>>
\* and those that only wake threads.
OnlyWakes == UNCHANGED <<sched, barrier, job, wjob, mjob, spurious, history>>

Asleep == {w \in Workers : wpc[w] = "asleep"}

\* mutant: the broadcast is forgotten
BroadcastForgotten == UNCHANGED wpc

BROADCAST_WAKEUP_ ==
    wpc' = [w \in Workers |-> IF w \in Asleep THEN "woken" ELSE wpc[w]]

SIGNAL_WAKEUP_ ==
    \/ \E w \in Asleep : Move(w, "woken")
    \/ Asleep = {} /\ UNCHANGED wpc

\* sem_wait_(js->sem_barrier), which js_create and js_join_threads call.
BarrierArrive(inside, after) ==
    /\ \/ Barrier!WaitThrough(Master) /\ Goto(after)
       \/ Barrier!WaitBlock(Master) /\ Goto(inside)
    /\ UNCHANGED <<sched, job, workers, mjob, history>>

BarrierAwake(inside, after) ==
    /\ mpc = inside
    /\ \/ Barrier!WakePass(Master) /\ Goto(after)
       \/ Barrier!WakeAgain(Master) /\ Goto(inside)
    /\ UNCHANGED <<sched, job, workers, mjob, history>>

\* The end of js_create.
js_create == \/ mpc = "create" /\ BarrierArrive("creating", "idle")
             \/ BarrierAwake("creating", "idle")

-----------------------------------------------------------------------------
(* js_submit_job, also through js_create_and_submit_job *)

SubmitCheck ==
    /\ Calling("submit") /\ ~locked
    /\ Goto(IF working \/ Call.flag THEN "submit" ELSE "append")
    /\ OnlyMoves

\* No thread is ready: js->mutex is released, and the master will go to sleep
SubmitNoneReady ==
    /\ mpc = "submit" /\ ~locked
    /\ ready = 0
    /\ Goto("doze")
    /\ OnlyMoves

\* in a step of its own, WAIT_SUBMITTER_; only then a signal reaches it.
SubmitDoze == mpc = "doze" /\ Goto("asleep") /\ OnlyMoves

SubmitGuarded ==
    /\ mpc = "submit" /\ ~locked
    /\ ready # 0
    /\ WaitingQueue!Put(Call.job)
    /\ submitted' = Append(submitted, Call.job)
    /\ Goto("signal")
    /\ UNCHANGED <<working, exit, ready, running, locked, barrier, job, workers,
                   mjob, spurious, started, collected, awaited>>

\* queue_enqueue on a full queue sleeps on cond_non_full, with js->mutex locked.
SubmitBlocked ==
    /\ mpc = "submit" /\ ~locked
    /\ ready # 0
    /\ WaitingQueue!Full
    /\ locked' = TRUE
    /\ Goto("blocked")
    /\ UNCHANGED <<working, exit, ready, queues, barrier, job, workers, mjob,
                   spurious, history>>

\* After UNLOCK_.
SubmitSignal == mpc = "signal" /\ SIGNAL_WAKEUP_ /\ Return /\ OnlyWakes

\* mutant: the refusal of a full queue is taken for success
PlainPutLost(j) ==
    /\ submitted' = Append(submitted, j)
    /\ IF WaitingQueue!Full THEN UNCHANGED waiting ELSE WaitingQueue!Put(j)

\* The enqueue without waiting; on a full queue the call returns false.
PlainPut(j) ==
    \/ WaitingQueue!Put(j) /\ submitted' = Append(submitted, j)
    \/ WaitingQueue!Full /\ UNCHANGED <<waiting, submitted>>

\* js->mutex was released after the test.
SubmitPlain ==
    /\ mpc = "append"
    /\ PlainPut(Call.job)
    /\ Return
    /\ UNCHANGED <<working, exit, ready, running, locked, barrier, job, workers,
                   mjob, spurious, started, collected, awaited>>

js_submit_job == \/ SubmitCheck \/ SubmitNoneReady \/ SubmitDoze \/ SubmitGuarded
                 \/ SubmitBlocked \/ SubmitSignal \/ SubmitPlain

-----------------------------------------------------------------------------
(* js_execute_all_jobs *)

\* A work cycle is on: returns false.
ExecuteBusy ==
    Calling("execute") /\ ~locked /\ working /\ Return /\ OnlyMoves

ExecuteBegin ==
    /\ Calling("execute") /\ ~locked /\ ~working
    /\ ready = N
    /\ working' = TRUE
    /\ Goto("broadcast")
    /\ UNCHANGED <<exit, ready, queues, locked, barrier, job, workers, mjob,
                   spurious, history>>

\* After UNLOCK_.
ExecuteBroadcast ==
    mpc = "broadcast" /\ BROADCAST_WAKEUP_ /\ Return /\ OnlyWakes

\* Neither: returns false, without UNLOCK_.
ExecuteNotReady ==
    /\ Calling("execute") /\ ~locked /\ ~working
    /\ ready # N
    /\ locked' = TRUE
    /\ Return
    /\ UNCHANGED <<working, exit, ready, queues, barrier, job, workers, mjob,
                   spurious, history>>

js_execute_all_jobs == \/ ExecuteBusy \/ ExecuteBegin \/ ExecuteBroadcast
                       \/ ExecuteNotReady

-----------------------------------------------------------------------------
(* js_wait_job: for the job of the call, or for mjob when it is called by  *)
(* js_wait_all_jobs, whose loop then goes on.                              *)

AtWaitJob == mpc = "waitjob" \/ Calling("waitjob")

JobInHand == IF mpc = "idle" THEN Call.job ELSE mjob

\* The fields of job j on the way out, s being sem_complete.
JobDone(j, s) ==
    /\ job' = [job EXCEPT ![j].sem_complete = s,
                          ![j].freed = @ \/ Call.flag]
    /\ awaited' = awaited \cup {j}
    /\ IF Call.op = "waitall" THEN Goto("check") ELSE Return
    /\ UNCHANGED <<sched, barrier, workers, mjob, spurious, submitted, started,
                   collected>>

\* mutant: a job that has been started is taken for complete
IsCompleteOnceStarted(j) == \E i \in 1..Len(started) : started[i] = j

\* Read under js->mutex, although it is not set under it.
IsComplete(j) == job[j].complete

WaitJobComplete ==
    /\ AtWaitJob /\ ~locked
    /\ IsComplete(JobInHand)
    /\ JobDone(JobInHand, job[JobInHand].sem_complete)

WaitJobSleep ==
    /\ AtWaitJob /\ ~locked
    /\ ~IsComplete(JobInHand)
    /\ mjob' = JobInHand
    /\ Goto("semwait")
    /\ UNCHANGED <<sched, barrier, job, workers, spurious, history>>

\* mutant: the master does not wait for the semaphore of the job
WaitJobSemNow == mpc = "semwait" /\ JobDone(mjob, job[mjob].sem_complete - 1)

\* sem_wait(&job->sem_complete)
WaitJobSem ==
    /\ mpc = "semwait"
    /\ job[mjob].sem_complete > 0
    /\ JobDone(mjob, job[mjob].sem_complete - 1)

js_wait_job == WaitJobComplete \/ WaitJobSleep \/ WaitJobSem

-----------------------------------------------------------------------------
(* js_wait_all_jobs *)

AtWaitAll == mpc = "check" \/ Calling("waitall")

WaitAllNothing ==
    /\ AtWaitAll /\ ~locked
    /\ WaitingQueue!Empty /\ RunningQueue!Empty
    /\ Return
    /\ OnlyMoves

WaitAllBroadcast ==
    /\ AtWaitAll /\ ~locked
    /\ ~(WaitingQueue!Empty /\ RunningQueue!Empty)
    /\ BROADCAST_WAKEUP_
    /\ Goto("collect")
    /\ OnlyWakes

WaitAllCollect ==
    /\ mpc = "collect" /\ ~locked
    /\ RunningQueue!Get
    /\ mjob' = Head(running)
    /\ collected' = Append(collected, Head(running))
    /\ Goto("waitjob")
    /\ UNCHANGED <<working, exit, ready, waiting, locked, barrier, job, workers,
                   spurious, submitted, started, awaited>>

WaitAllNone ==
    /\ mpc = "collect" /\ ~locked
    /\ RunningQueue!Empty
    /\ Goto("peek")
    /\ OnlyMoves

\* The length of the waiting queue is read after UNLOCK_.
WaitAllPeek ==
    /\ mpc = "peek"
    /\ IF WaitingQueue!Empty THEN Return ELSE Goto("check")
    /\ OnlyMoves

js_wait_all_jobs == \/ WaitAllNothing \/ WaitAllBroadcast \/ WaitAllCollect
                    \/ WaitAllNone \/ WaitAllPeek

-----------------------------------------------------------------------------
(* js_destroy_job; js_destroy with js_join_threads *)

js_destroy_job ==
    /\ Calling("free")
    /\ job' = [job EXCEPT ![Call.job].freed = TRUE]
    /\ Return
    /\ UNCHANGED <<sched, barrier, workers, mjob, spurious, history>>

JoinBarrier == \/ Calling("destroy") /\ BarrierArrive("joining", "exit")
               \/ BarrierAwake("joining", "exit")

JoinExit ==
    /\ mpc = "exit" /\ ~locked
    /\ exit' = TRUE
    /\ working' = FALSE
    /\ Goto("broadcastexit")
    /\ UNCHANGED <<ready, queues, locked, barrier, job, workers, mjob, spurious,
                   history>>

JoinBroadcast ==
    mpc = "broadcastexit" /\ BROADCAST_WAKEUP_ /\ Goto("join") /\ OnlyWakes

\* mutant: the scheduler is freed when the first thread has been joined
JoinedOne == \E w \in Workers : wpc[w] = "exited"

Joined == \A w \in Workers : wpc[w] = "exited"

JoinDone ==
    /\ mpc = "join" /\ Joined
    /\ mpc' = "gone" /\ todo' = Tail(todo)
    /\ OnlyMoves

js_destroy == JoinBarrier \/ JoinExit \/ JoinBroadcast \/ JoinDone

-----------------------------------------------------------------------------
(* pthread_cond_wait may return without a signal. *)

SpuriousWorker(w) ==
    /\ spurious < MaxSpurious /\ spurious' = spurious + 1
    /\ wpc[w] = "asleep"
    /\ Move(w, "woken")
    /\ UNCHANGED <<sched, barrier, job, wjob, master, history>>

SpuriousSubmitter ==
    /\ spurious < MaxSpurious /\ spurious' = spurious + 1
    /\ mpc = "asleep"
    /\ Goto("submit")
    /\ UNCHANGED <<sched, barrier, job, workers, mjob, history>>

SpuriousBarrier ==
    /\ Barrier!SpuriousWake(Master)
    /\ UNCHANGED <<sched, job, workers, master, history>>

-----------------------------------------------------------------------------
MasterStep == \/ js_create \/ js_submit_job \/ js_execute_all_jobs \/ js_wait_job
              \/ js_wait_all_jobs \/ js_destroy_job \/ js_destroy

Spurious == \/ SpuriousBarrier \/ SpuriousSubmitter
            \/ \E w \in Workers : SpuriousWorker(w)

\* The master has made all its calls; the threads are gone or asleep for good.
Finished == todo = <<>> /\ mpc \in {"idle", "gone"} /\ UNCHANGED vars

Next == MasterStep \/ Spurious \/ Finished \/ \E w \in Workers : Worker(w)

Spec == Init /\ [][Next]_vars

\* Every thread that can run is scheduled, and gets js->mutex, eventually.
FairSpec == Spec /\ WF_vars(MasterStep) /\ \A w \in Workers : WF_vars(Worker(w))

-----------------------------------------------------------------------------
WorkerPlaces == {"start", "asleep", "woken", "run", "complete", "post", "exited"}

MasterPlaces == {"create", "creating", "idle", "submit", "doze", "asleep",
                 "blocked", "signal", "append", "broadcast", "waitjob", "semwait",
                 "check", "collect", "peek", "joining", "exit", "broadcastexit",
                 "join", "gone"}

(* The types of the state. *)
TypeOK ==
    /\ working \in BOOLEAN
    /\ exit \in BOOLEAN
    /\ ready \in Int
    /\ waiting \in Seq(Jobs)
    /\ running \in Seq(Jobs)
    /\ locked \in BOOLEAN
    /\ semValue \in Int
    /\ semWakeups \in Nat
    /\ semSleeping \subseteq {Master}
    /\ semSignalled \subseteq {Master}
    /\ wpc \in [Workers -> WorkerPlaces]
    /\ wjob \in [Workers -> Jobs \cup {NoJob}]
    /\ mpc \in MasterPlaces
    /\ mjob \in Jobs \cup {NoJob}
    /\ todo \in Seq(Calls)
    /\ job \in [Jobs -> [ran : BOOLEAN, complete : BOOLEAN, sem_complete : Nat,
                        freed : BOOLEAN]]
    /\ spurious \in 0..MaxSpurious
    /\ submitted \in Seq(Jobs)
    /\ started \in Seq(Jobs)
    /\ collected \in Seq(Jobs)
    /\ awaited \subseteq Jobs

Ready == {w \in Workers : wpc[w] \in {"asleep", "woken"}}

(* The counter ready, adjusted around WAIT_ by each thread for itself, is  *)
(* at every moment the number of threads that sleep or have been woken and *)
(* not run yet.  js_execute_all_jobs and js_submit_job decide by it.       *)
ReadyCount == ready = Cardinality(Ready)

(* FIFO start (README "FIFO"): the jobs accepted by js_submit_job are      *)
(* those already started followed by those still waiting, in one order.    *)
StartedInOrder == submitted = started \o waiting

(* js_wait_all_jobs collects the jobs in the order in which they started,  *)
(* across work cycles, and none is lost between the two queues, unless     *)
(* more have started than the running queue has room for.                  *)
CollectedInOrder ==
    \/ started = collected \o running
    \/ /\ Len(started) > QueueSize
       /\ Len(collected) + Len(running) < Len(started)

(* js_wait_job, js_get_return_val and the loop of js_wait_all_jobs return  *)
(* for a job only when its routine has returned and its return value is    *)
(* there, whichever of complete and sem_complete they went by.             *)
AwaitedHaveRun == \A j \in awaited : job[j].ran /\ job[j].complete

(* Whenever no work cycle is on, every thread is ready: so a new cycle can *)
(* begin at any time, and js_execute_all_jobs never takes the branch that  *)
(* returns without UNLOCK_.  (A thread woken spuriously while the others   *)
(* are still being created posts the barrier twice and lets js_create go   *)
(* early, so it is claimed only as long as that has not happened.)         *)
AllReadyBetweenCycles ==
    spurious = 0 /\ mpc \notin {"create", "creating"} /\ ~working /\ ~exit
        => ready = N

(* In a work cycle no job is left in the waiting queue with every thread   *)
(* asleep: some thread will still look, or the master is about to wake it. *)
NoStrandedWork ==
    working /\ waiting # <<>> /\ mpc \notin {"broadcast", "signal"} =>
        \E w \in Workers : wpc[w] \notin {"asleep", "exited"}

(* The threads, queues and flags implement the pool of JobPool.tla: every  *)
(* accepted job is started once, in FIFO order, at most N run at a time,   *)
(* and js_destroy returns only when all of them have finished, even if     *)
(* they were never executed by js_execute_all_jobs.                        *)
Pool == INSTANCE JobPool
           WITH Width <- N,
                queue <- waiting,
                active <- {wjob[w] : w \in {v \in Workers :
                                               wpc[v] \in {"run", "complete"}}},
                done <- {j \in Jobs : job[j].complete},
                closed <- (mpc = "gone")

IsJobPool == Pool!Spec

(* js_create and js_join_threads do not get past the barrier before the    *)
(* posts they wait for have come in: sem_barrier, with its negative start  *)
(* and its count of wakeups, is a counting semaphore to them.              *)
BarrierCounts == Barrier!IsCountingSemaphore

(* The master gets through all its calls: no wait of it, for a job, for    *)
(* the barrier or for the threads to end, lasts for ever.                  *)
EveryCallReturns == <>(todo = <<>>)
===============================================================================
