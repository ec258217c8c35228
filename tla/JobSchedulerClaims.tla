-------------------------- MODULE JobSchedulerClaims --------------------------
(* Statements of the README and of the tests about the job scheduler that    *)
(* the code does not meet.                                                   *)
EXTENDS JobScheduler

ReturnsFromWaitAll ==
    todo # <<>> /\ Call.op = "waitall" /\ todo' = Tail(todo)

(* When js_wait_all_jobs returns, every job submitted is complete: the     *)
(* test destroys the jobs and checks their sum right after the call        *)
(* (tests/job_scheduler_tests.c:178-187).                                  *)
WaitAllWaitsForAll ==
    [][ReturnsFromWaitAll
          => \A i \in 1..Len(submitted) : job[submitted[i]].complete]_vars

(* A submitter sleeps on condition_wake_up_submitter only until some       *)
(* thread is available (README:368): there is always a thread that is      *)
(* still going to signal it.                                               *)
SubmitterIsWoken ==
    mpc = "asleep" => \E w \in Workers : wpc[w] \notin {"asleep", "exited"}
===============================================================================
