--------------------------- MODULE MCJobScheduler ---------------------------
(* Constants for the runs of JobScheduler.tla: what the master calls. *)
EXTENDS JobSchedulerClaims

CONSTANTS a, b, c

Submit(j)  == [op |-> "submit", job |-> j, flag |-> FALSE]
Force(j)   == [op |-> "submit", job |-> j, flag |-> TRUE]
Execute    == [op |-> "execute", job |-> NoJob, flag |-> FALSE]
WaitAll    == [op |-> "waitall", job |-> NoJob, flag |-> FALSE]
WaitAllAndDestroy == [op |-> "waitall", job |-> NoJob, flag |-> TRUE]
GetReturn(j) == [op |-> "waitjob", job |-> j, flag |-> FALSE]
WaitJobAndDestroy(j) == [op |-> "waitjob", job |-> j, flag |-> TRUE]
Free(j)    == [op |-> "free", job |-> j, flag |-> FALSE]
Destroy    == [op |-> "destroy", job |-> NoJob, flag |-> FALSE]

\* One work cycle: the calls of lr_predict and lr_train in logreg.c, and every
\* way of releasing the jobs.
OneCycle ==
    {<<Submit(a), Submit(b), Submit(c), Execute, WaitAll, Destroy>>,
     <<Submit(a), Submit(b), Execute, WaitAll, GetReturn(a), GetReturn(b), Destroy>>,
     <<Submit(a), Force(b), Execute, GetReturn(b), GetReturn(a), Destroy>>,
     <<Force(a), Submit(b), Execute, Destroy>>,
     <<Submit(a), Submit(b), Execute, WaitAllAndDestroy, Destroy>>,
     <<Submit(a), Submit(b), Execute, WaitJobAndDestroy(a), GetReturn(b), Free(b),
       Destroy>>}

\* Several cycles, and submissions while a cycle is on: the calls of
\* tests/job_scheduler_tests.c and of fill_buffer in main.c.  With queues of
\* two jobs a third submission is refused, blocks, or drops out of running.
ManyCycles ==
    {<<Submit(a), Submit(b), Execute, WaitAll, Submit(c), Execute, WaitAll,
       GetReturn(a), GetReturn(b), GetReturn(c), Destroy>>,
     <<Submit(a), Submit(b), Execute, Submit(c), Execute, WaitAll, Destroy>>,
     <<Submit(a), Submit(b), Submit(c), Execute, WaitAll, Destroy>>,
     <<Submit(a), Execute, Submit(b), Submit(c), Execute, WaitAll, Destroy>>,
     <<Submit(a), Execute, GetReturn(a), Force(b), Execute, GetReturn(b), Submit(c),
       Destroy>>}

\* The scripts of the runs that refute a statement of the documentation.
ShortCycle == {<<Submit(a), Submit(b), Execute, WaitAll>>}
SubmitWhileBusy == {<<Submit(a), Submit(b), Execute, Submit(c)>>}
=============================================================================
