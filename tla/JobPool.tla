------------------------------- MODULE JobPool -------------------------------
(***************************************************************************)
(* The pool that main() and worker() of fibs.c, fauxgrep-mt.c and          *)
(* fhistogram-mt.c build, over the queue that job_queue.h promises: main   *)
(* pushes every job, destroys the queue and joins the workers; a worker    *)
(* pops a job, works on it, frees it and pops again until a pop fails.     *)
(*                                                                         *)
(* The programs extend this module with what "work" is.  WorkerPool, which *)
(* runs the same threads on job_queue.c, implements it.                    *)
(***************************************************************************)
EXTENDS BoundedQueue

CONSTANT Main   \* the thread that runs main(); the workers are the Consumers

ASSUME PoolAssumption ==
  /\ Producers = {Main} /\ Destroyers = {Main}
  /\ Main \notin Consumers
  /\ NoJob \notin Jobs

VARIABLES
  unsent,    \* the jobs main has not read from its input yet
  mstage,    \* main: "feed", "destroy" (called job_queue_destroy), "exit",
             \* "crashed"
  wstage,    \* per worker: "ready" to pop, "pop" (called), "work", "exited";
             \* "none" beyond num_threads, "failed" when not created
  finished   \* per job: how often a worker processed and freed it

poolVars == <<unsent, mstage, wstage, finished>>

\* num_threads is at least 1; what pthread_create returns is not looked at.
PoolInit ==
  /\ Init
  /\ unsent = Jobs
  /\ mstage = "feed"
  /\ wstage \in [Consumers -> {"ready", "none", "failed"}]
  /\ \E w \in Consumers : wstage[w] # "none"
  /\ finished = [j \in Jobs |-> 0]

-----------------------------------------------------------------------------
(* main                                                                    *)

\* The next input is copied and pushed; the directory walk decides the order.
Feed(j) ==
  /\ mstage = "feed"
  /\ j \in unsent
  /\ Invoke(Main, "push", j)
  /\ unsent' = unsent \ {j}
  /\ UNCHANGED <<mstage, wstage, finished>>

EndOfInput ==
  /\ mstage = "feed"
  /\ unsent = {}
  /\ Invoke(Main, "destroy", NoJob)
  /\ mstage' = "destroy"
  /\ UNCHANGED <<unsent, wstage, finished>>

\* pthread_join has returned for every thread it can be called with.
EarlyGone == TRUE
AllGone   == \A w \in Consumers : wstage[w] \in {"exited", "none", "failed"}

\* job_queue_destroy has returned, and every pthread_join does.
Join ==
  /\ mstage = "destroy"
  /\ phase[Main] = "idle"
  /\ AllGone
  /\ mstage' = "exit"
  /\ UNCHANGED <<vars, unsent, wstage, finished>>

\* A pthread_join with a pthread_t that pthread_create never wrote: undefined, it
\* may end the process, workers and all.
JoinGarbage ==
  /\ mstage = "destroy"
  /\ phase[Main] = "idle"
  /\ \E w \in Consumers : wstage[w] = "failed"
  /\ mstage' = "crashed"
  /\ UNCHANGED <<vars, unsent, wstage, finished>>

-----------------------------------------------------------------------------
(* worker                                                                  *)

StartPop(w) ==
  /\ wstage[w] = "ready"
  /\ Invoke(w, "pop", NoJob)
  /\ wstage' = [wstage EXCEPT ![w] = "pop"]
  /\ UNCHANGED <<unsent, mstage, finished>>

Popped(w) == wstage[w] = "pop" /\ phase[w] = "idle"

\* The pop returned 0: the worker owns data[w] and starts on it.
Take(w) ==
  /\ Popped(w) /\ ret[w] = 0
  /\ wstage' = [wstage EXCEPT ![w] = "work"]
  /\ UNCHANGED <<vars, unsent, mstage, finished>>

\* The work is done: the job is freed, the worker turns to the next one.
Finish(w) ==
  /\ wstage[w] = "work"
  /\ finished' = [finished EXCEPT ![data[w]] = @ + 1]
  /\ wstage' = [wstage EXCEPT ![w] = "ready"]
  /\ UNCHANGED <<vars, unsent, mstage>>

\* The pop failed: the queue is gone, leave the loop.
Exit(w) ==
  /\ Popped(w) /\ ret[w] # 0
  /\ wstage' = [wstage EXCEPT ![w] = "exited"]
  /\ UNCHANGED <<vars, unsent, mstage, finished>>

-----------------------------------------------------------------------------
\* The queue operation of t takes effect, or its call returns.
QueueStep(t) ==
  /\ \/ Push(t) \/ RefusePush(t) \/ Pop(t) \/ RefusePop(t) \/ Close(t) \/ Return(t)
  /\ UNCHANGED poolVars

MainStep == (\E j \in Jobs : Feed(j)) \/ EndOfInput \/ Join \/ JoinGarbage

PoolNext ==
  /\ mstage # "crashed"
  /\ \/ MainStep
     \/ \E w \in Consumers : StartPop(w) \/ Take(w) \/ Finish(w) \/ Exit(w)
     \/ \E t \in Callers : QueueStep(t)

PoolSpec == PoolInit /\ [][PoolNext]_<<vars, poolVars>>

=============================================================================
