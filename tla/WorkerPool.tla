----------------------------- MODULE WorkerPool -----------------------------
(***************************************************************************)
(* The thread pool of fibs.c, fauxgrep-mt.c and fhistogram-mt.c: the main  *)
(* thread pushes every job (an input line, a file path), destroys the      *)
(* queue and joins the workers; each worker pops jobs, processes them and  *)
(* exits when a pop fails.  The queue is job_queue.c step by step.         *)
(***************************************************************************)
EXTENDS JobQueue

CONSTANT Main   \* the thread that runs main(); the workers are the Consumers

ASSUME PoolAssumption ==
  /\ Producers = {Main} /\ Destroyers = {Main}
  /\ Main \notin Consumers

VARIABLES
  unsent,    \* the jobs main has not read from its input yet
  mstage,    \* main: "feed", "destroy" (called job_queue_destroy), "exit"
  wstage,    \* per worker: "ready" to pop, "pop" (called), "work", "exited";
             \* "none" beyond num_threads
  finished   \* per job: how often a worker processed and freed it

poolVars == <<unsent, mstage, wstage, finished>>
allVars  == <<vars, poolVars>>

\* -n chooses the number of threads, at least one; when one of them cannot be
\* created fibs exits before it reads anything.
PoolInit ==
  /\ Init
  /\ unsent = Jobs
  /\ mstage = "feed"
  /\ wstage \in [Consumers -> {"ready", "none"}]
  /\ \E w \in Consumers : wstage[w] # "none"
  /\ finished = [j \in Jobs |-> 0]

-----------------------------------------------------------------------------
(* main                                                                    *)

\* The next line or path is copied and pushed; the input decides the order.
\* The result of the push is not looked at.
Feed(j) ==
  /\ mstage = "feed"
  /\ j \in unsent
  /\ CallPush(Main, j)
  /\ unsent' = unsent \ {j}
  /\ UNCHANGED <<mstage, wstage, finished>>

HastyInputRead == TRUE
InputRead      == unsent = {}   \* getline returned -1

EndOfInput ==
  /\ mstage = "feed"
  /\ InputRead
  /\ CallDestroy(Main)
  /\ mstage' = "destroy"
  /\ UNCHANGED <<unsent, wstage, finished>>

EarlyGone == TRUE
AllGone   == \A w \in Consumers : wstage[w] \in {"exited", "none"}

\* job_queue_destroy has returned, and every pthread_join does.
Join ==
  /\ mstage = "destroy"
  /\ pc[Main] = "idle"
  /\ AllGone
  /\ mstage' = "exit"
  /\ UNCHANGED <<vars, unsent, wstage, finished>>

-----------------------------------------------------------------------------
(* worker                                                                  *)

StartPop(w) ==
  /\ wstage[w] = "ready"
  /\ CallPop(w)
  /\ wstage' = [wstage EXCEPT ![w] = "pop"]
  /\ UNCHANGED <<unsent, mstage, finished>>

Popped(w) == wstage[w] = "pop" /\ pc[w] = "idle"

\* The pop returned 0: the worker owns data[w] and starts on it.
Take(w) ==
  /\ Popped(w) /\ ret[w] = 0
  /\ wstage' = [wstage EXCEPT ![w] = "work"]
  /\ UNCHANGED <<vars, unsent, mstage, finished>>

\* The job is processed and freed, the worker turns to the next one.
Finish(w) ==
  /\ wstage[w] = "work"
  /\ finished' = [finished EXCEPT ![data[w]] = @ + 1]
  /\ wstage' = [wstage EXCEPT ![w] = "ready"]
  /\ UNCHANGED <<vars, unsent, mstage>>

\* job_queue_pop did not return 0.
EagerRefused(w) == TRUE
Refused(w)      == ret[w] # 0

\* The pop failed: the queue is gone, leave the loop.
Exit(w) ==
  /\ Popped(w) /\ Refused(w)
  /\ wstage' = [wstage EXCEPT ![w] = "exited"]
  /\ UNCHANGED <<vars, unsent, mstage, finished>>

-----------------------------------------------------------------------------
QueueStep(t) == Step(t) /\ UNCHANGED poolVars

MainStep      == (\E j \in Jobs : Feed(j)) \/ EndOfInput \/ Join
WorkerStep(w) == StartPop(w) \/ Take(w) \/ Finish(w) \/ Exit(w)

PoolNext ==
  \/ MainStep
  \/ \E w \in Consumers : WorkerStep(w)
  \/ \E t \in Threads : QueueStep(t)

PoolSpec == PoolInit /\ [][PoolNext]_allVars

\* As in the queue, and main and the workers carry on whenever they can.  Main
\* reads its input to the end.
PoolFairSpec ==
  /\ PoolSpec
  /\ WF_allVars(MainStep)
  /\ \A w \in Consumers : WF_allVars(WorkerStep(w))
  /\ \A t \in Threads : /\ WF_allVars(Run(t) /\ UNCHANGED poolVars)
                        /\ SF_allVars(Acquire(t) /\ UNCHANGED poolVars)

-----------------------------------------------------------------------------
PoolTypeOK ==
  /\ TypeOK
  /\ unsent \subseteq Jobs
  /\ mstage \in {"feed", "destroy", "exit"}
  /\ wstage \in [Consumers -> {"ready", "pop", "work", "exited", "none"}]
  /\ finished \in [Jobs -> Nat]

\* Where a job can be between main's input and its processing.
InPush  == {data[t] : t \in {u \in Producers :
                /\ op[u] = "push"
                /\ pc[u] \in {"lock", "relock", "check", "wait"}}}
InQueue == {Contents[i] : i \in 1 .. Length}
InHand  == {data[w] : w \in {v \in Consumers :
                \/ wstage[v] = "work"
                \/ /\ wstage[v] = "pop" /\ ret[v] = 0
                   /\ pc[v] \in {"count", "unlock", "idle"}}}

\* No job is lost or handed out twice between main and the workers, wherever the
\* threads are: a job that was read is in main's push call, in the queue, in one
\* worker's hands, or finished exactly once (fibs.c:107-109, 57-68).
EachJobOnce ==
  \A j \in Jobs :
    /\ finished[j] <= 1
    /\ j \in unsent \cup InPush \cup InQueue \cup InHand <=> finished[j] = 0
    /\ \A v, w \in Consumers :
         /\ data[v] = j /\ data[w] = j
         /\ wstage[v] \in {"pop", "work"} /\ wstage[w] \in {"pop", "work"}
         => v = w

\* When main returns every job has been processed, by workers that are all gone:
\* "This is important, at some may still be working on their job" (fibs.c:115).
DoneAtExit ==
  mstage = "exit" => /\ \A j \in Jobs : finished[j] = 1
                     /\ \A w \in Consumers : wstage[w] \in {"exited", "none"}

\* A worker gives up only when nothing is left for it: the whole input was
\* pushed and popped and the queue is destroyed (fibs.c:62-66).
ExitOnlyWhenDone ==
  (\E w \in Consumers : wstage[w] = "exited")
    => is_destroyed /\ unsent = {} /\ InPush = {} /\ InQueue = {}

\* The programs may be read over the queue of job_queue.h: the pool on
\* job_queue.c implements the pool on the abstract queue.
Pool == INSTANCE JobPool WITH queue <- Contents, closed <- is_destroyed,
                              phase <- Phase
ImplementsJobPool == Pool!PoolSpec

\* Every job of the input is processed, whatever the scheduler does.
EveryJobFinished == \A j \in Jobs : <>(finished[j] = 1)

\* With one worker, the default, main returns: nobody is left who could wait for
\* the mutex that the worker fails to release (fibs.c:74, 113-121).
OneWorkerTerminates ==
  (\E w \in Consumers : wstage = [v \in Consumers |-> IF v = w THEN "ready" ELSE "none"])
    => <>(mstage = "exit")

=============================================================================
