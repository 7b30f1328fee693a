------------------------------ MODULE JobQueue ------------------------------
(***************************************************************************)
(* job_queue.c: the bounded job queue that fibs, fauxgrep-mt and           *)
(* fhistogram-mt share between one main thread and their workers.          *)
(*                                                                         *)
(* Every thread runs job_queue_push, job_queue_pop or job_queue_destroy on *)
(* one queue.  A call is a sequence of atomic steps, cut wherever another  *)
(* thread can be scheduled with an effect: taking the mutex, sleeping on a *)
(* condition variable, the two halves of the ring-buffer update, the       *)
(* unlock, and the three releases that job_queue_destroy performs after it *)
(* has given the mutex up.                                                 *)
(*                                                                         *)
(* pc[t] names the statement thread t executes next:                       *)
(*   idle     outside the queue                                            *)
(*   lock     inside pthread_mutex_lock, waiting for the mutex word        *)
(*   check    at the head of the while loop, the mutex taken               *)
(*   wait     asleep in pthread_cond_wait                                  *)
(*   relock   woken in pthread_cond_wait, waiting for the mutex word       *)
(*   count    the slot and index are updated, count is not yet             *)
(*   unlock   about to unlock                                              *)
(*   free, mutex_destroy, cond_destroy   the tail of job_queue_destroy     *)
(***************************************************************************)
EXTENDS Integers, FiniteSets

CONSTANTS
  Producers,    \* threads that may call job_queue_push
  Consumers,    \* threads that may call job_queue_pop
  Destroyers,   \* threads that may call job_queue_destroy
  Jobs,         \* the void* payloads
  Capacity,     \* total_capacity
  NoThread,     \* the mutex is free
  NoJob         \* a slot or an out parameter nothing was written to

Threads == Producers \cup Consumers \cup Destroyers

ASSUME CapacityAssumption == Capacity \in Nat \ {0}
ASSUME ThreadAssumption   == /\ NoThread \notin Threads
                             /\ IsFiniteSet(Threads)
ASSUME JobAssumption      == NoJob \notin Jobs

VARIABLES
  job, head, tail, count, is_destroyed,   \* struct job_queue
  holder,   \* the thread that has the mutex word, or NoThread
  alive,    \* which of the array, the mutex and the condition variables exist
  pc, op, data, ret   \* per thread: step, function, its data argument, result

queueVars  == <<job, head, tail, count, is_destroyed>>
threadVars == <<op, data, ret>>
vars       == <<queueVars, holder, alive, pc, threadVars>>

Slots     == 0 .. Capacity - 1
Resources == {"job", "mutex", "cond"}
Labels    == {"idle", "lock", "check", "wait", "relock", "count", "unlock",
              "free", "mutex_destroy", "cond_destroy"}

-----------------------------------------------------------------------------
(* The pthread primitives, as the callers in job_queue.c rely on them.     *)

\* pthread_mutex_lock looks at the mutex first: on a destroyed mutex it fails
\* at once with EINVAL, which no caller checks, so the thread runs on without
\* the mutex.  Otherwise it goes for the mutex word.
LockEntry == IF "mutex" \in alive THEN "lock" ELSE "check"

\* pthread_mutex_unlock: on a destroyed mutex it fails and releases nothing.
Unlocked == IF "mutex" \in alive THEN NoThread ELSE holder

\* The threads asleep on a condition variable: the poppers sleep on not_empty,
\* the pushers and the destroyer on not_full.
Sleepers(cond) ==
  {t \in Threads : /\ pc[t] = "wait"
                   /\ (op[t] = "pop") <=> (cond = "not_empty")}

\* pthread_cond_signal by thread t, which continues at `next`: one sleeper is
\* woken, whichever the implementation picks; with none the signal is lost.
FaultySignal(t, next, cond) == pc' = [pc EXCEPT ![t] = next]

Signal(t, next, cond) ==
  \/ /\ Sleepers(cond) = {}
     /\ pc' = [pc EXCEPT ![t] = next]
  \/ \E u \in Sleepers(cond) :
       pc' = [pc EXCEPT ![t] = next, ![u] = "relock"]

\* Whether pthread_mutex_destroy finds the mutex in use: held, or referenced
\* by a thread that has not returned from pthread_cond_wait.  A thread that
\* only waits inside pthread_mutex_lock does not count.
MutexInUse == holder # NoThread \/ \E t \in Threads : pc[t] \in {"wait", "relock"}

-----------------------------------------------------------------------------
\* The state job_queue_init leaves behind when it returns 0.
Init ==
  /\ job = [i \in Slots |-> NoJob]
  /\ head = 0
  /\ tail = 0
  /\ count = 0
  /\ is_destroyed = FALSE
  /\ holder = NoThread
  /\ alive = Resources
  /\ pc   = [t \in Threads |-> "idle"]
  /\ op   = [t \in Threads |-> "none"]
  /\ data = [t \in Threads |-> NoJob]
  /\ ret  = [t \in Threads |-> 0]

\* A thread calls one of the functions and enters pthread_mutex_lock.
Call(t, f, d) ==
  /\ pc[t] = "idle"
  /\ op'   = [op EXCEPT ![t] = f]
  /\ data' = [data EXCEPT ![t] = d]
  /\ pc'   = [pc EXCEPT ![t] = LockEntry]
  /\ UNCHANGED <<queueVars, holder, alive, ret>>

CallPush(t, d) == Call(t, "push", d)
CallPop(t)     == Call(t, "pop", NoJob)

\* Destroying a queue twice frees its array twice; the header gives a queue
\* one destruction, so a client calls job_queue_destroy once.
Destroying(t) == op[t] = "destroy" /\ pc[t] # "idle"
CallDestroy(t) ==
  /\ ~is_destroyed
  /\ \A u \in Threads : ~Destroying(u)
  /\ Call(t, "destroy", NoJob)

\* The mutex word is free and t gets it: from pthread_mutex_lock, or on the way
\* out of pthread_cond_wait.
FaultyAcquire(t) ==
  /\ pc[t] \in {"lock", "relock"}
  /\ holder = NoThread \/ pc[t] = "relock"
  /\ holder' = t
  /\ pc' = [pc EXCEPT ![t] = "check"]
  /\ UNCHANGED <<queueVars, alive, threadVars>>

Acquire(t) ==
  /\ pc[t] \in {"lock", "relock"}
  /\ holder = NoThread
  /\ holder' = t
  /\ pc' = [pc EXCEPT ![t] = "check"]
  /\ UNCHANGED <<queueVars, alive, threadVars>>

\* The conditions of the three while loops.
PushWaits         == count = Capacity /\ ~is_destroyed
PopWaits          == count = 0 /\ ~is_destroyed
EagerDestroyWaits == FALSE
DestroyWaits      == count > 0

Blocks(t) ==
  \/ op[t] = "push"    /\ PushWaits
  \/ op[t] = "pop"     /\ PopWaits
  \/ op[t] = "destroy" /\ DestroyWaits

\* pthread_cond_wait: give the mutex up and fall asleep in one step.
Wait(t) ==
  /\ pc[t] = "check"
  /\ Blocks(t)
  /\ holder' = Unlocked
  /\ pc' = [pc EXCEPT ![t] = "wait"]
  /\ UNCHANGED <<queueVars, alive, threadVars>>

\* pthread_cond_wait may return without having been signalled.
SpuriousWakeup(t) ==
  /\ pc[t] = "wait"
  /\ pc' = [pc EXCEPT ![t] = "relock"]
  /\ UNCHANGED <<queueVars, holder, alive, threadVars>>

Unlock(t) ==
  /\ pc[t] = "unlock"
  /\ holder' = Unlocked
  /\ pc' = [pc EXCEPT ![t] = IF op[t] = "destroy" THEN "free" ELSE "idle"]
  /\ UNCHANGED <<queueVars, alive, threadVars>>

-----------------------------------------------------------------------------
(* job_queue_push                                                          *)

FaultyNextSlot(i) == i + 1
NextSlot(i) == (i + 1) % Capacity

PushRefused(t) ==
  /\ pc[t] = "check" /\ op[t] = "push"
  /\ is_destroyed
  /\ ret' = [ret EXCEPT ![t] = -1]
  /\ pc'  = [pc EXCEPT ![t] = "unlock"]
  /\ UNCHANGED <<queueVars, holder, alive, op, data>>

HastyMayStore(t) == pc[t] = "check" /\ op[t] = "push" /\ ~Blocks(t)

MayStore(t) == pc[t] = "check" /\ op[t] = "push" /\ ~Blocks(t) /\ ~is_destroyed

PushStore(t) ==
  /\ MayStore(t)
  /\ job'  = [job EXCEPT ![tail] = data[t]]
  /\ tail' = NextSlot(tail)
  /\ ret'  = [ret EXCEPT ![t] = 0]
  /\ pc'   = [pc EXCEPT ![t] = "count"]
  /\ UNCHANGED <<head, count, is_destroyed, holder, alive, op, data>>

PushCount(t) ==
  /\ pc[t] = "count" /\ op[t] = "push"
  /\ count' = count + 1
  /\ Signal(t, "unlock", "not_empty")
  /\ UNCHANGED <<job, head, tail, is_destroyed, holder, alive, threadVars>>

-----------------------------------------------------------------------------
(* job_queue_pop                                                           *)

PopRefused(t) ==
  /\ pc[t] = "check" /\ op[t] = "pop"
  /\ is_destroyed /\ count = 0
  /\ ret' = [ret EXCEPT ![t] = -1]
  /\ pc'  = [pc EXCEPT ![t] = "unlock"]
  /\ UNCHANGED <<queueVars, holder, alive, op, data>>

MayLoad(t) == /\ pc[t] = "check" /\ op[t] = "pop" /\ ~Blocks(t)
              /\ ~(is_destroyed /\ count = 0)

PopLoad(t) ==
  /\ MayLoad(t)
  /\ data' = [data EXCEPT ![t] = job[head]]
  /\ head' = NextSlot(head)
  /\ ret'  = [ret EXCEPT ![t] = 0]
  /\ pc'   = [pc EXCEPT ![t] = "count"]
  /\ UNCHANGED <<job, tail, count, is_destroyed, holder, alive, op>>

PopCount(t) ==
  /\ pc[t] = "count" /\ op[t] = "pop"
  /\ count' = count - 1
  /\ Signal(t, "unlock", "not_full")
  /\ UNCHANGED <<job, head, tail, is_destroyed, holder, alive, threadVars>>

-----------------------------------------------------------------------------
(* job_queue_destroy                                                       *)

\* The queue is empty: mark it destroyed and wake everybody on both conditions.
DestroyMark(t) ==
  /\ pc[t] = "check" /\ op[t] = "destroy"
  /\ ~Blocks(t)
  /\ is_destroyed' = TRUE
  /\ ret' = [ret EXCEPT ![t] = 0]
  /\ pc' = [u \in Threads |-> IF u = t THEN "unlock"
                              ELSE IF pc[u] = "wait" THEN "relock" ELSE pc[u]]
  /\ UNCHANGED <<job, head, tail, count, holder, alive, op, data>>

DestroyFree(t) ==
  /\ pc[t] = "free"
  /\ alive' = alive \ {"job"}
  /\ pc' = [pc EXCEPT ![t] = "mutex_destroy"]
  /\ UNCHANGED <<queueVars, holder, threadVars>>

\* pthread_mutex_destroy, its result unchecked.  A mutex in use is refused with
\* EBUSY and stays as it was; otherwise it is invalidated, or left working by a
\* C library where destroying a plain mutex does nothing.
DestroyMutex(t) ==
  /\ pc[t] = "mutex_destroy"
  /\ \/ ~MutexInUse /\ alive' = alive \ {"mutex"}
     \/ alive' = alive
  /\ pc' = [pc EXCEPT ![t] = "cond_destroy"]
  /\ UNCHANGED <<queueVars, holder, threadVars>>

DestroyConds(t) ==
  /\ pc[t] = "cond_destroy"
  /\ alive' = alive \ {"cond"}
  /\ pc' = [pc EXCEPT ![t] = "idle"]
  /\ UNCHANGED <<queueVars, holder, threadVars>>

-----------------------------------------------------------------------------
\* The steps a thread takes by itself once it has the mutex.
Run(t) ==
  \/ Wait(t) \/ Unlock(t)
  \/ PushRefused(t) \/ PushStore(t) \/ PushCount(t)
  \/ PopRefused(t) \/ PopLoad(t) \/ PopCount(t)
  \/ DestroyMark(t) \/ DestroyFree(t) \/ DestroyMutex(t) \/ DestroyConds(t)

Step(t) == Acquire(t) \/ SpuriousWakeup(t) \/ Run(t)

Next ==
  \/ \E t \in Producers, d \in Jobs : CallPush(t, d)
  \/ \E t \in Consumers : CallPop(t)
  \/ \E t \in Destroyers : CallDestroy(t)
  \/ \E t \in Threads : Step(t)

Spec == Init /\ [][Next]_vars

\* The scheduler runs every thread that can run, and a mutex that keeps being
\* released is not denied to a waiting thread for ever.  Nobody is obliged to
\* call the queue, and no spurious wakeup is promised.
Fairness == \A t \in Threads : WF_vars(Run(t)) /\ SF_vars(Acquire(t))

FairSpec == Spec /\ Fairness

-----------------------------------------------------------------------------
TypeOK ==
  /\ job \in [Slots -> Jobs \cup {NoJob}]
  /\ head \in Slots
  /\ tail \in Slots
  /\ count \in 0 .. Capacity
  /\ is_destroyed \in BOOLEAN
  /\ holder \in Threads \cup {NoThread}
  /\ alive \subseteq Resources
  /\ pc   \in [Threads -> Labels]
  /\ op   \in [Threads -> {"none", "push", "pop", "destroy"}]
  /\ data \in [Threads -> Jobs \cup {NoJob}]
  /\ ret  \in [Threads -> {0, -1}]

-----------------------------------------------------------------------------
\* How many jobs the ring holds: count lags behind the indices by one job while
\* a thread is between its two halves of the update.
Halfway(f) == \E t \in Threads : pc[t] = "count" /\ op[t] = f
Length == count + (IF Halfway("push") THEN 1 ELSE 0)
                - (IF Halfway("pop") THEN 1 ELSE 0)

\* The contents of the ring, oldest job first.
Contents == [i \in 1 .. Length |-> job[(head + i - 1) % Capacity]]

\* Between lock and unlock no thread runs in the queue beside another, as long
\* as there is a mutex; and nobody is ever inside while a thread is half way
\* through an update, not even a thread whose lock call failed on the destroyed
\* mutex (job_queue.c:24-45, 48-68, 71-92).
Inside(t) == pc[t] \in {"check", "count", "unlock"}
MutualExclusion ==
  \A t, u \in Threads :
    /\ Inside(t) /\ Inside(u)
    /\ "mutex" \in alive \/ pc[t] = "count"
    => t = u

\* The ring arithmetic (job_queue.c:38-40, 61-63): head, tail and count agree,
\* the ring never holds more than its capacity, and every slot between head and
\* tail was written, so no pop returns an uninitialised pointer.
RingConsistent ==
  /\ Length \in 0 .. Capacity
  /\ tail = (head + Length) % Capacity
  /\ \A i \in 1 .. Length : Contents[i] # NoJob

\* What job_queue_destroy has released (job_queue.c:86-90) nobody uses: no
\* thread is about to read or write the freed array, and none sleeps on or is
\* about to signal a destroyed condition variable, although threads still wake
\* up, take the mutex and re-read the queue after that.
ReleasedNotUsed ==
  \A t \in Threads :
    /\ "job" \notin alive => ~MayStore(t) /\ ~MayLoad(t) /\ pc[t] # "count"
    /\ "cond" \notin alive => pc[t] \notin {"wait", "count"}

\* No wakeup for a popper is lost: while some popper sleeps, there are at least
\* as many poppers awake as there are jobs, although each push signals one
\* thread only and any running popper can take the job first (job_queue.c:42).
Awake(f) == {t \in Threads : /\ op[t] = f
                             /\ pc[t] \in {"lock", "relock", "check", "count"}}
NoLostJobSignal ==
  Sleepers("not_empty") # {} => Cardinality(Awake("pop")) >= count

\* The same for pushers and free slots (job_queue.c:65), while no destroyer
\* shares their condition variable.
SleepingPushers  == {t \in Sleepers("not_full") : op[t] = "push"}
DestroyerWaiting == \E t \in Threads : Destroying(t) /\ ~is_destroyed
NoLostRoomSignal ==
  SleepingPushers # {} /\ ~DestroyerWaiting
    => Cardinality(Awake("push")) >= Capacity - count

\* The destroyer shares not_full with the pushers, so the signal of the pop that
\* empties the queue may go to a pusher; then that pusher is on its way to refill
\* the queue and the destroyer is not forgotten (job_queue.c:74-76).
DestroyerNotForgotten ==
  (\E t \in Sleepers("not_full") : op[t] = "destroy")
    => count > 0 \/ Awake("push") # {}

\* The detailed queue implements the queue the header promises.
Phase == [t \in Threads |->
            IF pc[t] = "idle" THEN "idle"
            ELSE IF pc[t] \in {"lock", "check", "wait", "relock"}
                 THEN "pending" ELSE "done"]

Abs == INSTANCE BoundedQueue WITH queue <- Contents, closed <- is_destroyed,
                                  phase <- Phase

\* Every behaviour of job_queue.c is one of the first-in first-out queue of
\* job_queue.h: each call takes effect at one moment, in the order the mutex
\* decides, and no job is lost, duplicated or overtaken.
ImplementsBoundedQueue == Abs!Spec

\* A pop does not stay asleep while the queue holds a job (job_queue.h:34-35).
PopBlocksOnlyWhenEmpty ==
  \A t \in Consumers : ~<>[](op[t] = "pop" /\ pc[t] = "wait" /\ count > 0)

\* A push does not stay asleep while the queue has room (job_queue.h:28-29).
PushBlocksOnlyWhenFull ==
  \A t \in Producers : ~<>[](op[t] = "push" /\ pc[t] = "wait" /\ count < Capacity)

\* Once the queue is destroyed every pending pop returns (job_queue.h:35-37).
PopReturnsOnceDestroyed ==
  \A t \in Consumers :
    (op[t] = "pop" /\ pc[t] # "idle" /\ is_destroyed) ~> pc[t] = "idle"

=============================================================================
