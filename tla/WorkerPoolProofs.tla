---------------------------- MODULE WorkerPoolProofs ----------------------------
(***************************************************************************)
(* Theorems about WorkerPool, for every number of workers and jobs and     *)
(* every capacity.  The pool on job_queue.c implements the pool on the     *)
(* queue of job_queue.h, so what JobPoolProofs says of the latter holds of *)
(* the former.                                                             *)
(***************************************************************************)
EXTENDS WorkerPool, JobQueueProofs

OnPool == INSTANCE JobPoolProofs WITH queue <- Contents, closed <- is_destroyed,
                                      phase <- Phase

\* The clients of the queue use it as JobQueue lets its threads do.
LEMMA PoolUsesQueue == PoolSpec => Spec
<1>1. PoolInit => Init
  BY DEF PoolInit
<1>2. [PoolNext]_allVars => [Next]_vars
  <2> SUFFICES ASSUME [PoolNext]_allVars PROVE [Next]_vars
    OBVIOUS
  <2>1. ASSUME NEW j \in Jobs, Feed(j) PROVE Next
    BY <2>1, PoolAssumption DEF Feed, Next
  <2>2. CASE EndOfInput
    BY <2>2, PoolAssumption DEF EndOfInput, Next
  <2>3. CASE Join
    BY <2>3 DEF Join
  <2>4. ASSUME NEW w \in Consumers, WorkerStep(w) PROVE Next \/ UNCHANGED vars
    BY <2>4 DEF WorkerStep, StartPop, Take, Finish, Exit, Next
  <2>5. ASSUME NEW t \in Threads, QueueStep(t) PROVE Next
    BY <2>5 DEF QueueStep, Next
  <2>6. CASE UNCHANGED allVars
    BY <2>6 DEF allVars
  <2> QED
    BY <2>1, <2>2, <2>3, <2>4, <2>5, <2>6 DEF PoolNext, MainStep
<1> QED
  BY <1>1, <1>2, PTL DEF PoolSpec, Spec

LEMMA PoolRefInv == PoolSpec => []RefInv
  BY PoolUsesQueue, RefInvHolds, PTL

-----------------------------------------------------------------------------
LEMMA PoolTypeInit == PoolInit => PoolTypeOK
<1> SUFFICES ASSUME PoolInit PROVE PoolTypeOK
  OBVIOUS
<1>1. TypeOK
  BY InitIInv DEF PoolInit, IInv
<1> QED
  BY <1>1 DEF PoolInit, PoolTypeOK

LEMMA PoolTypeStep ==
  PoolTypeOK /\ TypeOK' /\ [PoolNext]_allVars => PoolTypeOK'
<1> SUFFICES ASSUME PoolTypeOK, TypeOK', [PoolNext]_allVars PROVE PoolTypeOK'
  OBVIOUS
<1> USE DEF PoolTypeOK
<1>1. CASE MainStep
  BY <1>1 DEF MainStep, Feed, EndOfInput, Join
<1>2. ASSUME NEW w \in Consumers, WorkerStep(w) PROVE PoolTypeOK'
  BY <1>2 DEF WorkerStep, StartPop, Take, Finish, Exit
<1>3. CASE UNCHANGED poolVars
  BY <1>3 DEF poolVars
<1> QED
  BY <1>1, <1>2, <1>3 DEF PoolNext, QueueStep, allVars

\* The queue, main and the workers keep their types (fibs.c:55-121).
THEOREM PoolTypeCorrect == PoolSpec => []PoolTypeOK
<1>1. RefInv => TypeOK
  BY DEF RefInv, IInv
<1> QED
  BY <1>1, PoolRefInv, PoolTypeInit, PoolTypeStep, PTL DEF PoolSpec

-----------------------------------------------------------------------------
(* The refinement                                                          *)

\* A step inside job_queue.c is a step of the abstract queue or a stutter.
LEMMA QueueStepImplements ==
  ASSUME RefInv, RefInv', NEW t \in Threads, QueueStep(t)
  PROVE  Pool!QueueStep(t) \/ UNCHANGED <<Pool!vars, Pool!poolVars>>
<1> USE DEF RefInv, Pool!QueueStep, Pool!poolVars, poolVars
<1>1. Step(t) /\ UNCHANGED poolVars
  BY DEF QueueStep
<1>2. CASE PushStore(t)
  BY <1>1, <1>2, PushStoreImplements
  DEF Abs!Push, Abs!Effect, Pool!Push, Pool!Effect
<1>3. CASE PopLoad(t)
  BY <1>1, <1>3, PopLoadImplements
  DEF Abs!Pop, Abs!Effect, Pool!Pop, Pool!Effect
<1>4. CASE PushCount(t) \/ PopCount(t)
  BY <1>1, <1>4, CountImplements DEF Abs!vars, Pool!vars
<1>5. CASE ~PushStore(t) /\ ~PopLoad(t) /\ ~PushCount(t) /\ ~PopCount(t)
  <2>1. RingAlone
    BY <1>1, <1>5, OtherSteps
  <2>2. CASE PushRefused(t)
    BY <1>1, <2>1, <2>2, PushRefusedImplements
    DEF Abs!RefusePush, Abs!Effect, Pool!RefusePush, Pool!Effect
  <2>3. CASE PopRefused(t)
    BY <1>1, <2>1, <2>3, PopRefusedImplements
    DEF Abs!RefusePop, Abs!Effect, Pool!RefusePop, Pool!Effect
  <2>4. CASE DestroyMark(t)
    BY <1>1, <2>1, <2>4, DestroyMarkImplements
    DEF Abs!Close, Abs!Effect, Pool!Close, Pool!Effect
  <2>5. CASE DestroyConds(t) \/ (Unlock(t) /\ op[t] # "destroy")
    BY <1>1, <2>1, <2>5, ReturnImplements DEF Abs!Return, Pool!Return
  <2>6. CASE \/ Acquire(t) \/ SpuriousWakeup(t) \/ Wait(t)
             \/ Unlock(t) /\ op[t] = "destroy"
             \/ DestroyFree(t) \/ DestroyMutex(t)
    BY <1>1, <2>1, <2>6, QuietImplements DEF Abs!vars, Pool!vars
  <2>7. \/ PushRefused(t) \/ PopRefused(t) \/ DestroyMark(t) \/ DestroyConds(t)
        \/ Acquire(t) \/ SpuriousWakeup(t) \/ Wait(t) \/ Unlock(t)
        \/ DestroyFree(t) \/ DestroyMutex(t)
    BY <1>1, <1>5 DEF Step, Run
  <2> QED
    BY <2>2, <2>3, <2>4, <2>5, <2>6, <2>7
<1> QED
  BY <1>2, <1>3, <1>4, <1>5

\* A call enters the abstract queue.
LEMMA CallInvokes ==
  ASSUME RefInv, NEW t \in Threads, NEW f, NEW d, Call(t, f, d)
  PROVE  Pool!Invoke(t, f, d)
  BY CallAlone, CallImplements DEF RefInv, Abs!Invoke, Pool!Invoke

\* The abstract queue is left alone by what happens between two calls.
LEMMA BetweenCalls ==
  ASSUME UNCHANGED vars
  PROVE  UNCHANGED Pool!vars
<1>1. /\ Halfway("push")' <=> Halfway("push")
      /\ Halfway("pop")' <=> Halfway("pop")
  BY DEF vars, threadVars, Halfway
<1>2. Contents' = Contents
  BY <1>1 DEF vars, queueVars, Length, Contents
<1>3. Phase' = Phase
  BY DEF vars, Phase
<1> QED
  BY <1>2, <1>3 DEF vars, queueVars, threadVars, Pool!vars

LEMMA PoolInitImplements == PoolInit => Pool!PoolInit
<1> SUFFICES ASSUME PoolInit PROVE Pool!PoolInit
  OBVIOUS
<1>1. Pool!Init
  BY InitImplements
  DEF PoolInit, Abs!Init, Pool!Init, Abs!Callers, Pool!Callers
<1> QED
  BY <1>1 DEF PoolInit, Pool!PoolInit

LEMMA PoolStepImplements ==
  /\ RefInv /\ RefInv' /\ PoolTypeOK /\ [PoolNext]_allVars
  => [Pool!PoolNext]_<<Pool!vars, Pool!poolVars>>
<1> SUFFICES ASSUME RefInv, RefInv', PoolTypeOK, [PoolNext]_allVars
             PROVE  Pool!PoolNext \/ UNCHANGED <<Pool!vars, Pool!poolVars>>
  OBVIOUS
<1>1. Main \in Threads /\ Consumers \subseteq Threads
  BY PoolAssumption DEF Threads
<1>2. \A t \in Threads : Phase[t] = "idle" <=> pc[t] = "idle"
  BY DEF Phase
<1>3. mstage # "crashed"
  BY DEF PoolTypeOK
<1>4. ASSUME NEW j \in Jobs, Feed(j) PROVE Pool!PoolNext
  BY <1>1, <1>3, <1>4, CallInvokes
  DEF Feed, CallPush, Pool!Feed, Pool!MainStep, Pool!PoolNext
<1>5. CASE EndOfInput
  BY <1>1, <1>3, <1>5, CallInvokes
  DEF EndOfInput, InputRead, CallDestroy, Pool!EndOfInput, Pool!MainStep, Pool!PoolNext
<1>6. CASE Join
  BY <1>1, <1>2, <1>3, <1>6, BetweenCalls
  DEF Join, AllGone, Pool!Join, Pool!AllGone, Pool!MainStep, Pool!PoolNext
<1>7. ASSUME NEW w \in Consumers, StartPop(w) PROVE Pool!PoolNext
  BY <1>1, <1>3, <1>7, CallInvokes DEF StartPop, CallPop, Pool!StartPop, Pool!PoolNext
<1>8. ASSUME NEW w \in Consumers, Take(w) \/ Finish(w) \/ Exit(w) PROVE Pool!PoolNext
  BY <1>1, <1>2, <1>3, <1>8, BetweenCalls
  DEF Take, Finish, Exit, Refused, Popped, Pool!Take, Pool!Finish, Pool!Exit, Pool!Popped,
      Pool!PoolNext
<1>9. ASSUME NEW t \in Threads, QueueStep(t)
      PROVE  Pool!PoolNext \/ UNCHANGED <<Pool!vars, Pool!poolVars>>
  BY <1>3, <1>9, QueueStepImplements DEF Pool!PoolNext, Pool!Callers, Threads
<1>10. CASE UNCHANGED allVars
  BY <1>10, BetweenCalls DEF allVars, poolVars, Pool!poolVars
<1> QED
  BY <1>4, <1>5, <1>6, <1>7, <1>8, <1>9, <1>10 DEF PoolNext, MainStep, WorkerStep

\* fibs and the -mt programs may be read over the queue of job_queue.h: the pool
\* on job_queue.c implements the pool on the abstract queue.
THEOREM WorkerPoolImplementsJobPool == PoolSpec => ImplementsJobPool
  BY PoolRefInv, PoolTypeCorrect, PoolInitImplements, PoolStepImplements, PTL
  DEF PoolSpec, ImplementsJobPool, Pool!PoolSpec

-----------------------------------------------------------------------------
(* What follows from it                                                    *)

\* JobPoolProofs is about the same pool.
LEMMA SamePool == Pool!PoolSpec => OnPool!PoolSpec
<1>1. Pool!PoolInit => OnPool!PoolInit
  BY DEF Pool!PoolInit, OnPool!PoolInit, Pool!Init, OnPool!Init, Pool!Callers, OnPool!Callers
<1>2. <<Pool!vars, Pool!poolVars>> = <<OnPool!vars, OnPool!poolVars>>
  BY DEF Pool!vars, OnPool!vars, Pool!poolVars, OnPool!poolVars
<1>3. Pool!PoolNext => OnPool!PoolNext
  BY DEF Pool!Callers, OnPool!Callers, Pool!PoolNext, OnPool!PoolNext, Pool!MainStep,
      OnPool!MainStep, Pool!Feed, OnPool!Feed, Pool!EndOfInput, OnPool!EndOfInput,
      Pool!Join, OnPool!Join, Pool!JoinGarbage, OnPool!JoinGarbage, Pool!AllGone,
      OnPool!AllGone, Pool!StartPop, OnPool!StartPop, Pool!Take, OnPool!Take,
      Pool!Finish, OnPool!Finish, Pool!Exit, OnPool!Exit, Pool!Popped,
      OnPool!Popped, Pool!QueueStep, OnPool!QueueStep, Pool!Invoke, OnPool!Invoke,
      Pool!Effect, OnPool!Effect, Pool!Push, OnPool!Push, Pool!RefusePush,
      OnPool!RefusePush, Pool!Pop, OnPool!Pop, Pool!RefusePop, OnPool!RefusePop,
      Pool!Close, OnPool!Close, Pool!Return, OnPool!Return, Pool!vars, OnPool!vars,
      Pool!poolVars, OnPool!poolVars
<1>4. [Pool!PoolNext]_<<Pool!vars, Pool!poolVars>>
        => [OnPool!PoolNext]_<<OnPool!vars, OnPool!poolVars>>
  BY <1>3 DEF Pool!vars, OnPool!vars, Pool!poolVars, OnPool!poolVars
<1> QED
  BY <1>1, <1>4, PTL DEF Pool!PoolSpec, OnPool!PoolSpec

LEMMA OnPoolAssumption == OnPool!PoolAssumption
  BY PoolAssumption, JobAssumption DEF OnPool!PoolAssumption

\* Where a job is in the pool on job_queue.c, it is in the abstract pool.
LEMMA SamePlaces ==
  ASSUME RefInv, OnPool!PoolInv
  PROVE  OnPool!InPush = InPush /\ OnPool!InQueue = InQueue /\ OnPool!InHand = InHand
<1> USE DEF RefInv, IInv, TypeOK, Labels
<1>1. OnPool!InPush = InPush
  <2>1. \A t \in Producers : OnPool!Pushes(t)
          <=> op[t] = "push" /\ pc[t] \in {"lock", "relock", "check", "wait"}
    BY DEF OnPool!Pushes, Phase, Threads
  <2> QED
    BY <2>1 DEF OnPool!InPush, InPush
<1>2. OnPool!InQueue = InQueue
  BY ContentsSeq DEF OnPool!InQueue, InQueue
<1>3. OnPool!InHand = InHand
  <2>1. \A w \in Consumers : OnPool!Holds(w)
          <=> \/ wstage[w] = "work"
              \/ /\ wstage[w] = "pop" /\ ret[w] = 0
                 /\ pc[w] \in {"count", "unlock", "idle"}
    <3> SUFFICES ASSUME NEW w \in Consumers
                 PROVE  wstage[w] = "pop" =>
                          (Phase[w] # "pending" <=> pc[w] \in {"count", "unlock", "idle"})
      BY DEF OnPool!Holds
    <3>1. wstage[w] = "pop" => op[w] = "pop"
      BY DEF OnPool!PoolInv, OnPool!WorkersFit
    <3> QED
      BY <3>1 DEF Phase, Threads, StagesFit
  <2> QED
    BY <2>1 DEF OnPool!InHand, InHand
<1> QED
  BY <1>1, <1>2, <1>3

LEMMA OnPoolInvHolds == PoolSpec => []OnPool!PoolInv
<1>1. OnPool!PoolSpec => []OnPool!PoolInv
  BY OnPoolAssumption, OnPool!PoolInvHolds
<1> QED
  BY <1>1, WorkerPoolImplementsJobPool, SamePool, PTL DEF ImplementsJobPool

\* Wherever the threads are, each job is in one place until it is finished, and
\* finished once (fibs.c:107-109, 57-68).
THEOREM EachJobOnceHolds == PoolSpec => []EachJobOnce
<1>1. OnPool!PoolInv => OnPool!EachJobOnce
  BY OnPoolAssumption, OnPool!InvEachJobOnce
<1>2. RefInv /\ OnPool!PoolInv /\ OnPool!EachJobOnce => EachJobOnce
  BY SamePlaces DEF OnPool!EachJobOnce, OnPool!Unfinished, EachJobOnce
<1> QED
  BY <1>1, <1>2, PoolRefInv, OnPoolInvHolds, PTL

\* When main returns every job has been processed and every worker is gone
\* (fibs.c:113-121).
THEOREM DoneAtExitHolds == PoolSpec => []DoneAtExit
<1>1. OnPool!PoolInv => OnPool!DoneAtExit
  BY OnPoolAssumption, OnPool!InvDoneAtExit
<1>2. PoolTypeOK /\ OnPool!DoneAtExit => DoneAtExit
  BY DEF PoolTypeOK, OnPool!DoneAtExit, OnPool!AllGone, DoneAtExit
<1> QED
  BY <1>1, <1>2, PoolTypeCorrect, OnPoolInvHolds, PTL

\* No worker gives up while there is something left for it (fibs.c:62-66).
THEOREM ExitOnlyWhenDoneHolds == PoolSpec => []ExitOnlyWhenDone
<1>1. OnPool!PoolInv => OnPool!ExitOnlyWhenDone
  BY OnPoolAssumption, OnPool!InvExitOnlyWhenDone
<1>2. RefInv /\ OnPool!PoolInv /\ OnPool!ExitOnlyWhenDone => ExitOnlyWhenDone
  BY SamePlaces DEF OnPool!ExitOnlyWhenDone, ExitOnlyWhenDone
<1> QED
  BY <1>1, <1>2, PoolRefInv, OnPoolInvHolds, PTL

=============================================================================
