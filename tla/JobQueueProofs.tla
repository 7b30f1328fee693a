---------------------------- MODULE JobQueueProofs ----------------------------
(***************************************************************************)
(* Theorems about JobQueue, for every number of threads, every capacity    *)
(* and every set of jobs.                                                  *)
(***************************************************************************)
EXTENDS JobQueue, FiniteSetTheorems, SequenceTheorems, TLAPS

(* The strengthening of the safety properties that every step preserves.   *)

\* What a thread's label says of its call.
StagesFit ==
  \A t \in Threads :
    /\ pc[t] # "idle" => op[t] # "none"
    /\ pc[t] \in {"free", "mutex_destroy", "cond_destroy"}
         => op[t] = "destroy" /\ is_destroyed
    /\ pc[t] = "unlock" /\ op[t] = "destroy" => is_destroyed
    /\ pc[t] = "count" => op[t] \in {"push", "pop"}

\* As long as the mutex works, its holder is the thread inside the queue.
HolderInside ==
  "mutex" \in alive => \A t \in Threads : holder = t <=> Inside(t)

\* A destroyed queue is empty, nobody sleeps in it or changes it.
DestroyedQuiet ==
  is_destroyed => count = 0 /\ \A t \in Threads : pc[t] \notin {"wait", "count"}

\* Nothing is released before the queue is marked destroyed.
ReleasedLast == alive # Resources => is_destroyed

\* count can take the change that a thread half way through owes it.
CountMayMove ==
  \A t \in Threads :
    pc[t] = "count" => /\ op[t] = "push" => count < Capacity
                       /\ op[t] = "pop"  => count > 0

IInv == /\ TypeOK
        /\ StagesFit
        /\ HolderInside
        /\ DestroyedQuiet
        /\ ReleasedLast
        /\ CountMayMove

-----------------------------------------------------------------------------
LEMMA InitIInv == Init => IInv
<1> SUFFICES ASSUME Init PROVE IInv
  OBVIOUS
<1>1. TypeOK
  <2>1. 0 \in Slots /\ 0 \in 0 .. Capacity
    BY CapacityAssumption DEF Slots
  <2>2. is_destroyed \in BOOLEAN
    BY DEF Init
  <2> QED
    BY <2>1, <2>2 DEF Init, TypeOK, Labels
<1>2. StagesFit /\ DestroyedQuiet /\ ReleasedLast /\ CountMayMove
  BY DEF Init, StagesFit, DestroyedQuiet, ReleasedLast, CountMayMove
<1>3. HolderInside
  BY ThreadAssumption DEF Init, HolderInside, Inside
<1> QED
  BY <1>1, <1>2, <1>3 DEF IInv

\* The next slot of the ring is a slot.
LEMMA NextSlotIsSlot == \A i \in Slots : NextSlot(i) \in Slots
  BY CapacityAssumption DEF Slots, NextSlot

\* A conjunct of IInv that only reads pc, op and the mutex survives a step that
\* moves one thread; the leaves below say which definitions decide it.
LEMMA IInvStep == IInv /\ [Next]_vars => IInv'
<1> SUFFICES ASSUME IInv, [Next]_vars PROVE IInv'
  OBVIOUS
<1> USE ThreadAssumption, CapacityAssumption
    DEF IInv, TypeOK, StagesFit, HolderInside, DestroyedQuiet, ReleasedLast,
        CountMayMove, Inside, Labels, Resources, queueVars, threadVars
<1>1. ASSUME NEW t \in Threads, NEW f \in {"push", "pop", "destroy"},
             NEW d \in Jobs \cup {NoJob}, Call(t, f, d)
      PROVE  IInv'
  BY <1>1 DEF Call, LockEntry
<1>2. ASSUME NEW t \in Threads, Step(t) PROVE IInv'
  <2>1. CASE Acquire(t)
    BY <2>1 DEF Acquire
  <2>2. CASE SpuriousWakeup(t)
    BY <2>2 DEF SpuriousWakeup
  <2>3. CASE Wait(t)
    BY <2>3 DEF Wait, Blocks, PushWaits, PopWaits, DestroyWaits, Unlocked
  <2>4. CASE Unlock(t)
    BY <2>4 DEF Unlock, Unlocked
  <2>5. CASE PushRefused(t)
    BY <2>5 DEF PushRefused
  <2>6. CASE PushStore(t)
    BY <2>6, NextSlotIsSlot DEF PushStore, MayStore, Blocks, PushWaits, PopWaits, DestroyWaits
  <2>7. CASE PushCount(t)
    BY <2>7 DEF PushCount, Signal, Sleepers
  <2>8. CASE PopRefused(t)
    BY <2>8 DEF PopRefused
  <2>9. CASE PopLoad(t)
    BY <2>9, NextSlotIsSlot DEF PopLoad, MayLoad, Blocks, PushWaits, PopWaits, DestroyWaits
  <2>10. CASE PopCount(t)
    BY <2>10 DEF PopCount, Signal, Sleepers
  <2>11. CASE DestroyMark(t)
    BY <2>11 DEF DestroyMark, Blocks, PushWaits, PopWaits, DestroyWaits
  <2>12. CASE DestroyFree(t)
    BY <2>12 DEF DestroyFree
  <2>13. CASE DestroyMutex(t)
    BY <2>13 DEF DestroyMutex
  <2>14. CASE DestroyConds(t)
    BY <2>14 DEF DestroyConds
  <2> QED
    BY <1>2, <2>1, <2>2, <2>3, <2>4, <2>5, <2>6, <2>7, <2>8, <2>9, <2>10, <2>11,
       <2>12, <2>13, <2>14 DEF Step, Run
<1>3. CASE UNCHANGED vars
  BY <1>3 DEF vars
<1>4. CASE Next
  <2>1. CASE \E t \in Producers, d \in Jobs : CallPush(t, d)
    BY <1>1, <2>1 DEF CallPush, Threads
  <2>2. CASE \E t \in Consumers : CallPop(t)
    BY <1>1, <2>2 DEF CallPop, Threads
  <2>3. CASE \E t \in Destroyers : CallDestroy(t)
    BY <1>1, <2>3 DEF CallDestroy, Threads
  <2>4. CASE \E t \in Threads : Step(t)
    BY <1>2, <2>4
  <2> QED
    BY <1>4, <2>1, <2>2, <2>3, <2>4 DEF Next
<1> QED
  BY <1>3, <1>4

-----------------------------------------------------------------------------
(* Type correctness and the two properties that follow from IInv at once.  *)

\* Every reachable state satisfies the strengthening.
THEOREM IInvHolds == Spec => []IInv
  BY InitIInv, IInvStep, PTL DEF Spec

\* The variables keep their types; in particular head and tail stay slots of the
\* array and count stays within the capacity (job_queue.c:38-40, 61-63).
THEOREM TypeCorrect == Spec => []TypeOK
<1>1. IInv => TypeOK
  BY DEF IInv
<1> QED
  BY <1>1, IInvHolds, PTL

LEMMA IInvExclusion == IInv => MutualExclusion
<1> SUFFICES ASSUME IInv,
                    NEW t \in Threads, NEW u \in Threads, Inside(t), Inside(u),
                    "mutex" \in alive \/ pc[t] = "count"
             PROVE  t = u
  BY DEF MutualExclusion
<1>1. "mutex" \in alive
  BY DEF IInv, DestroyedQuiet, ReleasedLast, Resources
<1> QED
  BY <1>1 DEF IInv, HolderInside

\* No two threads are inside the queue, and nobody is while a thread updates the
\* ring, although threads run on without the mutex once it is destroyed.
THEOREM MutualExclusionHolds == Spec => []MutualExclusion
  BY IInvHolds, IInvExclusion, PTL

LEMMA IInvReleased == IInv => ReleasedNotUsed
  BY DEF IInv, TypeOK, DestroyedQuiet, ReleasedLast, Resources, ReleasedNotUsed,
         MayStore, MayLoad

\* After job_queue_destroy has freed the array and destroyed the condition
\* variables no thread uses them again.
THEOREM ReleasedNotUsedHolds == Spec => []ReleasedNotUsed
  BY IInvHolds, IInvReleased, PTL

-----------------------------------------------------------------------------
(* The ring arithmetic.                                                    *)

\* The slots counted from a slot, at most one turn further, without the modulus:
\* the place behind the last job, the place of a job, and the next slot.
LEMMA TailSlot ==
  ASSUME NEW h \in Slots, NEW n \in 0 .. Capacity
  PROVE  (h + n) % Capacity = IF h + n < Capacity THEN h + n ELSE h + n - Capacity
  BY CapacityAssumption DEF Slots

LEMMA JobSlot ==
  ASSUME NEW h \in Slots, NEW i \in 1 .. Capacity
  PROVE  (h + i - 1) % Capacity
           = IF h + i - 1 < Capacity THEN h + i - 1 ELSE h + i - 1 - Capacity
  BY CapacityAssumption DEF Slots

LEMMA SlotAfter ==
  ASSUME NEW h \in Slots
  PROVE  NextSlot(h) = IF h + 1 < Capacity THEN h + 1 ELSE 0
  BY CapacityAssumption DEF Slots, NextSlot

\* With nobody half way through an update, count is the length of the ring; with
\* somebody half way, count is one behind or one ahead of it.
LengthFits ==
  /\ (\A t \in Threads : pc[t] # "count") => Length = count
  /\ \A t \in Threads :
       pc[t] = "count" => Length = IF op[t] = "push" THEN count + 1 ELSE count - 1

LEMMA LengthKnown == IInv => LengthFits
<1> SUFFICES ASSUME IInv PROVE LengthFits
  OBVIOUS
<1>1. ASSUME \A t \in Threads : pc[t] # "count" PROVE Length = count
  BY <1>1 DEF Length, Halfway, IInv, TypeOK
<1>2. ASSUME NEW t \in Threads, pc[t] = "count"
      PROVE  Length = IF op[t] = "push" THEN count + 1 ELSE count - 1
  <2>1. \A u \in Threads : pc[u] = "count" => u = t
    BY <1>2, IInvExclusion DEF MutualExclusion, Inside
  <2>2. op[t] \in {"push", "pop"} /\ count \in Int
    BY <1>2 DEF IInv, StagesFit, TypeOK
  <2>3. CASE op[t] = "push"
    <3>1. Halfway("push") /\ ~Halfway("pop")
      BY <1>2, <2>1, <2>3 DEF Halfway
    <3> QED
      BY <2>2, <2>3, <3>1 DEF Length
  <2>4. CASE op[t] = "pop"
    <3>1. ~Halfway("push") /\ Halfway("pop")
      BY <1>2, <2>1, <2>4 DEF Halfway
    <3> QED
      BY <2>2, <2>4, <3>1 DEF Length
  <2> QED
    BY <2>2, <2>3, <2>4
<1> QED
  BY <1>1, <1>2 DEF LengthFits

LEMMA LengthKnownNext == IInv' => LengthFits'
  BY LengthKnown, PTL

\* A thread about to store or load is alone: the length is count.
LEMMA LengthBeforeUpdate ==
  ASSUME IInv, NEW t \in Threads, MayStore(t) \/ MayLoad(t)
  PROVE  Length = count
<1>1. Inside(t) /\ pc[t] # "count"
  BY DEF MayStore, MayLoad, Inside
<1>2. \A u \in Threads : pc[u] # "count"
  BY <1>1, IInvExclusion DEF MutualExclusion, Inside
<1> QED
  BY <1>2, LengthKnown DEF LengthFits

\* The data argument of a push is a job.
PushCarriesJob == \A t \in Threads : op[t] = "push" => data[t] \in Jobs

LEMMA PushCarriesJobStep ==
  IInv /\ PushCarriesJob /\ [Next]_vars => PushCarriesJob'
<1> SUFFICES ASSUME IInv, PushCarriesJob, [Next]_vars PROVE PushCarriesJob'
  OBVIOUS
<1> USE DEF IInv, TypeOK, PushCarriesJob
<1>1. ASSUME NEW t \in Threads, NEW f, NEW d, Call(t, f, d),
             f = "push" => d \in Jobs
      PROVE  PushCarriesJob'
  BY <1>1 DEF Call
<1>2. ASSUME NEW t \in Threads, PopLoad(t) PROVE PushCarriesJob'
  BY <1>2 DEF PopLoad, MayLoad
<1>3. ASSUME UNCHANGED <<op, data>> PROVE PushCarriesJob'
  BY <1>3
<1>4. CASE UNCHANGED vars
  BY <1>3, <1>4 DEF vars, threadVars
<1>5. ASSUME NEW t \in Threads, Step(t), ~PopLoad(t) PROVE UNCHANGED <<op, data>>
  BY <1>5 DEF Step, Run, Acquire, SpuriousWakeup, Wait, Unlock, PushRefused,
     PushStore, PushCount, PopRefused, PopCount, DestroyMark, DestroyFree,
     DestroyMutex, DestroyConds, threadVars
<1>6. CASE Next
  BY <1>1, <1>2, <1>3, <1>5, <1>6 DEF Next, CallPush, CallPop, CallDestroy, Threads
<1> QED
  BY <1>4, <1>6

\* The ring after a step that moves no index and no job keeps what it held.
LEMMA RingUnmoved ==
  ASSUME RingConsistent, UNCHANGED <<job, head, tail>>, Length' = Length
  PROVE  RingConsistent'
  BY DEF RingConsistent, Contents

LEMMA RingStored ==
  ASSUME IInv, PushCarriesJob, RingConsistent, NEW t \in Threads, PushStore(t)
  PROVE  RingConsistent'
<1>1. /\ Length = count /\ count \in 0 .. Capacity /\ count < Capacity
      /\ head \in Slots /\ tail \in Slots /\ Capacity \in Nat \ {0}
  BY LengthBeforeUpdate, CapacityAssumption
     DEF PushStore, MayStore, Blocks, PushWaits, PopWaits, DestroyWaits, IInv, TypeOK
<1>2. Length' = count + 1
  <2>1. IInv'
    BY IInvStep DEF Next, Step, Run
  <2>2. pc'[t] = "count" /\ op'[t] = "push" /\ count' = count
    BY DEF PushStore, MayStore, IInv, TypeOK
  <2> QED
    BY <2>1, <2>2, LengthKnownNext DEF LengthFits
<1>3. tail = (head + count) % Capacity
  BY <1>1 DEF RingConsistent
<1>4. tail' = (head' + Length') % Capacity
  <2>1. tail = IF head + count < Capacity THEN head + count ELSE head + count - Capacity
    BY <1>1, <1>3, TailSlot
  <2>2. tail' = IF tail + 1 < Capacity THEN tail + 1 ELSE 0
    BY <1>1, SlotAfter DEF PushStore
  <2>3. (head + (count + 1)) % Capacity
          = IF head + (count + 1) < Capacity THEN head + (count + 1)
            ELSE head + (count + 1) - Capacity
    BY <1>1, TailSlot
  <2>4. tail' = (head + (count + 1)) % Capacity
    BY <1>1, <2>1, <2>2, <2>3 DEF Slots
  <2> QED
    BY <1>2, <2>4 DEF PushStore
<1>5. ASSUME NEW i \in 1 .. count + 1
      PROVE  job'[(head + i - 1) % Capacity] # NoJob
  <2>1. CASE i = count + 1
    BY <1>1, <1>3, <2>1, JobAssumption DEF PushStore, MayStore, PushCarriesJob, IInv, TypeOK
  <2>2. CASE i \in 1 .. count
    <3>1. (head + i - 1) % Capacity # tail
      <4>1. (head + i - 1) % Capacity
              = IF head + i - 1 < Capacity THEN head + i - 1
                ELSE head + i - 1 - Capacity
        BY <1>1, <2>2, JobSlot
      <4>2. tail = IF head + count < Capacity THEN head + count
                   ELSE head + count - Capacity
        BY <1>1, <1>3, TailSlot
      <4> QED
        BY <1>1, <2>2, <4>1, <4>2 DEF Slots
    <3>2. job[(head + i - 1) % Capacity] # NoJob
      BY <1>1, <2>2 DEF RingConsistent, Contents
    <3> QED
      BY <3>1, <3>2 DEF PushStore, IInv, TypeOK
  <2> QED
    BY <1>1, <2>1, <2>2
<1> QED
  BY <1>1, <1>2, <1>4, <1>5 DEF RingConsistent, Contents, PushStore

LEMMA RingLoaded ==
  ASSUME IInv, RingConsistent, NEW t \in Threads, PopLoad(t)
  PROVE  RingConsistent'
<1>1. /\ Length = count /\ count \in 0 .. Capacity /\ count > 0
      /\ head \in Slots /\ tail \in Slots /\ Capacity \in Nat \ {0}
  BY LengthBeforeUpdate, CapacityAssumption
     DEF PopLoad, MayLoad, Blocks, PushWaits, PopWaits, DestroyWaits, IInv, TypeOK
<1>2. Length' = count - 1
  <2>1. IInv'
    BY IInvStep DEF Next, Step, Run
  <2>2. pc'[t] = "count" /\ op'[t] = "pop" /\ count' = count
    BY DEF PopLoad, MayLoad, IInv, TypeOK
  <2> QED
    BY <2>1, <2>2, LengthKnownNext DEF LengthFits
<1>3. head' = IF head + 1 < Capacity THEN head + 1 ELSE 0
  BY <1>1, SlotAfter DEF PopLoad
<1>4. tail' = (head' + Length') % Capacity
  <2>1. tail = IF head + count < Capacity THEN head + count ELSE head + count - Capacity
    BY <1>1, TailSlot DEF RingConsistent
  <2>2. head' \in Slots /\ count - 1 \in 0 .. Capacity
    BY <1>1, <1>3 DEF Slots
  <2>3. (head' + (count - 1)) % Capacity
          = IF head' + (count - 1) < Capacity THEN head' + (count - 1)
            ELSE head' + (count - 1) - Capacity
    BY <2>2, TailSlot
  <2>4. tail = (head' + (count - 1)) % Capacity
    BY <1>1, <1>3, <2>1, <2>3 DEF Slots
  <2> QED
    BY <1>2, <2>4 DEF PopLoad
<1>5. ASSUME NEW i \in 1 .. count - 1
      PROVE  job'[(head' + i - 1) % Capacity] # NoJob
  <2> DEFINE k == i + 1
  <2>1. k \in 1 .. count /\ k \in 1 .. Capacity
    BY <1>1
  <2>2. job[(head + k - 1) % Capacity] # NoJob
    BY <1>1, <2>1 DEF RingConsistent, Contents
  <2> HIDE DEF k
  <2>3. (head + k - 1) % Capacity
          = IF head + k - 1 < Capacity THEN head + k - 1 ELSE head + k - 1 - Capacity
    BY <1>1, <2>1, JobSlot
  <2>4. (head' + i - 1) % Capacity
          = IF head' + i - 1 < Capacity THEN head' + i - 1
            ELSE head' + i - 1 - Capacity
    <3>1. head' \in Slots /\ i \in 1 .. Capacity
      BY <1>1, <1>3 DEF Slots
    <3> QED
      BY <3>1, JobSlot
  <2>5. (head' + i - 1) % Capacity = (head + k - 1) % Capacity
    BY <1>1, <1>3, <2>3, <2>4 DEF Slots, k
  <2> QED
    BY <2>2, <2>5 DEF PopLoad
<1> QED
  BY <1>1, <1>2, <1>4, <1>5 DEF RingConsistent, Contents

\* The second half of an update moves count to the length the ring has already.
LEMMA RingCounted ==
  ASSUME IInv, RingConsistent, NEW t \in Threads, PushCount(t) \/ PopCount(t)
  PROVE  RingConsistent'
<1>1. pc[t] = "count" /\ count \in Int
  BY DEF PushCount, PopCount, IInv, TypeOK
<1>2. \A u \in Threads : pc[u] = "count" => u = t
  BY <1>1, IInvExclusion DEF MutualExclusion, Inside
<1>3. \A u \in Threads : pc'[u] # "count"
  <2>1. CASE PushCount(t)
    BY <1>2, <2>1 DEF PushCount, Signal, Sleepers, IInv, TypeOK
  <2>2. CASE PopCount(t)
    BY <1>2, <2>2 DEF PopCount, Signal, Sleepers, IInv, TypeOK
  <2> QED
    BY <2>1, <2>2
<1>4. Length = count'
  BY <1>1, LengthKnown DEF LengthFits, PushCount, PopCount
<1>5. Length' = count'
  <2>1. IInv'
    BY IInvStep DEF Next, Step, Run
  <2> QED
    BY <1>3, <2>1, LengthKnownNext DEF LengthFits
<1> QED
  BY <1>4, <1>5, RingUnmoved DEF PushCount, PopCount

\* Every other step leaves the ring and the length alone.
RingAlone ==
  /\ UNCHANGED <<job, head, tail, count>>
  /\ \A u \in Threads : pc'[u] = "count" <=> pc[u] = "count"
  /\ \A u \in Threads : pc[u] = "count" => op'[u] = op[u]

LEMMA LengthKept ==
  ASSUME RingAlone
  PROVE  Length' = Length
<1>1. (Halfway("push") <=> Halfway("push")') /\ (Halfway("pop") <=> Halfway("pop")')
  BY DEF RingAlone, Halfway
<1> QED
  BY <1>1 DEF RingAlone, Length

LEMMA RingAloneStep ==
  ASSUME RingConsistent, RingAlone
  PROVE  RingConsistent'
  BY LengthKept, RingUnmoved DEF RingAlone

LEMMA CallAlone ==
  ASSUME IInv, NEW t \in Threads, NEW f, NEW d, Call(t, f, d)
  PROVE  RingAlone
<1>1. UNCHANGED <<job, head, tail, count>>
  BY DEF Call, queueVars
<1>2. pc[t] = "idle" /\ pc'[t] # "count"
  BY DEF Call, LockEntry, IInv, TypeOK
<1>3. \A u \in Threads \ {t} : pc'[u] = pc[u] /\ op'[u] = op[u]
  BY DEF Call, IInv, TypeOK
<1> QED
  BY <1>1, <1>2, <1>3 DEF RingAlone

LEMMA OtherSteps ==
  ASSUME IInv, NEW t \in Threads,
         Step(t), ~PushStore(t), ~PopLoad(t), ~PushCount(t), ~PopCount(t)
  PROVE  RingAlone
<1> USE DEF IInv, TypeOK, RingAlone, queueVars, threadVars
<1>1. CASE Acquire(t)
  BY <1>1 DEF Acquire
<1>2. CASE SpuriousWakeup(t)
  BY <1>2 DEF SpuriousWakeup
<1>3. CASE Wait(t)
  BY <1>3 DEF Wait
<1>4. CASE Unlock(t)
  BY <1>4 DEF Unlock
<1>5. CASE PushRefused(t) \/ PopRefused(t)
  BY <1>5 DEF PushRefused, PopRefused
<1>6. CASE DestroyMark(t)
  BY <1>6 DEF DestroyMark
<1>7. CASE DestroyFree(t) \/ DestroyMutex(t) \/ DestroyConds(t)
  BY <1>7 DEF DestroyFree, DestroyMutex, DestroyConds
<1> QED
  BY <1>1, <1>2, <1>3, <1>4, <1>5, <1>6, <1>7 DEF Step, Run

LEMMA RingStep ==
  IInv /\ PushCarriesJob /\ RingConsistent /\ [Next]_vars => RingConsistent'
<1> SUFFICES ASSUME IInv, PushCarriesJob, RingConsistent, [Next]_vars
             PROVE  RingConsistent'
  OBVIOUS
<1>1. ASSUME NEW t \in Threads, NEW f, NEW d, Call(t, f, d) PROVE RingConsistent'
  BY <1>1, CallAlone, RingAloneStep
<1>2. ASSUME NEW t \in Threads, Step(t) PROVE RingConsistent'
  BY <1>2, RingStored, RingLoaded, RingCounted, OtherSteps, RingAloneStep
<1>3. CASE UNCHANGED vars
  <2>1. RingAlone
    BY <1>3 DEF vars, queueVars, threadVars, RingAlone
  <2> QED
    BY <2>1, RingAloneStep
<1>4. CASE Next
  BY <1>1, <1>2, <1>4 DEF Next, CallPush, CallPop, CallDestroy, Threads
<1> QED
  BY <1>3, <1>4

LEMMA RingInit == Init => PushCarriesJob /\ RingConsistent
<1> SUFFICES ASSUME Init PROVE PushCarriesJob /\ RingConsistent
  OBVIOUS
<1>1. Length = 0
  BY DEF Init, Length, Halfway
<1>2. (0 + 0) % Capacity = 0
  BY CapacityAssumption, TailSlot DEF Slots
<1> QED
  BY <1>1, <1>2, CapacityAssumption DEF Init, PushCarriesJob, RingConsistent

\* head, tail and count agree in every reachable state, the ring never overflows
\* and a pop never returns a slot that nobody wrote.
THEOREM RingConsistentHolds == Spec => []RingConsistent
<1> DEFINE Inv == IInv /\ PushCarriesJob /\ RingConsistent
<1>1. Init => Inv
  BY InitIInv, RingInit
<1>2. Inv /\ [Next]_vars => Inv'
  BY IInvStep, PushCarriesJobStep, RingStep
<1> QED
  BY <1>1, <1>2, PTL DEF Spec

-----------------------------------------------------------------------------
(* One destruction.                                                        *)

\* There is one destroyer at a time and it marks a queue that is not marked yet.
OneDestruction ==
  /\ \A t, u \in Threads : Destroying(t) /\ Destroying(u) => t = u
  /\ \A t \in Threads :
       op[t] = "destroy" /\ pc[t] \in {"lock", "check", "wait", "relock"}
         => ~is_destroyed

LEMMA OneDestructionStep ==
  IInv /\ OneDestruction /\ [Next]_vars => OneDestruction'
<1> SUFFICES ASSUME IInv, OneDestruction, [Next]_vars PROVE OneDestruction'
  OBVIOUS
<1> USE DEF IInv, TypeOK, OneDestruction, Destroying, queueVars, threadVars
<1>1. ASSUME NEW t \in Threads, NEW f, NEW d, Call(t, f, d), f # "destroy"
      PROVE  OneDestruction'
  BY <1>1 DEF Call
<1>2. ASSUME NEW t \in Threads, CallDestroy(t) PROVE OneDestruction'
  BY <1>2 DEF CallDestroy, Call
<1>3. ASSUME NEW t \in Threads, Step(t) PROVE OneDestruction'
  <2>1. CASE DestroyMark(t)
    BY <2>1 DEF DestroyMark
  <2>2. CASE PushCount(t)
    BY <2>2 DEF PushCount, Signal, Sleepers
  <2>3. CASE PopCount(t)
    BY <2>3 DEF PopCount, Signal, Sleepers
  <2>4. CASE Acquire(t) \/ SpuriousWakeup(t) \/ Wait(t) \/ Unlock(t)
    BY <2>4 DEF Acquire, SpuriousWakeup, Wait, Unlock
  <2>5. CASE PushRefused(t) \/ PushStore(t) \/ PopRefused(t) \/ PopLoad(t)
    BY <2>5 DEF PushRefused, PushStore, MayStore, PopRefused, PopLoad, MayLoad
  <2>6. CASE DestroyFree(t) \/ DestroyMutex(t) \/ DestroyConds(t)
    BY <2>6 DEF DestroyFree, DestroyMutex, DestroyConds
  <2> QED
    BY <1>3, <2>1, <2>2, <2>3, <2>4, <2>5, <2>6 DEF Step, Run
<1>4. CASE UNCHANGED vars
  BY <1>4 DEF vars
<1>5. CASE Next
  BY <1>1, <1>2, <1>3, <1>5 DEF Next, CallPush, CallPop, Threads
<1> QED
  BY <1>4, <1>5

-----------------------------------------------------------------------------
(* No wakeup is lost.  The first two theorems count the threads that are   *)
(* awake against the jobs (the free slots) they were woken for, so they    *)
(* rest on the facts about finite sets.                                    *)

LEMMA AwakeFinite ==
  ASSUME NEW f
  PROVE  /\ IsFiniteSet(Awake(f)) /\ Cardinality(Awake(f)) \in Nat
         /\ IsFiniteSet(Awake(f)') /\ Cardinality(Awake(f)') \in Nat
<1>1. Awake(f) \in SUBSET Threads /\ Awake(f)' \in SUBSET Threads
  BY DEF Awake
<1> QED
  BY <1>1, ThreadAssumption, FS_Subset, FS_CardinalityType

-----------------------------------------------------------------------------
(* Poppers.                                                                *)

\* A step after which nobody sleeps who did not, no fewer poppers are awake and
\* there are no more jobs.
LEMMA JobSignalKept ==
  ASSUME IInv, IInv', NoLostJobSignal,
         Sleepers("not_empty")' # {} => Sleepers("not_empty") # {},
         Awake("pop") \subseteq Awake("pop")', count' <= count
  PROVE  NoLostJobSignal'
<1>1. Cardinality(Awake("pop")) <= Cardinality(Awake("pop")')
  BY AwakeFinite, FS_Subset
<1>2. count \in Nat /\ count' \in Nat
  BY CapacityAssumption DEF IInv, TypeOK
<1> QED
  BY <1>1, <1>2, AwakeFinite DEF NoLostJobSignal

\* A popper goes to sleep, or gives up, on an empty queue only.
LEMMA JobSignalEmpty ==
  ASSUME count' = 0
  PROVE  NoLostJobSignal'
  BY AwakeFinite DEF NoLostJobSignal

\* A push adds a job and wakes a sleeping popper, if there is one.
LEMMA JobSignalPushed ==
  ASSUME IInv, NoLostJobSignal, NEW t \in Threads, PushCount(t)
  PROVE  NoLostJobSignal'
<1> USE DEF IInv, TypeOK
<1>1. CASE Sleepers("not_empty") = {}
  <2>1. Sleepers("not_empty")' = {}
    BY <1>1 DEF PushCount, Signal, Sleepers, threadVars
  <2> QED
    BY <2>1 DEF NoLostJobSignal
<1>2. ASSUME NEW u \in Sleepers("not_empty"),
             pc' = [pc EXCEPT ![t] = "unlock", ![u] = "relock"]
      PROVE  NoLostJobSignal'
  <2>1. u \in Threads /\ op[u] = "pop" /\ pc[u] = "wait" /\ op[t] = "push" /\ u # t
    BY <1>2 DEF Sleepers, PushCount
  <2>2. Awake("pop")' = Awake("pop") \cup {u} /\ u \notin Awake("pop")
    BY <1>2, <2>1 DEF Awake, PushCount, threadVars
  <2>3. Cardinality(Awake("pop")') = Cardinality(Awake("pop")) + 1
    BY <2>2, AwakeFinite, FS_AddElement
  <2>4. count' = count + 1 /\ count \in Nat
    BY CapacityAssumption DEF PushCount
  <2>5. Cardinality(Awake("pop")) >= count
    BY <1>2 DEF NoLostJobSignal
  <2> QED
    BY <2>3, <2>4, <2>5, AwakeFinite DEF NoLostJobSignal
<1> QED
  BY <1>1, <1>2 DEF PushCount, Signal

\* A pop takes a job and one popper off.
LEMMA JobSignalPopped ==
  ASSUME IInv, NoLostJobSignal, NEW t \in Threads, PopCount(t)
  PROVE  NoLostJobSignal'
<1> USE DEF IInv, TypeOK
<1>1. pc[t] = "count" /\ op[t] = "pop" /\ count' = count - 1 /\ UNCHANGED op
  BY DEF PopCount, threadVars
<1>2. /\ pc'[t] = "unlock"
      /\ \A u \in Threads : op[u] = "pop" /\ u # t => pc'[u] = pc[u]
  BY <1>1 DEF PopCount, Signal, Sleepers
<1>3. Sleepers("not_empty")' = Sleepers("not_empty")
  BY <1>1, <1>2 DEF Sleepers
<1>4. Awake("pop")' = Awake("pop") \ {t} /\ t \in Awake("pop")
  BY <1>1, <1>2 DEF Awake
<1>5. Cardinality(Awake("pop")') = Cardinality(Awake("pop")) - 1
  BY <1>4, AwakeFinite, FS_RemoveElement
<1>6. count \in Nat
  BY CapacityAssumption
<1> QED
  BY <1>1, <1>3, <1>5, <1>6, AwakeFinite DEF NoLostJobSignal

LEMMA JobSignalStep ==
  IInv /\ NoLostJobSignal /\ [Next]_vars => NoLostJobSignal'
<1> SUFFICES ASSUME IInv, NoLostJobSignal, [Next]_vars PROVE NoLostJobSignal'
  OBVIOUS
<1>0. IInv'
  BY IInvStep
<1> USE DEF IInv, TypeOK, queueVars, threadVars
<1>1. ASSUME /\ Sleepers("not_empty")' # {} => Sleepers("not_empty") # {}
             /\ Awake("pop") \subseteq Awake("pop")' /\ count' = count
      PROVE  NoLostJobSignal'
  BY <1>0, <1>1, JobSignalKept
<1>2. ASSUME NEW t \in Threads, NEW f, NEW d, Call(t, f, d) PROVE NoLostJobSignal'
  <2>1. pc[t] = "idle" /\ pc'[t] \in {"lock", "check"} /\ count' = count
    BY <1>2 DEF Call, LockEntry
  <2>2. \A u \in Threads \ {t} : pc'[u] = pc[u] /\ op'[u] = op[u]
    BY <1>2 DEF Call
  <2>3. /\ Sleepers("not_empty")' # {} => Sleepers("not_empty") # {}
        /\ Awake("pop") \subseteq Awake("pop")'
    BY <2>1, <2>2 DEF Sleepers, Awake
  <2> QED
    BY <1>1, <2>1, <2>3
<1>3. ASSUME NEW t \in Threads, Step(t) PROVE NoLostJobSignal'
  <2>1. CASE Acquire(t)
    BY <1>1, <2>1 DEF Acquire, Sleepers, Awake
  <2>2. CASE SpuriousWakeup(t)
    BY <1>1, <2>2 DEF SpuriousWakeup, Sleepers, Awake
  <2>3. CASE Wait(t)
    <3>1. CASE op[t] = "pop"
      BY <2>3, <3>1, JobSignalEmpty DEF Wait, Blocks, PushWaits, PopWaits, DestroyWaits
    <3>2. CASE op[t] # "pop"
      BY <1>1, <2>3, <3>2 DEF Wait, Sleepers, Awake
    <3> QED
      BY <3>1, <3>2
  <2>4. CASE Unlock(t)
    BY <1>1, <2>4 DEF Unlock, Sleepers, Awake
  <2>5. CASE PushRefused(t)
    BY <1>1, <2>5 DEF PushRefused, Sleepers, Awake
  <2>6. CASE PushStore(t)
    BY <1>1, <2>6 DEF PushStore, MayStore, Sleepers, Awake
  <2>7. CASE PushCount(t)
    BY <2>7, JobSignalPushed
  <2>8. CASE PopRefused(t)
    BY <2>8, JobSignalEmpty DEF PopRefused
  <2>9. CASE PopLoad(t)
    BY <1>1, <2>9 DEF PopLoad, MayLoad, Sleepers, Awake
  <2>10. CASE PopCount(t)
    BY <2>10, JobSignalPopped
  <2>11. CASE DestroyMark(t)
    BY <2>11, <1>1 DEF DestroyMark, Sleepers, Awake
  <2>12. CASE DestroyFree(t) \/ DestroyMutex(t) \/ DestroyConds(t)
    BY <1>1, <2>12 DEF DestroyFree, DestroyMutex, DestroyConds, Sleepers, Awake
  <2> QED
    BY <1>3, <2>1, <2>2, <2>3, <2>4, <2>5, <2>6, <2>7, <2>8, <2>9, <2>10, <2>11,
       <2>12 DEF Step, Run
<1>4. CASE UNCHANGED vars
  BY <1>1, <1>4 DEF vars, Sleepers, Awake
<1>5. CASE Next
  BY <1>2, <1>3, <1>5 DEF Next, CallPush, CallPop, CallDestroy, Threads
<1> QED
  BY <1>4, <1>5

\* While a popper sleeps, at least as many poppers are awake as there are jobs:
\* the one signal of each push is enough (job_queue.c:42, 51-53).
THEOREM NoLostJobSignalHolds == Spec => []NoLostJobSignal
<1>1. Init => NoLostJobSignal
  BY DEF Init, NoLostJobSignal, Sleepers
<1> QED
  BY <1>1, InitIInv, IInvStep, JobSignalStep, PTL DEF Spec

-----------------------------------------------------------------------------
(* Pushers.                                                                *)

\* A step after which no pusher sleeps unless one slept before, no fewer pushers
\* are awake, there is no more room, and no destroyer has come or gone.
LEMMA RoomSignalKept ==
  ASSUME IInv, IInv', NoLostRoomSignal,
         SleepingPushers' # {} /\ ~DestroyerWaiting'
           => SleepingPushers # {} /\ ~DestroyerWaiting,
         Awake("push") \subseteq Awake("push")', count' >= count
  PROVE  NoLostRoomSignal'
<1>1. Cardinality(Awake("push")) <= Cardinality(Awake("push")')
  BY AwakeFinite, FS_Subset
<1>2. count \in Nat /\ count' \in Nat /\ Capacity \in Nat
  BY CapacityAssumption DEF IInv, TypeOK
<1> QED
  BY <1>1, <1>2, AwakeFinite DEF NoLostRoomSignal

\* A pusher goes to sleep on a full queue only.
LEMMA RoomSignalFull ==
  ASSUME count' = Capacity
  PROVE  NoLostRoomSignal'
  BY AwakeFinite, CapacityAssumption DEF NoLostRoomSignal

LEMMA RoomSignalNobody ==
  ASSUME SleepingPushers' = {}
  PROVE  NoLostRoomSignal'
  BY DEF NoLostRoomSignal

\* A pop frees a slot and, no destroyer sharing not_full, wakes a pusher.
LEMMA RoomSignalPopped ==
  ASSUME IInv, NoLostRoomSignal, NEW t \in Threads, PopCount(t)
  PROVE  NoLostRoomSignal'
<1> USE DEF IInv, TypeOK
<1>1. /\ pc[t] = "count" /\ op[t] = "pop" /\ count' = count - 1
      /\ UNCHANGED <<op, is_destroyed>> /\ ~is_destroyed
  BY DEF PopCount, threadVars, DestroyedQuiet
<1>2. CASE Sleepers("not_full") = {}
  <2>1. SleepingPushers' = {}
    BY <1>1, <1>2 DEF PopCount, Signal, Sleepers, SleepingPushers, threadVars
  <2> QED
    BY <2>1, RoomSignalNobody
<1>3. ASSUME NEW u \in Sleepers("not_full"),
             pc' = [pc EXCEPT ![t] = "unlock", ![u] = "relock"]
      PROVE  NoLostRoomSignal'
  <2>1. u \in Threads /\ op[u] # "pop" /\ pc[u] = "wait" /\ u # t
    BY <1>1, <1>3 DEF Sleepers
  <2>2. CASE op[u] = "push"
    <3>1. SleepingPushers # {}
      BY <1>3, <2>2 DEF SleepingPushers
    <3>2. DestroyerWaiting' <=> DestroyerWaiting
      BY <1>1, <1>3, <2>1 DEF DestroyerWaiting, Destroying
    <3>3. Awake("push")' = Awake("push") \cup {u} /\ u \notin Awake("push")
      BY <1>1, <1>3, <2>1, <2>2 DEF Awake
    <3>4. Cardinality(Awake("push")') = Cardinality(Awake("push")) + 1
      BY <3>3, AwakeFinite, FS_AddElement
    <3>5. count \in Nat /\ Capacity \in Nat
      BY CapacityAssumption
    <3> QED
      BY <1>1, <3>1, <3>2, <3>4, <3>5, AwakeFinite DEF NoLostRoomSignal
  <2>3. CASE op[u] # "push"
    <3>1. op[u] = "destroy" \/ op[u] = "none"
      BY <2>1, <2>3
    <3>2. op[u] # "none"
      BY <2>1 DEF StagesFit
    <3>3. DestroyerWaiting'
      BY <1>1, <1>3, <2>1, <3>1, <3>2 DEF DestroyerWaiting, Destroying
    <3> QED
      BY <3>3 DEF NoLostRoomSignal
  <2> QED
    BY <2>2, <2>3
<1> QED
  BY <1>2, <1>3 DEF PopCount, Signal

\* A push takes a slot and one pusher off.
LEMMA RoomSignalPushed ==
  ASSUME IInv, NoLostRoomSignal, NEW t \in Threads, PushCount(t)
  PROVE  NoLostRoomSignal'
<1> USE DEF IInv, TypeOK
<1>1. /\ pc[t] = "count" /\ op[t] = "push" /\ count' = count + 1
      /\ UNCHANGED <<op, is_destroyed>>
  BY DEF PushCount, threadVars
<1>2. /\ pc'[t] = "unlock"
      /\ \A u \in Threads : op[u] # "pop" /\ u # t => pc'[u] = pc[u]
  BY <1>1 DEF PushCount, Signal, Sleepers
<1>3. SleepingPushers' = SleepingPushers
  BY <1>1, <1>2 DEF SleepingPushers, Sleepers
<1>4. DestroyerWaiting' <=> DestroyerWaiting
  BY <1>1, <1>2 DEF DestroyerWaiting, Destroying
<1>5. Awake("push")' = Awake("push") \ {t} /\ t \in Awake("push")
  BY <1>1, <1>2 DEF Awake
<1>6. Cardinality(Awake("push")') = Cardinality(Awake("push")) - 1
  BY <1>5, AwakeFinite, FS_RemoveElement
<1>7. count \in Nat /\ Capacity \in Nat
  BY CapacityAssumption
<1> QED
  BY <1>1, <1>3, <1>4, <1>6, <1>7, AwakeFinite DEF NoLostRoomSignal

LEMMA RoomSignalStep ==
  IInv /\ NoLostRoomSignal /\ [Next]_vars => NoLostRoomSignal'
<1> SUFFICES ASSUME IInv, NoLostRoomSignal, [Next]_vars PROVE NoLostRoomSignal'
  OBVIOUS
<1>0. IInv'
  BY IInvStep
<1> USE DEF IInv, TypeOK, queueVars, threadVars
<1>1. ASSUME /\ SleepingPushers' # {} => SleepingPushers # {}
             /\ DestroyerWaiting => DestroyerWaiting'
             /\ Awake("push") \subseteq Awake("push")' /\ count' = count
      PROVE  NoLostRoomSignal'
  BY <1>0, <1>1, RoomSignalKept
<1>2. ASSUME NEW t \in Threads, NEW f, NEW d, Call(t, f, d) PROVE NoLostRoomSignal'
  <2>1. /\ pc[t] = "idle" /\ pc'[t] \in {"lock", "check"}
        /\ count' = count /\ is_destroyed' = is_destroyed
    BY <1>2 DEF Call, LockEntry
  <2>2. \A u \in Threads \ {t} : pc'[u] = pc[u] /\ op'[u] = op[u]
    BY <1>2 DEF Call
  <2>3. /\ SleepingPushers' # {} => SleepingPushers # {}
        /\ Awake("push") \subseteq Awake("push")'
    BY <2>1, <2>2 DEF SleepingPushers, Sleepers, Awake
  <2>4. DestroyerWaiting => DestroyerWaiting'
    BY <2>1, <2>2 DEF DestroyerWaiting, Destroying
  <2> QED
    BY <1>1, <2>1, <2>3, <2>4
<1>3. ASSUME NEW t \in Threads, Step(t) PROVE NoLostRoomSignal'
  <2> USE DEF SleepingPushers, Sleepers, Awake, DestroyerWaiting, Destroying
  <2>1. CASE Acquire(t)
    BY <1>1, <2>1 DEF Acquire
  <2>2. CASE SpuriousWakeup(t)
    BY <1>1, <2>2 DEF SpuriousWakeup
  <2>3. CASE Wait(t)
    <3>1. CASE op[t] = "push"
      BY <2>3, <3>1, RoomSignalFull DEF Wait, Blocks, PushWaits, PopWaits, DestroyWaits
    <3>2. CASE op[t] # "push"
      BY <1>1, <2>3, <3>2 DEF Wait
    <3> QED
      BY <3>1, <3>2
  <2>4. CASE Unlock(t)
    BY <1>1, <2>4 DEF Unlock
  <2>5. CASE PushRefused(t)
    BY <2>5, RoomSignalNobody DEF PushRefused, DestroyedQuiet
  <2>6. CASE PushStore(t)
    BY <1>1, <2>6 DEF PushStore, MayStore
  <2>7. CASE PushCount(t)
    BY <2>7, RoomSignalPushed
  <2>8. CASE PopRefused(t)
    BY <2>8, RoomSignalNobody DEF PopRefused, DestroyedQuiet
  <2>9. CASE PopLoad(t)
    BY <1>1, <2>9 DEF PopLoad, MayLoad
  <2>10. CASE PopCount(t)
    BY <2>10, RoomSignalPopped
  <2>11. CASE DestroyMark(t)
    BY <2>11, RoomSignalNobody DEF DestroyMark
  <2>12. CASE DestroyFree(t) \/ DestroyMutex(t) \/ DestroyConds(t)
    BY <2>12, RoomSignalNobody
    DEF DestroyFree, DestroyMutex, DestroyConds, StagesFit, DestroyedQuiet
  <2> QED
    BY <1>3, <2>1, <2>2, <2>3, <2>4, <2>5, <2>6, <2>7, <2>8, <2>9, <2>10, <2>11,
       <2>12 DEF Step, Run
<1>4. CASE UNCHANGED vars
  BY <1>1, <1>4
  DEF vars, SleepingPushers, Sleepers, Awake, DestroyerWaiting, Destroying
<1>5. CASE Next
  BY <1>2, <1>3, <1>5 DEF Next, CallPush, CallPop, CallDestroy, Threads
<1> QED
  BY <1>4, <1>5

\* While a pusher sleeps and no destroyer waits, at least as many pushers are
\* awake as there are free slots (job_queue.c:27-29, 65).
THEOREM NoLostRoomSignalHolds == Spec => []NoLostRoomSignal
<1>1. Init => NoLostRoomSignal
  BY DEF Init, NoLostRoomSignal, SleepingPushers, Sleepers
<1> QED
  BY <1>1, InitIInv, IInvStep, RoomSignalStep, PTL DEF Spec

-----------------------------------------------------------------------------
(* The destroyer.                                                          *)

DestroyerSleeps == \E t \in Sleepers("not_full") : op[t] = "destroy"

\* A step after which the destroyer sleeps only if it slept before, no pusher
\* that was awake has gone, and a queue with jobs has jobs.
LEMMA DestroyerKept ==
  ASSUME DestroyerNotForgotten, DestroyerSleeps' => DestroyerSleeps,
         Awake("push") \subseteq Awake("push")', count > 0 => count' > 0
  PROVE  DestroyerNotForgotten'
  BY DEF DestroyerNotForgotten, DestroyerSleeps

\* A step that leaves jobs in the queue, or a pusher awake, or no destroyer asleep.
LEMMA DestroyerServed ==
  ASSUME count' > 0 \/ Awake("push")' # {} \/ ~DestroyerSleeps'
  PROVE  DestroyerNotForgotten'
  BY DEF DestroyerNotForgotten, DestroyerSleeps

\* The signal of a pop wakes the destroyer, the only one there is, or a pusher.
LEMMA DestroyerPopped ==
  ASSUME IInv, OneDestruction, NEW t \in Threads, PopCount(t)
  PROVE  DestroyerNotForgotten'
<1> USE DEF IInv, TypeOK
<1>1. pc[t] = "count" /\ op[t] = "pop" /\ UNCHANGED op
  BY DEF PopCount, threadVars
<1>2. CASE Sleepers("not_full") = {}
  <2>1. ~DestroyerSleeps'
    BY <1>1, <1>2 DEF PopCount, Signal, Sleepers, DestroyerSleeps
  <2> QED
    BY <2>1, DestroyerServed
<1>3. ASSUME NEW u \in Sleepers("not_full"),
             pc' = [pc EXCEPT ![t] = "unlock", ![u] = "relock"]
      PROVE  DestroyerNotForgotten'
  <2>1. u \in Threads /\ op[u] # "pop" /\ pc[u] = "wait" /\ u # t
    BY <1>1, <1>3 DEF Sleepers
  <2>2. op[u] \in {"push", "destroy"}
    BY <2>1 DEF StagesFit
  <2>3. CASE op[u] = "push"
    <3>1. u \in Awake("push")'
      BY <1>1, <1>3, <2>1, <2>3 DEF Awake
    <3> QED
      BY <3>1, DestroyerServed
  <2>4. CASE op[u] = "destroy"
    <3>1. \A v \in Threads : op[v] = "destroy" /\ pc[v] = "wait" => v = u
      BY <2>1, <2>4 DEF OneDestruction, Destroying
    <3>2. ~DestroyerSleeps'
      BY <1>1, <1>3, <2>1, <3>1 DEF Sleepers, DestroyerSleeps
    <3> QED
      BY <3>2, DestroyerServed
  <2> QED
    BY <2>2, <2>3, <2>4
<1> QED
  BY <1>2, <1>3 DEF PopCount, Signal

LEMMA DestroyerStep ==
  IInv /\ OneDestruction /\ DestroyerNotForgotten /\ [Next]_vars => DestroyerNotForgotten'
<1> SUFFICES ASSUME IInv, OneDestruction, DestroyerNotForgotten, [Next]_vars
             PROVE  DestroyerNotForgotten'
  OBVIOUS
<1> USE DEF IInv, TypeOK, queueVars, threadVars
<1>1. ASSUME /\ DestroyerSleeps' => DestroyerSleeps
             /\ Awake("push") \subseteq Awake("push")' /\ count' = count
      PROVE  DestroyerNotForgotten'
  BY <1>1, DestroyerKept
<1>2. ASSUME NEW t \in Threads, NEW f, NEW d, Call(t, f, d) PROVE DestroyerNotForgotten'
  <2>1. pc[t] = "idle" /\ pc'[t] \in {"lock", "check"} /\ count' = count
    BY <1>2 DEF Call, LockEntry
  <2>2. \A u \in Threads \ {t} : pc'[u] = pc[u] /\ op'[u] = op[u]
    BY <1>2 DEF Call
  <2>3. /\ DestroyerSleeps' => DestroyerSleeps
        /\ Awake("push") \subseteq Awake("push")'
    BY <2>1, <2>2 DEF DestroyerSleeps, Sleepers, Awake
  <2> QED
    BY <1>1, <2>1, <2>3
<1>3. ASSUME NEW t \in Threads, Step(t) PROVE DestroyerNotForgotten'
  <2> USE DEF DestroyerSleeps, Sleepers, Awake
  <2>1. CASE Acquire(t)
    BY <1>1, <2>1 DEF Acquire
  <2>2. CASE SpuriousWakeup(t)
    BY <1>1, <2>2 DEF SpuriousWakeup
  <2>3. CASE Wait(t)
    <3>1. CASE op[t] \in {"push", "destroy"}
      <4>1. count' > 0
        BY <2>3, <3>1, CapacityAssumption DEF Wait, Blocks, PushWaits, PopWaits, DestroyWaits
      <4> QED
        BY <4>1, DestroyerServed
    <3>2. CASE op[t] \notin {"push", "destroy"}
      BY <1>1, <2>3, <3>2 DEF Wait
    <3> QED
      BY <3>1, <3>2
  <2>4. CASE Unlock(t)
    BY <1>1, <2>4 DEF Unlock
  <2>5. CASE PushRefused(t)
    BY <2>5, DestroyerServed DEF PushRefused, DestroyedQuiet
  <2>6. CASE PushStore(t)
    BY <1>1, <2>6 DEF PushStore, MayStore
  <2>7. CASE PushCount(t)
    <3>1. count' > 0
      BY <2>7, CapacityAssumption DEF PushCount
    <3> QED
      BY <3>1, DestroyerServed
  <2>8. CASE PopRefused(t)
    BY <2>8, DestroyerServed DEF PopRefused, DestroyedQuiet
  <2>9. CASE PopLoad(t)
    BY <1>1, <2>9 DEF PopLoad, MayLoad
  <2>10. CASE PopCount(t)
    BY <2>10, DestroyerPopped
  <2>11. CASE DestroyMark(t)
    BY <2>11, DestroyerServed DEF DestroyMark
  <2>12. CASE DestroyFree(t) \/ DestroyMutex(t) \/ DestroyConds(t)
    BY <1>1, <2>12 DEF DestroyFree, DestroyMutex, DestroyConds
  <2> QED
    BY <1>3, <2>1, <2>2, <2>3, <2>4, <2>5, <2>6, <2>7, <2>8, <2>9, <2>10, <2>11,
       <2>12 DEF Step, Run
<1>4. CASE UNCHANGED vars
  BY <1>1, <1>4 DEF vars, DestroyerSleeps, Sleepers, Awake
<1>5. CASE Next
  BY <1>2, <1>3, <1>5 DEF Next, CallPush, CallPop, CallDestroy, Threads
<1> QED
  BY <1>4, <1>5

\* The destroyer sleeps on a queue with jobs in it, or a pusher is on its way to
\* put one there: a signal on not_full that the destroyer misses is not lost to it
\* (job_queue.c:65, 74-76).
THEOREM DestroyerNotForgottenHolds == Spec => []DestroyerNotForgotten
<1>1. Init => OneDestruction /\ DestroyerNotForgotten
  BY DEF Init, OneDestruction, Destroying, DestroyerNotForgotten, Sleepers
<1> QED
  BY <1>1, InitIInv, IInvStep, OneDestructionStep, DestroyerStep, PTL DEF Spec

-----------------------------------------------------------------------------
(***************************************************************************)
(* job_queue.c implements the queue of job_queue.h: the theorem behind     *)
(* reading every client of the queue over BoundedQueue.  The ring maps to  *)
(* the sequence of its jobs, a call takes effect where it stores, loads,   *)
(* refuses or marks the queue destroyed, every other step is a stutter.    *)
(***************************************************************************)

(* What the refinement mapping makes of the ring and the labels.           *)

LEMMA ContentsSeq ==
  ASSUME IInv, RingConsistent
  PROVE  /\ Contents \in Seq(Jobs)
         /\ DOMAIN Contents = 1 .. Length /\ Len(Contents) = Length
         /\ Length = 0 => Contents = <<>>
         /\ Length > 0 => Contents # <<>>
<1>1. Length \in Nat
  BY CapacityAssumption DEF RingConsistent
<1>2. ASSUME NEW i \in 1 .. Length PROVE Contents[i] \in Jobs
  <2>1. (head + i - 1) % Capacity \in Slots
    BY <1>1, CapacityAssumption DEF IInv, TypeOK, Slots
  <2>2. job[(head + i - 1) % Capacity] \in Jobs \cup {NoJob}
    BY <2>1 DEF IInv, TypeOK
  <2> QED
    BY <2>2 DEF Contents, RingConsistent
<1>3. Contents \in [1 .. Length -> Jobs]
  BY <1>2 DEF Contents
<1> QED
  BY <1>1, <1>3

\* With the same ring, a quiet step leaves the abstract queue alone.
LEMMA ContentsKept ==
  ASSUME UNCHANGED <<job, head>>, Length' = Length
  PROVE  Contents' = Contents
  BY DEF Contents

LEMMA PhaseMoves ==
  ASSUME NEW t \in Threads, NEW p,
         \A u \in Threads \ {t} : Phase'[u] = Phase[u],
         Phase'[t] = p
  PROVE  Phase' = [Phase EXCEPT ![t] = p]
  BY DEF Phase

LEMMA PhaseStays ==
  ASSUME \A u \in Threads : Phase'[u] = Phase[u]
  PROVE  Phase' = Phase
  BY DEF Phase

-----------------------------------------------------------------------------
(* The steps that take effect.                                             *)

LEMMA CallImplements ==
  ASSUME IInv, NEW t \in Threads, NEW f, NEW d, Call(t, f, d), RingAlone
  PROVE  Abs!Invoke(t, f, d)
<1> USE DEF IInv, TypeOK, queueVars
<1>1. Contents' = Contents
  BY LengthKept, ContentsKept DEF RingAlone
<1>2. Phase[t] = "idle" /\ Phase'[t] = "pending"
  BY DEF Call, LockEntry, Phase
<1>3. \A u \in Threads \ {t} : Phase'[u] = Phase[u]
  BY DEF Call, Phase
<1>4. Phase' = [Phase EXCEPT ![t] = "pending"]
  BY <1>2, <1>3, PhaseMoves
<1> QED
  BY <1>1, <1>2, <1>4 DEF Abs!Invoke, Call

\* A step of one thread from a waiting label to a done one takes effect.
LEMMA EffectOf ==
  ASSUME IInv, NEW t \in Threads, NEW r,
         Phase[t] = "pending", Phase'[t] = "done",
         \A u \in Threads \ {t} : Phase'[u] = Phase[u],
         UNCHANGED op, ret' = [ret EXCEPT ![t] = r]
  PROVE  Abs!Effect(t, op[t], r)
  BY PhaseMoves DEF Abs!Effect

LEMMA PushRefusedImplements ==
  ASSUME IInv, NEW t \in Threads, PushRefused(t), RingAlone
  PROVE  Abs!RefusePush(t)
<1> USE DEF IInv, TypeOK, queueVars
<1>1. Contents' = Contents
  BY LengthKept, ContentsKept DEF RingAlone
<1>2. Abs!Effect(t, op[t], -1)
  BY EffectOf DEF PushRefused, Phase
<1> QED
  BY <1>1, <1>2 DEF Abs!RefusePush, PushRefused

LEMMA PopRefusedImplements ==
  ASSUME IInv, RingConsistent, NEW t \in Threads, PopRefused(t), RingAlone
  PROVE  Abs!RefusePop(t)
<1> USE DEF IInv, TypeOK, queueVars
<1>1. Contents' = Contents
  BY LengthKept, ContentsKept DEF RingAlone
<1>2. Abs!Effect(t, op[t], -1)
  BY EffectOf DEF PopRefused, Phase
<1>3. \A u \in Threads : pc[u] # "count"
  BY DEF PopRefused, DestroyedQuiet
<1>4. Contents = <<>>
  BY <1>3, LengthKnown, ContentsSeq DEF LengthFits, PopRefused
<1> QED
  BY <1>1, <1>2, <1>4 DEF Abs!RefusePop, PopRefused

LEMMA DestroyMarkImplements ==
  ASSUME IInv, RingConsistent, OneDestruction,
         NEW t \in Threads, DestroyMark(t), RingAlone
  PROVE  Abs!Close(t)
<1> USE DEF IInv, TypeOK, queueVars
<1>1. Contents' = Contents
  BY LengthKept, ContentsKept DEF RingAlone
<1>2. Abs!Effect(t, op[t], 0)
  BY EffectOf DEF DestroyMark, Phase
<1>3. ~is_destroyed
  BY DEF DestroyMark, OneDestruction
<1>4. \A u \in Threads : pc[u] # "count"
  BY <1>3, IInvExclusion DEF MutualExclusion, Inside, DestroyMark, ReleasedLast, Resources
<1>5. count = 0
  BY CapacityAssumption DEF DestroyMark, Blocks, PushWaits, PopWaits, DestroyWaits
<1>6. Contents = <<>>
  BY <1>4, <1>5, LengthKnown, ContentsSeq DEF LengthFits
<1> QED
  BY <1>1, <1>2, <1>3, <1>6 DEF Abs!Close, DestroyMark

LEMMA ReturnImplements ==
  ASSUME IInv, NEW t \in Threads, RingAlone,
         \/ Unlock(t) /\ op[t] # "destroy"
         \/ DestroyConds(t)
  PROVE  Abs!Return(t)
<1> USE DEF IInv, TypeOK, queueVars, threadVars
<1>1. Contents' = Contents
  BY LengthKept, ContentsKept DEF RingAlone
<1>2. Phase[t] = "done" /\ Phase'[t] = "idle"
  BY DEF Unlock, DestroyConds, Phase
<1>3. \A u \in Threads \ {t} : Phase'[u] = Phase[u]
  BY DEF Unlock, DestroyConds, Phase
<1>4. Phase' = [Phase EXCEPT ![t] = "idle"]
  BY <1>2, <1>3, PhaseMoves
<1> QED
  BY <1>1, <1>2, <1>4 DEF Abs!Return, Unlock, DestroyConds

\* A store appends its job to the sequence, although count lags behind.
LEMMA PushStoreImplements ==
  ASSUME IInv, RingConsistent, RingConsistent', NEW t \in Threads, PushStore(t)
  PROVE  Abs!Push(t)
<1> USE DEF IInv, TypeOK
<1>1. /\ Length = count /\ count \in 0 .. Capacity /\ count < Capacity
      /\ head \in Slots /\ tail = (head + count) % Capacity
  BY LengthBeforeUpdate, CapacityAssumption
  DEF PushStore, MayStore, Blocks, PushWaits, PopWaits, DestroyWaits, RingConsistent
<1>2. Length' = count + 1
  <2>1. IInv'
    BY IInvStep DEF Next, Step, Run
  <2>2. pc'[t] = "count" /\ op'[t] = "push" /\ count' = count
    BY DEF PushStore, MayStore
  <2> QED
    BY <2>1, <2>2, LengthKnownNext DEF LengthFits
<1>3. Len(Contents) = count /\ DOMAIN Contents = 1 .. count
  BY <1>1, ContentsSeq
<1>4. ASSUME NEW i \in 1 .. count
      PROVE  job'[(head + i - 1) % Capacity] = job[(head + i - 1) % Capacity]
  <2>1. (head + i - 1) % Capacity
          = IF head + i - 1 < Capacity THEN head + i - 1 ELSE head + i - 1 - Capacity
    <3>1. i \in 1 .. Capacity
      BY <1>1, CapacityAssumption
    <3> QED
      BY <1>1, <3>1, JobSlot
  <2>2. tail = IF head + count < Capacity THEN head + count ELSE head + count - Capacity
    BY <1>1, TailSlot
  <2>3. (head + i - 1) % Capacity # tail
    BY <1>1, <2>1, <2>2, CapacityAssumption DEF Slots
  <2> QED
    BY <2>3 DEF PushStore
<1>5. job'[(head + (count + 1) - 1) % Capacity] = data[t]
  BY <1>1 DEF PushStore
<1>6. Contents' = Append(Contents, data[t])
  <2>1. Contents' = [i \in 1 .. count + 1 |-> job'[(head + i - 1) % Capacity]]
    BY <1>2 DEF Contents, PushStore
  <2>2. Append(Contents, data[t])
          = [i \in 1 .. count + 1 |-> IF i = count + 1 THEN data[t] ELSE Contents[i]]
    BY <1>1, <1>3
  <2>3. \A i \in 1 .. count + 1 :
          job'[(head + i - 1) % Capacity]
            = IF i = count + 1 THEN data[t] ELSE Contents[i]
    <3> SUFFICES ASSUME NEW i \in 1 .. count + 1
                 PROVE  job'[(head + i - 1) % Capacity]
                          = IF i = count + 1 THEN data[t] ELSE Contents[i]
      OBVIOUS
    <3>1. CASE i = count + 1
      BY <1>5, <3>1
    <3>2. CASE i # count + 1
      <4>1. i \in 1 .. count
        BY <1>1, <3>2
      <4>2. Contents[i] = job[(head + i - 1) % Capacity]
        BY <1>1, <4>1 DEF Contents
      <4> QED
        BY <1>4, <3>2, <4>1, <4>2
    <3> QED
      BY <3>1, <3>2
  <2> QED
    BY <2>1, <2>2, <2>3
<1>7. Abs!Effect(t, op[t], 0)
  BY EffectOf DEF PushStore, MayStore, Phase
<1> QED
  BY <1>1, <1>3, <1>6, <1>7 DEF Abs!Push, PushStore, MayStore

\* A load takes the head of the sequence.
LEMMA PopLoadImplements ==
  ASSUME IInv, RingConsistent, NEW t \in Threads, PopLoad(t)
  PROVE  Abs!Pop(t)
<1> USE DEF IInv, TypeOK
<1>1. /\ Length = count /\ count \in 0 .. Capacity /\ count > 0 /\ head \in Slots
      /\ head' = IF head + 1 < Capacity THEN head + 1 ELSE 0
  BY LengthBeforeUpdate, CapacityAssumption, SlotAfter
     DEF PopLoad, MayLoad, Blocks, PushWaits, PopWaits, DestroyWaits
<1>2. Length' = count - 1
  <2>1. IInv'
    BY IInvStep DEF Next, Step, Run
  <2>2. pc'[t] = "count" /\ op'[t] = "pop" /\ count' = count
    BY DEF PopLoad, MayLoad
  <2> QED
    BY <2>1, <2>2, LengthKnownNext DEF LengthFits
<1>3. Contents \in Seq(Jobs) /\ Len(Contents) = count /\ Contents # <<>>
  BY <1>1, ContentsSeq
<1>4. Head(Contents) = job[head]
  <2>1. Contents[1] = job[(head + 1 - 1) % Capacity]
    BY <1>1 DEF Contents
  <2>2. (head + 1 - 1) % Capacity = head
    BY <1>1, CapacityAssumption DEF Slots
  <2> QED
    BY <2>1, <2>2
<1>5. ASSUME NEW i \in 1 .. count - 1
      PROVE  (head' + i - 1) % Capacity = (head + (i + 1) - 1) % Capacity
  <2> DEFINE k == i + 1
  <2>1. k \in 1 .. Capacity /\ i \in 1 .. Capacity /\ head' \in Slots
    BY <1>1, CapacityAssumption DEF Slots
  <2> HIDE DEF k
  <2>2. (head + k - 1) % Capacity
          = IF head + k - 1 < Capacity THEN head + k - 1 ELSE head + k - 1 - Capacity
    BY <1>1, <2>1, JobSlot
  <2>3. (head' + i - 1) % Capacity
          = IF head' + i - 1 < Capacity THEN head' + i - 1
            ELSE head' + i - 1 - Capacity
    BY <2>1, JobSlot
  <2>4. (head' + i - 1) % Capacity = (head + k - 1) % Capacity
    BY <1>1, <2>2, <2>3, CapacityAssumption DEF Slots, k
  <2> QED
    BY <2>4 DEF k
<1>6. Contents' = Tail(Contents)
  <2>1. Contents' = [i \in 1 .. count - 1 |-> job[(head' + i - 1) % Capacity]]
    BY <1>2 DEF Contents, PopLoad
  <2>2. Tail(Contents) = [i \in 1 .. count - 1 |-> Contents[i + 1]]
    <3>1. /\ Tail(Contents) \in Seq(Jobs) /\ Len(Tail(Contents)) = count - 1
          /\ \A i \in 1 .. count - 1 : Tail(Contents)[i] = Contents[i + 1]
      BY <1>3, HeadTailProperties
    <3>2. Tail(Contents) \in [1 .. count - 1 -> Jobs]
      <4>1. \A s \in Seq(Jobs) : s \in [1 .. Len(s) -> Jobs]
        OBVIOUS
      <4> QED
        BY <3>1, <4>1
    <3>3. Tail(Contents) = [i \in 1 .. count - 1 |-> Tail(Contents)[i]]
      BY <3>1, <3>2
    <3> QED
      BY <3>1, <3>3
  <2>3. \A i \in 1 .. count - 1 : Contents[i + 1] = job[(head + (i + 1) - 1) % Capacity]
    BY <1>1 DEF Contents
  <2> QED
    BY <1>5, <2>1, <2>2, <2>3
<1>7. Abs!Effect(t, op[t], 0)
  BY EffectOf DEF PopLoad, MayLoad, Phase
<1> QED
  BY <1>3, <1>4, <1>6, <1>7 DEF Abs!Pop, PopLoad, MayLoad

-----------------------------------------------------------------------------
(* The steps that stutter.                                                 *)

LEMMA StutterImplements ==
  ASSUME Contents' = Contents, \A u \in Threads : Phase'[u] = Phase[u],
         UNCHANGED <<is_destroyed, op, data, ret>>
  PROVE  UNCHANGED Abs!vars
  BY PhaseStays DEF Abs!vars

\* count catches up with the ring.
LEMMA CountImplements ==
  ASSUME IInv, NEW t \in Threads, PushCount(t) \/ PopCount(t)
  PROVE  UNCHANGED Abs!vars
<1> USE DEF IInv, TypeOK, threadVars
<1>1. pc[t] = "count" /\ \A u \in Threads : pc[u] = "count" => u = t
  BY IInvExclusion DEF MutualExclusion, Inside, PushCount, PopCount
<1>2. \A u \in Threads : pc'[u] # "count" /\ Phase'[u] = Phase[u]
  <2>1. CASE PushCount(t)
    BY <1>1, <2>1 DEF PushCount, Signal, Sleepers, Phase
  <2>2. CASE PopCount(t)
    BY <1>1, <2>2 DEF PopCount, Signal, Sleepers, Phase
  <2> QED
    BY <2>1, <2>2
<1>3. Length = count'
  BY <1>1, LengthKnown DEF LengthFits, PushCount, PopCount
<1>4. Length' = count'
  <2>1. IInv'
    BY IInvStep DEF Next, Step, Run
  <2> QED
    BY <1>2, <2>1, LengthKnownNext DEF LengthFits
<1>5. Contents' = Contents
  BY <1>3, <1>4, ContentsKept DEF PushCount, PopCount
<1> QED
  BY <1>2, <1>5, StutterImplements DEF PushCount, PopCount

\* Taking the mutex, sleeping and waking up, and the tail of job_queue_destroy.
LEMMA QuietImplements ==
  ASSUME IInv, NEW t \in Threads, RingAlone,
         \/ Acquire(t) \/ SpuriousWakeup(t) \/ Wait(t)
         \/ Unlock(t) /\ op[t] = "destroy"
         \/ DestroyFree(t) \/ DestroyMutex(t)
  PROVE  UNCHANGED Abs!vars
<1> USE DEF IInv, TypeOK, queueVars, threadVars
<1>1. Contents' = Contents
  BY LengthKept, ContentsKept DEF RingAlone
<1>2. \A u \in Threads : Phase'[u] = Phase[u]
  BY DEF Acquire, SpuriousWakeup, Wait, Unlock, DestroyFree, DestroyMutex, Phase
<1>3. UNCHANGED <<is_destroyed, op, data, ret>>
  BY DEF Acquire, SpuriousWakeup, Wait, Unlock, DestroyFree, DestroyMutex
<1> QED
  BY <1>1, <1>2, <1>3, StutterImplements

-----------------------------------------------------------------------------
RefInv == IInv /\ PushCarriesJob /\ RingConsistent /\ OneDestruction

LEMMA RefInvHolds == Spec => []RefInv
<1>1. Init => RefInv
  <2>1. Init => OneDestruction
    BY DEF Init, OneDestruction, Destroying
  <2> QED
    BY <2>1, InitIInv, RingInit DEF RefInv
<1>2. RefInv /\ [Next]_vars => RefInv'
  BY IInvStep, PushCarriesJobStep, RingStep, OneDestructionStep DEF RefInv
<1> QED
  BY <1>1, <1>2, PTL DEF Spec

LEMMA InitImplements == Init => Abs!Init
<1> SUFFICES ASSUME Init PROVE Abs!Init
  OBVIOUS
<1>1. Contents = <<>>
  BY InitIInv, RingInit, ContentsSeq DEF Init, Length, Halfway
<1>2. Phase = [t \in Threads |-> "idle"]
  BY DEF Init, Phase
<1> QED
  BY <1>1, <1>2 DEF Init, Abs!Init, Abs!Callers, Threads

\* Every step of job_queue.c is a step of the abstract queue or a stutter.
LEMMA StepImplements ==
  RefInv /\ RefInv' /\ [Next]_vars => [Abs!Next]_(Abs!vars)
<1> SUFFICES ASSUME RefInv, RefInv', [Next]_vars PROVE [Abs!Next]_(Abs!vars)
  OBVIOUS
<1> USE DEF RefInv
<1>1. \A t : t \in Abs!Callers <=> t \in Threads
  BY DEF Abs!Callers, Threads
<1>2. ASSUME NEW t \in Threads, NEW f, NEW d, Call(t, f, d)
      PROVE  Abs!Invoke(t, f, d)
  BY <1>2, CallAlone, CallImplements
<1>3. ASSUME NEW t \in Threads, Step(t) PROVE [Abs!Next]_(Abs!vars)
  <2>1. CASE PushStore(t)
    BY <1>1, <2>1, PushStoreImplements DEF Abs!Next
  <2>2. CASE PopLoad(t)
    BY <1>1, <2>2, PopLoadImplements DEF Abs!Next
  <2>3. CASE PushCount(t) \/ PopCount(t)
    BY <2>3, CountImplements
  <2>4. CASE ~PushStore(t) /\ ~PopLoad(t) /\ ~PushCount(t) /\ ~PopCount(t)
    <3>1. RingAlone
      BY <1>3, <2>4, OtherSteps
    <3>2. CASE PushRefused(t)
      BY <1>1, <3>1, <3>2, PushRefusedImplements DEF Abs!Next
    <3>3. CASE PopRefused(t)
      BY <1>1, <3>1, <3>3, PopRefusedImplements DEF Abs!Next
    <3>4. CASE DestroyMark(t)
      BY <1>1, <3>1, <3>4, DestroyMarkImplements DEF Abs!Next
    <3>5. CASE DestroyConds(t) \/ (Unlock(t) /\ op[t] # "destroy")
      BY <1>1, <3>1, <3>5, ReturnImplements DEF Abs!Next
    <3>6. CASE \/ Acquire(t) \/ SpuriousWakeup(t) \/ Wait(t)
               \/ Unlock(t) /\ op[t] = "destroy"
               \/ DestroyFree(t) \/ DestroyMutex(t)
      BY <3>1, <3>6, QuietImplements
    <3>7. \/ PushRefused(t) \/ PopRefused(t) \/ DestroyMark(t) \/ DestroyConds(t)
          \/ Acquire(t) \/ SpuriousWakeup(t) \/ Wait(t) \/ Unlock(t)
          \/ DestroyFree(t) \/ DestroyMutex(t)
      BY <1>3, <2>4 DEF Step, Run
    <3> QED
      BY <3>2, <3>3, <3>4, <3>5, <3>6, <3>7
  <2> QED
    BY <2>1, <2>2, <2>3, <2>4
<1>4. CASE UNCHANGED vars
  <2>1. RingAlone
    BY <1>4 DEF vars, queueVars, threadVars, RingAlone
  <2>2. Contents' = Contents
    BY <1>4, <2>1, LengthKept, ContentsKept DEF vars, queueVars
  <2>3. \A u \in Threads : Phase'[u] = Phase[u]
    BY <1>4 DEF vars, Phase
  <2> QED
    BY <1>4, <2>2, <2>3, StutterImplements DEF vars, queueVars, threadVars
<1>5. CASE Next
  <2>1. CASE \E t \in Producers, d \in Jobs : CallPush(t, d)
    BY <1>2, <2>1 DEF CallPush, Threads, Abs!Next
  <2>2. CASE \E t \in Consumers : CallPop(t)
    BY <1>2, <2>2 DEF CallPop, Threads, Abs!Next
  <2>3. CASE \E t \in Destroyers : CallDestroy(t)
    BY <1>2, <2>3 DEF CallDestroy, Threads, Abs!Next
  <2>4. CASE \E t \in Threads : Step(t)
    BY <1>3, <2>4
  <2> QED
    BY <1>5, <2>1, <2>2, <2>3, <2>4 DEF Next
<1> QED
  BY <1>4, <1>5

\* Every behaviour of job_queue.c is a behaviour of the bounded first-in
\* first-out queue of job_queue.h.
THEOREM JobQueueImplementsBoundedQueue == Spec => ImplementsBoundedQueue
  BY RefInvHolds, InitImplements, StepImplements, PTL
  DEF Spec, ImplementsBoundedQueue, Abs!Spec

===============================================================================
