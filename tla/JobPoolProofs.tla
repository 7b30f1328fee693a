----------------------------- MODULE JobPoolProofs -----------------------------
(***************************************************************************)
(* Theorems about JobPool, for every number of workers and jobs: over any  *)
(* queue that keeps the promises of job_queue.h each job is processed      *)
(* once, and main leaves last.  WorkerPoolProofs carries them over to the  *)
(* pool on job_queue.c.                                                    *)
(***************************************************************************)
EXTENDS JobPool, SequenceTheorems, TLAPS

(* Where a job can be between main's input and its processing.             *)

Pushes(t)  == op[t] = "push" /\ phase[t] = "pending"
Holds(w)   == \/ wstage[w] = "work"
              \/ wstage[w] = "pop" /\ ret[w] = 0 /\ phase[w] # "pending"

InPush  == {data[t] : t \in {u \in Producers : Pushes(u)}}
InQueue == {queue[k] : k \in DOMAIN queue}
InHand  == {data[w] : w \in {v \in Consumers : Holds(v)}}

Unfinished == unsent \cup InPush \cup InQueue \cup InHand

\* No job is lost or handed out twice: it is in one place until it is finished
\* exactly once (fibs.c:107-109, 57-68).
EachJobOnce ==
  \A j \in Jobs :
    /\ finished[j] <= 1
    /\ j \in Unfinished <=> finished[j] = 0
    /\ \A v, w \in Consumers :
         /\ data[v] = j /\ data[w] = j
         /\ wstage[v] \in {"pop", "work"} /\ wstage[w] \in {"pop", "work"}
         => v = w

\* When main returns every job has been processed and no worker is left.
DoneAtExit == mstage = "exit" => AllGone /\ \A j \in Jobs : finished[j] = 1

\* A worker gives up only when nothing is left for it.
ExitOnlyWhenDone ==
  (\E w \in Consumers : wstage[w] = "exited")
    => closed /\ unsent = {} /\ InPush = {} /\ InQueue = {}

-----------------------------------------------------------------------------
(* The strengthening that every step preserves.                            *)

PoolTypes ==
  /\ queue \in Seq(Jobs) /\ closed \in BOOLEAN
  /\ phase \in [Callers -> {"idle", "pending", "done"}]
  /\ op    \in [Callers -> {"none", "push", "pop", "destroy"}]
  /\ data  \in [Callers -> Jobs \cup {NoJob}]
  /\ ret   \in [Callers -> {0, -1}]
  /\ unsent \subseteq Jobs
  /\ mstage \in {"feed", "destroy", "exit", "crashed"}
  /\ wstage \in [Consumers -> {"ready", "pop", "work", "exited", "none", "failed"}]
  /\ finished \in [Jobs -> Nat]

\* Main's calls: jobs of its input, and behind the last one the destruction, which
\* closes an empty queue that nobody pushes to any more.
MainFits ==
  /\ op[Main] \in {"none", "push", "destroy"}
  /\ op[Main] = "none" => phase[Main] = "idle"
  /\ op[Main] = "push" => data[Main] \in Jobs
  /\ op[Main] = "destroy" <=> mstage # "feed"
  /\ mstage # "feed" => unsent = {}
  /\ closed <=> op[Main] = "destroy" /\ phase[Main] # "pending"
  /\ closed => queue = <<>>
  /\ mstage = "exit" => closed /\ AllGone

\* A worker is in the queue between two of its own steps, and what it brings back
\* is a job, or nothing from a closed queue.
WorkersFit ==
  \A w \in Consumers :
    /\ wstage[w] # "pop" => phase[w] = "idle"
    /\ wstage[w] = "pop" => op[w] = "pop"
    /\ wstage[w] = "pop" /\ ~Holds(w) => data[w] = NoJob
    /\ wstage[w] = "pop" /\ ret[w] # 0 /\ phase[w] # "pending" => closed
    /\ Holds(w) => data[w] \in Jobs
    /\ wstage[w] = "exited" => closed

\* A job is in one place at a time.
PlacesApart ==
  /\ unsent \cap (InPush \cup InQueue \cup InHand) = {}
  /\ InPush \cap (InQueue \cup InHand) = {}
  /\ InQueue \cap InHand = {}
  /\ \A k, l \in DOMAIN queue : queue[k] = queue[l] => k = l
  /\ \A v, w \in Consumers : Holds(v) /\ Holds(w) /\ data[v] = data[w] => v = w

\* It is finished once it is nowhere else.
FinishedOnce == \A j \in Jobs : finished[j] = IF j \in Unfinished THEN 0 ELSE 1

PoolInv == PoolTypes /\ MainFits /\ WorkersFit /\ PlacesApart /\ FinishedOnce

-----------------------------------------------------------------------------
LEMMA InitPoolInv == PoolInit => PoolInv
<1> SUFFICES ASSUME PoolInit PROVE PoolInv
  OBVIOUS
<1> USE PoolAssumption DEF PoolInit, Init
<1>1. PoolTypes
  <2>1. closed \in BOOLEAN
    OBVIOUS
  <2> QED
    BY <2>1 DEF PoolTypes, Callers
<1>2. MainFits /\ WorkersFit
  BY DEF MainFits, WorkersFit, Holds, Callers
<1>3. InPush = {} /\ InQueue = {} /\ InHand = {}
  BY DEF InPush, InQueue, InHand, Pushes, Holds, Callers
<1>4. PlacesApart /\ FinishedOnce
  BY <1>3 DEF PlacesApart, FinishedOnce, Unfinished, Holds, Callers
<1> QED
  BY <1>1, <1>2, <1>4 DEF PoolInv

\* Main and the workers are callers, and nobody else.
LEMMA WhoCalls ==
  /\ Main \in Callers
  /\ Consumers \subseteq Callers
  /\ \A t \in Callers : t = Main \/ t \in Consumers
  /\ \A w \in Consumers : w # Main
  BY PoolAssumption DEF Callers

LEMMA PushOfMain ==
  InPush = IF Pushes(Main) THEN {data[Main]} ELSE {}
  BY PoolAssumption DEF InPush

LEMMA PushOfMainNext ==
  InPush' = IF Pushes(Main)' THEN {data'[Main]} ELSE {}
  BY PoolAssumption DEF InPush

\* A step that moves no job keeps every one in its place.
PlacesStay ==
  /\ UNCHANGED <<unsent, queue, finished, InPush>>
  /\ \A w \in Consumers : /\ Holds(w)' <=> Holds(w)
                          /\ Holds(w) => data'[w] = data[w]

LEMMA PlacesKept ==
  ASSUME PlacesApart, FinishedOnce, PlacesStay
  PROVE  PlacesApart' /\ FinishedOnce'
<1> USE DEF PlacesStay
<1>1. InHand' = InHand /\ InQueue' = InQueue
  BY DEF InHand, InQueue
<1>2. PlacesApart'
  BY <1>1 DEF PlacesApart
<1>3. FinishedOnce'
  BY <1>1 DEF FinishedOnce, Unfinished
<1> QED
  BY <1>2, <1>3

-----------------------------------------------------------------------------
(* main                                                                    *)

LEMMA FeedStep ==
  ASSUME PoolInv, NEW j \in Jobs, Feed(j)
  PROVE  PoolInv'
<1> USE WhoCalls DEF PoolInv, PoolTypes, Feed, Invoke
<1>1. PoolTypes'
  OBVIOUS
<1>2. MainFits'
  BY DEF MainFits
<1>3. WorkersFit'
  BY DEF WorkersFit, Holds
<1>4. InPush = {} /\ InPush' = {j}
  BY PushOfMain, PushOfMainNext DEF Pushes
<1>5. InQueue' = InQueue
  BY DEF InQueue
<1>6. \A w \in Consumers : (Holds(w)' <=> Holds(w)) /\ data'[w] = data[w]
  BY DEF Holds
<1>7. InHand' = InHand
  BY <1>6 DEF InHand
<1>8. PlacesApart'
  BY <1>4, <1>5, <1>6, <1>7 DEF PlacesApart
<1>9. Unfinished' = Unfinished
  BY <1>4, <1>5, <1>7 DEF Unfinished
<1>10. FinishedOnce'
  BY <1>9 DEF FinishedOnce
<1> QED
  BY <1>1, <1>2, <1>3, <1>8, <1>10

LEMMA EndOfInputStep ==
  ASSUME PoolInv, EndOfInput
  PROVE  PoolInv'
<1> USE WhoCalls DEF PoolInv, PoolTypes, EndOfInput, Invoke
<1>1. PoolTypes'
  OBVIOUS
<1>2. MainFits'
  BY DEF MainFits
<1>3. WorkersFit'
  BY DEF WorkersFit, Holds
<1>4. PlacesStay
  BY PushOfMain, PushOfMainNext DEF PlacesStay, Pushes, Holds
<1> QED
  BY <1>1, <1>2, <1>3, <1>4, PlacesKept

LEMMA JoinStep ==
  ASSUME PoolInv, Join \/ JoinGarbage
  PROVE  PoolInv'
<1> USE DEF PoolInv, PoolTypes, Join, JoinGarbage, vars
<1>1. PoolTypes'
  OBVIOUS
<1>2. MainFits'
  BY DEF MainFits, AllGone
<1>3. WorkersFit'
  BY DEF WorkersFit, Holds
<1>4. PlacesStay
  BY DEF PlacesStay, InPush, Pushes, Holds
<1> QED
  BY <1>1, <1>2, <1>3, <1>4, PlacesKept

-----------------------------------------------------------------------------
(* worker                                                                  *)

LEMMA StartPopStep ==
  ASSUME PoolInv, NEW w \in Consumers, StartPop(w)
  PROVE  PoolInv'
<1> USE WhoCalls DEF PoolInv, PoolTypes, StartPop, Invoke
<1>1. PoolTypes'
  OBVIOUS
<1>2. MainFits'
  BY DEF MainFits, AllGone
<1>3. WorkersFit'
  BY DEF WorkersFit, Holds
<1>4. PlacesStay
  BY PushOfMain, PushOfMainNext DEF PlacesStay, Pushes, Holds
<1> QED
  BY <1>1, <1>2, <1>3, <1>4, PlacesKept

\* A worker takes what it popped, or leaves with nothing.
LEMMA TakeOrExitStep ==
  ASSUME PoolInv, NEW w \in Consumers, Take(w) \/ Exit(w)
  PROVE  PoolInv'
<1> USE DEF PoolInv, PoolTypes, Take, Exit, Popped, vars
<1>1. PoolTypes'
  OBVIOUS
<1>2. MainFits'
  BY DEF MainFits, AllGone
<1>3. WorkersFit'
  BY DEF WorkersFit, Holds
<1>4. PlacesStay
  BY DEF PlacesStay, InPush, Pushes, Holds
<1> QED
  BY <1>1, <1>2, <1>3, <1>4, PlacesKept

LEMMA FinishStep ==
  ASSUME PoolInv, NEW w \in Consumers, Finish(w)
  PROVE  PoolInv'
<1> USE DEF PoolInv, PoolTypes, Finish, vars
<1>1. Holds(w) /\ data[w] \in Jobs
  BY DEF WorkersFit, Holds
<1>2. PoolTypes'
  BY <1>1
<1>3. MainFits'
  BY DEF MainFits, AllGone
<1>4. WorkersFit'
  BY DEF WorkersFit, Holds
<1>5. InPush' = InPush /\ InQueue' = InQueue
  BY DEF InPush, Pushes, InQueue
<1>6. \A v \in Consumers : Holds(v)' <=> Holds(v) /\ v # w
  BY DEF Holds
<1>7. InHand' = InHand \ {data[w]}
  BY <1>1, <1>6 DEF InHand, PlacesApart
<1>8. PlacesApart'
  BY <1>5, <1>6, <1>7 DEF PlacesApart
<1>9. data[w] \in InHand
  BY <1>1 DEF InHand
<1>10. Unfinished' = Unfinished \ {data[w]} /\ data[w] \in Unfinished
  BY <1>5, <1>7, <1>9 DEF Unfinished, PlacesApart
<1>11. FinishedOnce'
  BY <1>1, <1>10 DEF FinishedOnce
<1> QED
  BY <1>2, <1>3, <1>4, <1>8, <1>11

-----------------------------------------------------------------------------
(* The queue                                                               *)

LEMMA PushStep ==
  ASSUME PoolInv, NEW t \in Callers, Push(t), UNCHANGED poolVars
  PROVE  PoolInv'
<1> USE WhoCalls DEF PoolInv, PoolTypes, Push, Effect, poolVars
<1>1. t = Main /\ Pushes(Main) /\ data[Main] \in Jobs
  BY DEF WorkersFit, Pushes, MainFits
<1>2. /\ queue' \in Seq(Jobs) /\ DOMAIN queue' = 1 .. Len(queue) + 1
      /\ \A k \in DOMAIN queue : queue'[k] = queue[k]
      /\ queue'[Len(queue) + 1] = data[Main]
      /\ DOMAIN queue = 1 .. Len(queue) /\ Len(queue) \in Nat
  BY <1>1
<1>3. PoolTypes'
  BY <1>2
<1>4. MainFits'
  BY <1>1 DEF MainFits, AllGone
<1>5. WorkersFit'
  BY <1>1 DEF WorkersFit, Holds
<1>6. InPush = {data[Main]} /\ InPush' = {}
  BY <1>1, PushOfMain, PushOfMainNext DEF Pushes
<1>7. InQueue' = InQueue \cup {data[Main]}
  BY <1>2 DEF InQueue
<1>8. \A w \in Consumers : (Holds(w)' <=> Holds(w)) /\ data'[w] = data[w]
  BY <1>1 DEF Holds
<1>9. InHand' = InHand
  BY <1>8 DEF InHand
<1>10. \A k, l \in DOMAIN queue' : queue'[k] = queue'[l] => k = l
  <2>1. \A k \in DOMAIN queue : queue[k] # data[Main]
    BY <1>6 DEF PlacesApart, InQueue
  <2> QED
    BY <1>2, <2>1 DEF PlacesApart
<1>11. PlacesApart'
  BY <1>6, <1>7, <1>8, <1>9, <1>10 DEF PlacesApart
<1>12. Unfinished' = Unfinished
  BY <1>6, <1>7, <1>9 DEF Unfinished
<1>13. FinishedOnce'
  BY <1>12 DEF FinishedOnce
<1> QED
  BY <1>3, <1>4, <1>5, <1>11, <1>13

LEMMA PopStep ==
  ASSUME PoolInv, NEW t \in Callers, Pop(t), UNCHANGED poolVars
  PROVE  PoolInv'
<1> USE WhoCalls DEF PoolInv, PoolTypes, Pop, Effect, poolVars
<1>1. t \in Consumers /\ wstage[t] = "pop" /\ ~Holds(t) /\ Holds(t)'
  BY DEF WorkersFit, Holds, MainFits
<1>2. /\ Head(queue) \in Jobs /\ queue' \in Seq(Jobs) /\ queue # <<>>
      /\ DOMAIN queue = 1 .. Len(queue) /\ Len(queue) \in Nat
      /\ 1 \in DOMAIN queue /\ Head(queue) = queue[1]
      /\ DOMAIN queue' = 1 .. Len(queue) - 1
      /\ \A k \in DOMAIN queue' : k + 1 \in DOMAIN queue /\ queue'[k] = queue[k + 1]
      /\ \A k \in DOMAIN queue : k = 1 \/ k - 1 \in DOMAIN queue'
  OBVIOUS
<1>3. PoolTypes'
  BY <1>2
<1>4. MainFits'
  BY <1>1, <1>2 DEF MainFits, AllGone
<1>5. WorkersFit'
  BY <1>1, <1>2 DEF WorkersFit, Holds
<1>6. InPush' = InPush
  BY <1>1, PushOfMain, PushOfMainNext DEF Pushes
<1>7. \A k \in DOMAIN queue : queue[k] = queue[1] => k = 1
  BY <1>2 DEF PlacesApart
<1>8. InQueue' = InQueue \ {Head(queue)} /\ Head(queue) \in InQueue
  <2>1. ASSUME NEW j \in InQueue, j # Head(queue) PROVE j \in InQueue'
    <3>1. PICK k \in DOMAIN queue : queue[k] = j
      BY <2>1 DEF InQueue
    <3>2. k - 1 \in DOMAIN queue' /\ queue'[k - 1] = queue[k - 1 + 1] /\ k - 1 + 1 = k
      BY <1>2, <2>1, <3>1
    <3> QED
      BY <3>1, <3>2 DEF InQueue
  <2>2. ASSUME NEW k \in DOMAIN queue' PROVE queue'[k] \in InQueue \ {Head(queue)}
    BY <1>2, <1>7 DEF InQueue
  <2>3. \A j \in InQueue' : j \in InQueue \ {Head(queue)}
    BY <2>2 DEF InQueue
  <2>4. Head(queue) \in InQueue
    BY <1>2 DEF InQueue
  <2> QED
    BY <2>1, <2>3, <2>4
<1>9. /\ \A w \in Consumers : Holds(w)' <=> Holds(w) \/ w = t
      /\ \A w \in Consumers \ {t} : data'[w] = data[w]
      /\ data'[t] = Head(queue)
  BY <1>1 DEF Holds
<1>10. InHand' = InHand \cup {Head(queue)}
  BY <1>1, <1>9 DEF InHand
<1>11. \A k, l \in DOMAIN queue' : queue'[k] = queue'[l] => k = l
  <2> SUFFICES ASSUME NEW k \in DOMAIN queue', NEW l \in DOMAIN queue', queue'[k] = queue'[l]
               PROVE  k = l
    OBVIOUS
  <2>1. k + 1 = l + 1
    BY <1>2 DEF PlacesApart
  <2> QED
    BY <1>2, <2>1
<1>12. \A v, w \in Consumers : Holds(v)' /\ Holds(w)' /\ data'[v] = data'[w] => v = w
  <2>1. \A w \in Consumers : Holds(w) => data[w] # Head(queue)
    BY <1>8 DEF PlacesApart, InHand
  <2> QED
    BY <1>1, <1>9, <2>1 DEF PlacesApart
<1>13. PlacesApart'
  BY <1>6, <1>8, <1>10, <1>11, <1>12 DEF PlacesApart
<1>14. Unfinished' = Unfinished
  BY <1>6, <1>8, <1>10 DEF Unfinished
<1>15. FinishedOnce'
  BY <1>14 DEF FinishedOnce
<1> QED
  BY <1>3, <1>4, <1>5, <1>13, <1>15

\* Refusals, the destruction and the returns of calls move no job.
LEMMA QuietQueueStep ==
  ASSUME PoolInv, NEW t \in Callers,
         RefusePush(t) \/ RefusePop(t) \/ Close(t) \/ Return(t), UNCHANGED poolVars
  PROVE  PoolInv'
<1> USE WhoCalls DEF PoolInv, PoolTypes, Effect, poolVars
<1>1. CASE RefusePush(t)
  \* Main pushes to an open queue only.
  BY <1>1 DEF RefusePush, MainFits, WorkersFit
<1>2. CASE RefusePop(t)
  <2> USE <1>2 DEF RefusePop
  <2>1. t \in Consumers
    BY DEF MainFits
  <2>2. PoolTypes'
    OBVIOUS
  <2>3. MainFits'
    BY <2>1 DEF MainFits, AllGone
  <2>4. WorkersFit'
    BY <2>1 DEF WorkersFit, Holds
  <2>5. PlacesStay
    BY <2>1, PushOfMain, PushOfMainNext DEF PlacesStay, Pushes, Holds, WorkersFit
  <2> QED
    BY <2>2, <2>3, <2>4, <2>5, PlacesKept
<1>3. CASE Close(t)
  <2> USE <1>3 DEF Close
  <2>1. t = Main
    BY DEF WorkersFit
  <2>2. PoolTypes'
    OBVIOUS
  <2>3. MainFits'
    BY <2>1 DEF MainFits, AllGone
  <2>4. WorkersFit'
    BY <2>1 DEF WorkersFit, Holds
  <2>5. PlacesStay
    BY <2>1, PushOfMain, PushOfMainNext DEF PlacesStay, Pushes, Holds
  <2> QED
    BY <2>2, <2>3, <2>4, <2>5, PlacesKept
<1>4. CASE Return(t)
  <2> USE <1>4 DEF Return
  <2>2. PoolTypes'
    OBVIOUS
  <2>3. MainFits'
    BY DEF MainFits, AllGone
  <2>4. WorkersFit'
    BY DEF WorkersFit, Holds
  <2>5. PlacesStay
    BY PushOfMain, PushOfMainNext DEF PlacesStay, Pushes, Holds
  <2> QED
    BY <2>2, <2>3, <2>4, <2>5, PlacesKept
<1> QED
  BY <1>1, <1>2, <1>3, <1>4

-----------------------------------------------------------------------------
LEMMA PoolInvStep == PoolInv /\ [PoolNext]_<<vars, poolVars>> => PoolInv'
<1> SUFFICES ASSUME PoolInv, [PoolNext]_<<vars, poolVars>> PROVE PoolInv'
  OBVIOUS
<1>1. CASE PoolNext
  BY <1>1, FeedStep, EndOfInputStep, JoinStep, StartPopStep, TakeOrExitStep, FinishStep,
     PushStep, PopStep, QuietQueueStep
  DEF PoolNext, MainStep, QueueStep
<1>2. CASE UNCHANGED <<vars, poolVars>>
  <2> USE <1>2 DEF vars, poolVars, PoolInv
  <2>1. PoolTypes'
    BY DEF PoolTypes
  <2>2. MainFits' /\ WorkersFit'
    BY DEF MainFits, AllGone, WorkersFit, Holds
  <2>3. PlacesStay
    BY DEF PlacesStay, InPush, Pushes, Holds
  <2> QED
    BY <2>1, <2>2, <2>3, PlacesKept
<1> QED
  BY <1>1, <1>2

\* Every reachable state of the pool satisfies the strengthening.
THEOREM PoolInvHolds == PoolSpec => []PoolInv
  BY InitPoolInv, PoolInvStep, PTL DEF PoolSpec

LEMMA InvEachJobOnce == PoolInv => EachJobOnce
<1> SUFFICES ASSUME PoolInv, NEW j \in Jobs
             PROVE  /\ finished[j] <= 1
                    /\ j \in Unfinished <=> finished[j] = 0
                    /\ \A v, w \in Consumers :
                         /\ data[v] = j /\ data[w] = j
                         /\ wstage[v] \in {"pop", "work"} /\ wstage[w] \in {"pop", "work"}
                         => v = w
  BY DEF EachJobOnce
<1>1. finished[j] <= 1 /\ (j \in Unfinished <=> finished[j] = 0)
  BY DEF PoolInv, FinishedOnce
<1>2. \A v \in Consumers : data[v] = j /\ wstage[v] \in {"pop", "work"} => Holds(v)
  BY PoolAssumption DEF PoolInv, WorkersFit, Holds
<1> QED
  BY <1>1, <1>2 DEF PoolInv, PlacesApart

LEMMA InvExitOnlyWhenDone == PoolInv => ExitOnlyWhenDone
<1> SUFFICES ASSUME PoolInv, NEW w \in Consumers, wstage[w] = "exited"
             PROVE  closed /\ unsent = {} /\ InPush = {} /\ InQueue = {}
  BY DEF ExitOnlyWhenDone
<1>1. closed
  BY DEF PoolInv, WorkersFit
<1>2. op[Main] = "destroy" /\ queue = <<>> /\ unsent = {}
  BY <1>1 DEF PoolInv, MainFits
<1> QED
  BY <1>1, <1>2, PushOfMain DEF Pushes, InQueue

LEMMA InvDoneAtExit == PoolInv => DoneAtExit
<1> SUFFICES ASSUME PoolInv, mstage = "exit"
             PROVE  AllGone /\ \A j \in Jobs : finished[j] = 1
  BY DEF DoneAtExit
<1>1. AllGone /\ closed /\ op[Main] = "destroy" /\ queue = <<>> /\ unsent = {}
  BY DEF PoolInv, MainFits
<1>2. InPush = {} /\ InQueue = {} /\ InHand = {}
  BY <1>1, PushOfMain DEF Pushes, InQueue, InHand, Holds, AllGone
<1> QED
  BY <1>1, <1>2 DEF PoolInv, FinishedOnce, Unfinished

\* Over any queue that keeps its promises, each job is processed once.
THEOREM PoolEachJobOnce == PoolSpec => []EachJobOnce
  BY PoolInvHolds, InvEachJobOnce, PTL

\* No worker leaves before the last job is taken.
THEOREM PoolExitOnlyWhenDone == PoolSpec => []ExitOnlyWhenDone
  BY PoolInvHolds, InvExitOnlyWhenDone, PTL

\* Main returns last, and nothing is left to do.
THEOREM PoolDoneAtExit == PoolSpec => []DoneAtExit
  BY PoolInvHolds, InvDoneAtExit, PTL

-----------------------------------------------------------------------------
(* What the programs built on the pool need of it.                         *)

\* What a worker has in hand is not finished, and nobody else has it.
LEMMA InHandOnly ==
  ASSUME PoolInv, NEW w \in Consumers, Holds(w)
  PROVE  /\ data[w] \in Jobs /\ finished[data[w]] = 0
         /\ \A v \in Consumers \ {w} : Holds(v) => data[v] # data[w]
<1>1. data[w] \in Jobs
  BY DEF PoolInv, WorkersFit
<1>2. data[w] \in Unfinished
  BY DEF Unfinished, InHand
<1>3. \A v \in Consumers \ {w} : Holds(v) => data[v] # data[w]
  BY DEF PoolInv, PlacesApart
<1> QED  BY <1>1, <1>2, <1>3 DEF PoolInv, FinishedOnce

\* While main and the queue go on, and workers pop and leave, the others keep the
\* job they work on.
LEMMA WorkUntouched ==
  ASSUME PoolInv,
         \/ MainStep
         \/ \E w \in Consumers : StartPop(w) \/ Exit(w)
         \/ \E t \in Callers : QueueStep(t)
         \/ UNCHANGED <<vars, poolVars>>
  PROVE  /\ finished' = finished
         /\ \A w \in Consumers : /\ wstage'[w] = "work" <=> wstage[w] = "work"
                                 /\ wstage[w] = "work" => data'[w] = data[w]
<1>1. finished' = finished
  BY DEF MainStep, Feed, EndOfInput, Join, JoinGarbage, StartPop, Exit, QueueStep, poolVars
<1> SUFFICES ASSUME NEW w \in Consumers
             PROVE  /\ wstage'[w] = "work" <=> wstage[w] = "work"
                    /\ wstage[w] = "work" => data'[w] = data[w]
  BY <1>1
<1>2. /\ w # Main /\ w \in Callers /\ Main \in Callers
      /\ data \in [Callers -> Jobs \cup {NoJob}]
      /\ wstage \in [Consumers -> {"ready", "pop", "work", "exited", "none", "failed"}]
  BY WhoCalls DEF PoolInv, PoolTypes
<1>3. CASE MainStep
  BY <1>2, <1>3 DEF MainStep, Feed, EndOfInput, Join, JoinGarbage, Invoke, vars
<1>4. CASE \E v \in Consumers : StartPop(v) \/ Exit(v)
  <2>1. PICK v \in Consumers : StartPop(v) \/ Exit(v)
    BY <1>4
  <2>2. v \in Callers
    BY WhoCalls
  <2> QED  BY <1>2, <2>1, <2>2 DEF StartPop, Exit, Popped, Invoke, vars
<1>5. CASE \E t \in Callers : QueueStep(t)
  <2>1. PICK t \in Callers : QueueStep(t)
    BY <1>5
  <2>2. wstage[w] = "work" => phase[w] = "idle"
    BY DEF PoolInv, WorkersFit
  <2>3. wstage' = wstage /\ phase[t] # "idle"
    BY <2>1 DEF QueueStep, poolVars, Push, RefusePush, Pop, RefusePop, Close, Return, Effect
  <2>4. w # t => data'[w] = data[w]
    BY <1>2, <2>1 DEF QueueStep, Push, RefusePush, Pop, RefusePop, Close, Return
  <2> QED  BY <2>2, <2>3, <2>4
<1>6. CASE UNCHANGED <<vars, poolVars>>
  BY <1>6 DEF vars, poolVars
<1> QED  BY <1>3, <1>4, <1>5, <1>6

=============================================================================
