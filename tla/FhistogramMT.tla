----------------------------- MODULE FhistogramMT -----------------------------
(***************************************************************************)
(* fhistogram-mt.c: the workers of the pool read one file each into a      *)
(* local histogram, merge it into global_histogram under histogram_mutex   *)
(* and redraw the picture every time `threshold` more bytes were counted;  *)
(* main draws it a last time when the workers are joined.                  *)
(*                                                                         *)
(* The queue is the one of job_queue.h (JobPool); WorkerPool shows that    *)
(* job_queue.c is one.                                                     *)
(***************************************************************************)
EXTENDS JobPool, Histogram

CONSTANTS
  Threshold,   \* threshold
  NoThread     \* histogram_mutex is free

ASSUME ThresholdAssumption ==
  /\ Jobs = Files
  /\ Threshold \in Nat \ {0}
  /\ NoThread \notin Callers

VARIABLES
  fpc,         \* per worker: the next statement of the loop body
  local_histogram, local_bytes,     \* per worker
  bin,         \* per worker: the loop index of merge_histogram
  global_bytes,
  histogram_mutex,                  \* its holder, or NoThread
  draws        \* how often a worker has drawn the picture

fileVars == <<local_histogram, local_bytes, bin>>
mtVars   == <<fpc, fileVars, global_bytes, histogram_mutex, draws>>
poolAll  == <<vars, poolVars>>

HInit ==
  /\ PoolInit /\ HistInit
  /\ fpc = [w \in Consumers |-> "none"]
  /\ local_histogram = [w \in Consumers |-> ZeroHistogram]
  /\ local_bytes = [w \in Consumers |-> 0]
  /\ bin = [w \in Consumers |-> 0]
  /\ global_bytes = 0
  /\ histogram_mutex = NoThread
  /\ draws = 0

\* Worker w goes from one statement to another.
Step(w, from, to) == fpc[w] = from /\ fpc' = [fpc EXCEPT ![w] = to]

-----------------------------------------------------------------------------
(* worker_thread, once job_queue_pop returned 0                            *)

\* A fresh local_histogram and local_bytes for every file.
StartFile(w) ==
  /\ Take(w)
  /\ Step(w, "none", "fopen")
  /\ local_histogram' = [local_histogram EXCEPT ![w] = ZeroHistogram]
  /\ local_bytes' = [local_bytes EXCEPT ![w] = 0]
  /\ UNCHANGED <<shown, bin, global_bytes, histogram_mutex, draws>>

\* fopen fails: warn, free the path and go on with the next job.
OpenFails(w) ==
  /\ Step(w, "fopen", "free")
  /\ unreadable' = unreadable \cup {data[w]}
  /\ UNCHANGED <<poolAll, fileVars, global_histogram, global_bytes, histogram_mutex, screen, draws>>

OpenFile(w) ==
  /\ Step(w, "fopen", "fread")
  /\ UNCHANGED <<poolAll, shown, fileVars, global_bytes, histogram_mutex, draws>>

\* fread returns a byte, the one behind the local_bytes read so far.
CountByte(w) ==
  /\ Step(w, "fread", "fread") /\ local_bytes[w] < Len(Content[data[w]])
  /\ local_histogram' =
       [local_histogram EXCEPT ![w] = UpdateHistogram(@, Content[data[w]][local_bytes[w] + 1])]
  /\ local_bytes' = [local_bytes EXCEPT ![w] = @ + 1]
  /\ UNCHANGED <<poolAll, shown, bin, global_bytes, histogram_mutex, draws>>

\* fread returns 0.
CloseFile(w) ==
  /\ Step(w, "fread", "lock") /\ local_bytes[w] = Len(Content[data[w]])
  /\ UNCHANGED <<poolAll, shown, fileVars, global_bytes, histogram_mutex, draws>>

FaultyLockable == TRUE
Lockable       == histogram_mutex = NoThread

Lock(w) ==
  /\ Step(w, "lock", "merge")
  /\ Lockable
  /\ histogram_mutex' = w
  /\ bin' = [bin EXCEPT ![w] = 0]
  /\ UNCHANGED <<poolAll, shown, local_histogram, local_bytes, global_bytes, draws>>

\* One bin of merge_histogram.
MergeBin(w) ==
  /\ Step(w, "merge", "merge") /\ bin[w] \in Bits
  /\ global_histogram' = Added(local_histogram[w], global_histogram, bin[w])
  /\ local_histogram'  = [local_histogram EXCEPT ![w] = Cleared(@, bin[w])]
  /\ bin' = [bin EXCEPT ![w] = @ + 1]
  /\ UNCHANGED <<poolAll, local_bytes, global_bytes, histogram_mutex, screen, draws, unreadable>>

AddBytes(w) ==
  /\ Step(w, "merge", "draw") /\ bin[w] \notin Bits
  /\ global_bytes' = global_bytes + local_bytes[w]
  /\ UNCHANGED <<poolAll, shown, fileVars, histogram_mutex, draws>>

\* The while loop draws when Due, and counts the drawn bytes off.
EagerDue   == global_bytes > 0
Due        == global_bytes >= Threshold
FaultyRest == 0
Rest       == global_bytes - Threshold

Draw(w) ==
  /\ Step(w, "draw", "draw") /\ Due
  /\ screen' = global_histogram
  /\ draws' = draws + 1
  /\ global_bytes' = Rest
  /\ UNCHANGED <<poolAll, fileVars, global_histogram, histogram_mutex, unreadable>>

\* The loop is left, the mutex released.
Unlock(w) ==
  /\ Step(w, "draw", "free") /\ ~Due
  /\ histogram_mutex' = NoThread
  /\ UNCHANGED <<poolAll, shown, fileVars, global_bytes, draws>>

FreePath(w) ==
  /\ Finish(w)
  /\ Step(w, "free", "none")
  /\ UNCHANGED <<shown, fileVars, global_bytes, histogram_mutex, draws>>

-----------------------------------------------------------------------------
\* main, after the last pthread_join: the last picture, without the mutex.
JoinAndDraw ==
  /\ Join
  /\ screen' = global_histogram
  /\ UNCHANGED <<mtVars, global_histogram, unreadable>>

\* What the pool does besides, and the histogram does not see.
PoolOnly ==
  /\ \/ \E j \in Jobs : Feed(j)
     \/ EndOfInput \/ JoinGarbage
     \/ \E w \in Consumers : StartPop(w) \/ Exit(w)
     \/ \E t \in Callers : QueueStep(t)
  /\ UNCHANGED <<mtVars, shown>>

FileStep(w) ==
  \/ StartFile(w) \/ OpenFails(w) \/ OpenFile(w) \/ CountByte(w) \/ CloseFile(w)
  \/ Lock(w) \/ MergeBin(w) \/ AddBytes(w) \/ Draw(w) \/ Unlock(w)
  \/ FreePath(w)

HNext ==
  /\ mstage # "crashed"
  /\ PoolOnly \/ JoinAndDraw \/ \E w \in Consumers : FileStep(w)

HSpec == HInit /\ [][HNext]_<<poolAll, mtVars, shown>>

-----------------------------------------------------------------------------
HTypeOK ==
  /\ fpc \in [Consumers -> {"none", "fopen", "fread", "lock", "merge", "draw", "free"}]
  /\ local_histogram \in [Consumers -> [Bits -> -IntHalf .. IntHalf - 1]]
  /\ local_bytes \in [Consumers -> Nat]
  /\ bin \in [Consumers -> 0 .. Cardinality(Bits)]
  /\ global_bytes \in Nat
  /\ histogram_mutex \in Consumers \cup {NoThread}
  /\ draws \in Nat

\* The picture is never torn: whatever was drawn last is the histogram of some
\* set of whole files, never of a merge that is half done, although main draws
\* without the mutex (fhistogram-mt.c:57-66, 155).
DrawnWhole ==
  screen # NoPicture => \E files \in SUBSET Jobs : screen = PictureOf(Positions(files))

\* Whenever the mutex is free the two globals tell of the same files: the
\* histogram is theirs, and their size is what was drawn, `threshold` bytes at a
\* time, and a rest too small to draw (fhistogram-mt.c:59-65).
GlobalsAgree ==
  histogram_mutex = NoThread =>
    \E files \in SUBSET (Jobs \ unreadable) :
      /\ global_histogram = PictureOf(Positions(files))
      /\ draws * Threshold + global_bytes = Cardinality(Positions(files))
      /\ global_bytes < Threshold

===============================================================================
