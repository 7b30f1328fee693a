------------------------------ MODULE FauxgrepMT ------------------------------
(***************************************************************************)
(* fauxgrep-mt.c: the workers of the pool search one file each, line by    *)
(* line, and print a matching line under print_mutex.  The queue is the    *)
(* one of job_queue.h.                                                     *)
(***************************************************************************)
EXTENDS JobPool, GrepOutput

CONSTANT NoThread     \* print_mutex is free

ASSUME PrintAssumption == Jobs = Files /\ NoThread \notin Callers

VARIABLES
  gpc,           \* per worker: the next statement of fauxgrep_file
  line,          \* per worker: lineno
  print_mutex    \* its holder, or NoThread

mtVars  == <<gpc, line, print_mutex>>
poolAll == <<vars, poolVars>>

GInit ==
  /\ PoolInit /\ OutInit
  /\ gpc = [w \in Consumers |-> "none"]
  /\ line = [w \in Consumers |-> FirstLine]
  /\ print_mutex = NoThread

\* Worker w goes from one statement to another.
Step(w, from, to) == gpc[w] = from /\ gpc' = [gpc EXCEPT ![w] = to]
CountLine(w) == line' = [line EXCEPT ![w] = NextLine(@)]

-----------------------------------------------------------------------------
(* worker_thread and fauxgrep_file                                         *)

CallFauxgrepFile(w) ==
  /\ Take(w)
  /\ Step(w, "none", "fopen")
  /\ UNCHANGED <<printed, line, print_mutex>>

OpenFails(w) ==
  /\ Step(w, "fopen", "free")
  /\ unreadable' = unreadable \cup {data[w]}
  /\ UNCHANGED <<poolAll, output, line, print_mutex>>

Open(w) ==
  /\ Step(w, "fopen", "getline")
  /\ line' = [line EXCEPT ![w] = FirstLine]
  /\ UNCHANGED <<poolAll, printed, print_mutex>>

\* A line without the needle is counted and skipped.
SkipLine(w) ==
  /\ Step(w, "getline", "getline")
  /\ HasLine(data[w], line[w]) /\ ~Matches(data[w], line[w])
  /\ CountLine(w)
  /\ UNCHANGED <<poolAll, printed, print_mutex>>

FoundLine(w) ==
  /\ Step(w, "getline", "lock")
  /\ HasLine(data[w], line[w]) /\ Matches(data[w], line[w])
  /\ UNCHANGED <<poolAll, printed, line, print_mutex>>

FaultyLockable == TRUE
Lockable       == print_mutex = NoThread

LockPrint(w) ==
  /\ Step(w, "lock", "printf")
  /\ Lockable
  /\ print_mutex' = w
  /\ UNCHANGED <<poolAll, printed, line>>

PrintLine(w) ==
  /\ Step(w, "printf", "unlock")
  /\ Found(data[w], line[w])
  /\ UNCHANGED <<poolAll, unreadable, line, print_mutex>>

\* The unlock, and lineno++ behind it.
Forgotten == print_mutex
Released  == NoThread

UnlockPrint(w) ==
  /\ Step(w, "unlock", "getline")
  /\ print_mutex' = Released
  /\ CountLine(w)
  /\ UNCHANGED <<poolAll, printed>>

EndOfFile(w) ==
  /\ Step(w, "getline", "free")
  /\ ~HasLine(data[w], line[w])
  /\ UNCHANGED <<poolAll, printed, line, print_mutex>>

\* Back in worker_thread: the path is freed.
FreePath(w) ==
  /\ Finish(w)
  /\ Step(w, "free", "none")
  /\ UNCHANGED <<printed, line, print_mutex>>

-----------------------------------------------------------------------------
SearchStep(w) ==
  \/ CallFauxgrepFile(w) \/ OpenFails(w) \/ Open(w)
  \/ SkipLine(w) \/ FoundLine(w) \/ LockPrint(w) \/ PrintLine(w)
  \/ UnlockPrint(w) \/ EndOfFile(w) \/ FreePath(w)

\* What the pool does besides, the search does not see.
Unseen(step) == step /\ UNCHANGED <<mtVars, printed>>

WorkerStep(w) == SearchStep(w) \/ Unseen(StartPop(w) \/ Exit(w))

GNext ==
  /\ mstage # "crashed"
  /\ \/ Unseen(MainStep)
     \/ \E w \in Consumers : WorkerStep(w)
     \/ \E t \in Callers : Unseen(QueueStep(t))

GSpec == GInit /\ [][GNext]_<<poolAll, mtVars, printed>>

-----------------------------------------------------------------------------
GTypeOK ==
  /\ OutTypeOK
  /\ gpc \in [Consumers -> {"none", "fopen", "getline", "lock", "printf",
                            "unlock", "free"}]
  /\ line \in [Consumers -> Nat \ {0}]
  /\ print_mutex \in Consumers \cup {NoThread}

\* No line is printed while another is: between lock and unlock there is one
\* worker, the one the mutex names, and no worker leaves with the mutex locked
\* ("printing without interleaving", fauxgrep-mt.c:41-44).
PrintAlone ==
  /\ \A w \in Consumers : print_mutex = w <=> gpc[w] \in {"printf", "unlock"}
  /\ \A w \in Consumers : wstage[w] = "exited" => print_mutex # w

===============================================================================
