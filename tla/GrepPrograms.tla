----------------------------- MODULE GrepPrograms -----------------------------
(***************************************************************************)
(* fauxgrep and fauxgrep-mt side by side: one of the two is started on the *)
(* same files; the variables of the other one stay as they are.            *)
(***************************************************************************)
EXTENDS Fauxgrep, FauxgrepMT

VARIABLE program   \* which of the two was started

ProgramsInit ==
  /\ program \in {"fauxgrep", "fauxgrep-mt"}
  /\ SInit /\ GInit

Walk(step) == program = "fauxgrep" /\ step /\ UNCHANGED <<poolAll, mtVars, program>>
Pool(step) ==
  /\ program = "fauxgrep-mt" /\ mstage # "crashed"
  /\ step /\ UNCHANGED <<walkVars, program>>

allVars == <<walkVars, poolAll, mtVars, printed, program>>

ProgramsSpec == ProgramsInit /\ [][Walk(SNext) \/ Pool(GNext)]_allVars

\* The programs that can go on do, every thread of them, and read their input to
\* the end.  Of the queue that asks only what job_queue.c gives: calls that can
\* store or take a job do, and return; a refused pop may hang there.
ProgramsFairSpec ==
  /\ ProgramsSpec
  /\ WF_allVars(Walk(SNext))
  /\ WF_allVars(Pool(Unseen(MainStep)))
  /\ \A w \in Consumers : WF_allVars(Pool(WorkerStep(w)))
  /\ \A t \in Callers :
       WF_allVars(Pool(Unseen(QueueStep(t) /\ ret'[t] = 0)))

-----------------------------------------------------------------------------
ProgramsTypeOK ==
  /\ GTypeOK
  /\ unvisited \subseteq Files /\ file \in Files \cup {NoFile}
  /\ lineno \in Nat \ {0} /\ ended \in BOOLEAN

\* However the workers interleave, the lines of one file come out in the file's
\* order, none twice and none that does not match: what was printed of the file
\* before a line is exactly the matching lines in front of it (fauxgrep.c:30-36,
\* fauxgrep-mt.c:39-48).
OutputInFileOrder ==
  \A k \in 1 .. Len(output) :
    LET f      == output[k][1]
        number == output[k][2]
    IN  /\ number \in MatchesOf(f)
        /\ PrintedUpTo(k - 1, f) = {m \in MatchesOf(f) : m < number}

\* When main returns no matching line is missing of any file that could be opened:
\* the output of fauxgrep-mt is that of fauxgrep but for the order of lines of
\* different files, also when some of its threads could not be created
\* (fauxgrep.c:70-81, fauxgrep-mt.c:125-169).
OutputComplete ==
  ended \/ mstage = "exit" =>
    \A f \in Files : Printed(f) = IF f \in unreadable THEN {} ELSE MatchesOf(f)

\* Every line that matches is printed in the end, unless its file cannot be opened:
\* one worker that was created is enough, whichever others pthread_create failed to
\* make, and main does not have to return for it; only joining a missing thread may
\* end the process before (fauxgrep.c:70-81, fauxgrep-mt.c:61-76, 125-127, 168-170).
EveryFileSearched ==
  (program = "fauxgrep" \/ \E w \in Consumers : wstage[w] = "ready") =>
    \A f \in Files :
      <>(f \in unreadable \/ Printed(f) = MatchesOf(f) \/ mstage = "crashed")

===============================================================================
