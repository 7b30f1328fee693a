------------------------------ MODULE CoordNaive ------------------------------
(***************************************************************************)
(* coord_query_naive.c: the index is the array of records itself, a lookup *)
(* goes through all of them and keeps the nearest so far.                  *)
(***************************************************************************)
EXTENDS CoordQuery

VARIABLES i, value   \* the locals of lookup_naive, with closest
scanVars == <<i, closest, value>>

NInit ==
  /\ CInit
  /\ i = 0 /\ closest = Infinity /\ value = NoRecord

NMkIndex == MkIndex /\ UNCHANGED scanVars

\* The call of lookup_naive sets its locals.
NReadLine ==
  /\ ReadLine
  /\ i' = 0 /\ closest' = Infinity /\ value' = NoRecord

\* One pass of the loop.
Scan ==
  /\ stage = "lookup" /\ i \in Ids
  /\ LET d == Distance(i, QueryLon, QueryLat)
     IN  IF Nearer(d)
         THEN closest' = d /\ value' = i
         ELSE UNCHANGED <<closest, value>>
  /\ i' = i + 1
  /\ UNCHANGED loopVars

ReturnValue == i >= n     /\ Answer(value) /\ UNCHANGED scanVars

NEndOfQueries == EndOfQueries /\ UNCHANGED scanVars

NNext == NMkIndex \/ NReadLine \/ Scan \/ ReturnValue \/ NEndOfQueries

NSpec == NInit /\ [][NNext]_<<loopVars, scanVars>>

-----------------------------------------------------------------------------
\* While the loop runs, value is the first of the nearest among the records seen
\* so far; of several records at one place the file's first is printed, whatever
\* the queries before were (coord_query_naive.c:40-52).
FirstNearest ==
  stage = "lookup" /\ i > 0 =>
    /\ value \in 0 .. i - 1
    /\ closest = Distance(value, QueryLon, QueryLat)
    /\ \A j \in 0 .. i - 1 :
         LET d == Distance(j, QueryLon, QueryLat)
         IN  closest <= d /\ (j < value => closest < d)

==============================================================================
