------------------------------- MODULE IdQuery -------------------------------
(***************************************************************************)
(* id_query.c: the loop that reads the records, builds an index of them,   *)
(* reads one id per line and looks it up.  What the index does is left to  *)
(* the programs (IdPrograms); here a lookup returns, in one step, some     *)
(* record with the id.                                                     *)
(***************************************************************************)
EXTENDS RecordReader

CONSTANTS
  Needles,     \* the numbers on the lines of standard input
  NoNeedle,    \* no line was read yet
  NoRecord     \* NULL

ASSUME QueryAssumption ==
  Needles \subseteq Int /\ NoNeedle \notin Int /\ NoRecord \notin Nat

VARIABLES
  needle,
  answer       \* r, the record printed last; &rs[k] is the number k + 1

queryVars == <<needle, answer>>
loopVars  == <<fileVars, arrayVars, stage, queryVars>>

Records == 1 .. n

QInit ==
  /\ RInit
  /\ needle = NoNeedle /\ answer = NoRecord

Load == RNext /\ UNCHANGED queryVars

\* mk_index has returned.
MkIndex ==
  /\ stage = "loaded"
  /\ stage' = "read"
  /\ UNCHANGED <<fileVars, arrayVars, queryVars>>

ReadQuery ==
  /\ stage = "read"
  /\ stage' = "lookup"
  /\ needle' \in Needles
  /\ answer' = NoRecord
  /\ UNCHANGED <<fileVars, arrayVars>>

\* lookup returns r, and the loop prints it; a name that was never stored is an
\* arbitrary pointer for printf.
Answer(r) ==
  /\ stage = "lookup"
  /\ answer' = r
  /\ \/ stage' = "read"
     \/ /\ r # NoRecord /\ "name" \notin DOMAIN rs[r].holds
        /\ stage' = "crashed"
  /\ UNCHANGED <<fileVars, arrayVars, needle>>

\* getline fails: the index and the records are freed.
EndOfQueries ==
  /\ stage = "read"
  /\ stage' = "done"
  /\ UNCHANGED <<fileVars, arrayVars, queryVars>>

\* What every index promises of lookup.
HasId(r, id) == rs[r].osm_id = id

Lookup ==
  \/ \E r \in Records : HasId(r, needle) /\ Answer(r)
  \/ (\A r \in Records : ~HasId(r, needle)) /\ Answer(NoRecord)

QNext == Load \/ MkIndex \/ ReadQuery \/ Lookup \/ EndOfQueries

QSpec == QInit /\ [][QNext]_loopVars

===============================================================================
