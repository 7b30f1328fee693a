---------------------------- MODULE CoordPrograms ----------------------------
(***************************************************************************)
(* The two programs made of coord_query.c: coord_query_loop is called with *)
(* the index functions of coord_query_naive.c or of coord_query_kdtree.c.  *)
(* The variables of the other one stay as they are.                        *)
(***************************************************************************)
EXTENDS CoordNaive, KdTree

VARIABLE program   \* which main() was started

Naive  == NNext /\ UNCHANGED <<treeVars, calls, best>>
Kdtree == KNext /\ UNCHANGED <<i, value>>

ProgramsInit ==
  /\ program \in {"coord_query_naive", "coord_query_kdtree"}
  /\ NInit /\ KInit

ProgramsNext ==
  /\ \/ program = "coord_query_naive"  /\ Naive
     \/ program = "coord_query_kdtree" /\ Kdtree
  /\ UNCHANGED program

ProgramsSpec ==
  ProgramsInit /\ [][ProgramsNext]_<<loopVars, scanVars, treeVars, searchVars, program>>

-----------------------------------------------------------------------------
\* Every answer of either program is a record nearest to the clamped query, and
\* NULL only if there is no record: they may differ in ties only
\* (coord_query_naive.c:30-58, coord_query_kdtree.c:211-225).
ImplementCoordQuery == CSpec

==============================================================================
