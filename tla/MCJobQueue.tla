----------------------------- MODULE MCJobQueue -----------------------------
(***************************************************************************)
(* Instances of JobQueue for TLC.                                          *)
(***************************************************************************)
EXTENDS JobQueue, TLC

\* Threads of the same role are interchangeable, and so are jobs.
Symmetry == Permutations(Producers \ (Consumers \cup Destroyers))
            \cup Permutations(Consumers \ (Producers \cup Destroyers))
            \cup Permutations(Jobs)

=============================================================================
