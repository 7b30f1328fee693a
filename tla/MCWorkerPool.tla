---------------------------- MODULE MCWorkerPool ----------------------------
(***************************************************************************)
(* An instance of WorkerPool for TLC.  Liveness is checked with safety, so *)
(* there is no symmetry set.                                               *)
(***************************************************************************)
EXTENDS WorkerPool

=============================================================================
