--------------------------- MODULE MCGrepPrograms ---------------------------
(***************************************************************************)
(* An instance of GrepPrograms for TLC: three files, one without a match,  *)
(* two with several, so that their lines can interleave.  Liveness is      *)
(* checked with safety, so there is no symmetry set.                       *)
(***************************************************************************)
EXTENDS GrepPrograms, TLC

CONSTANTS plain, first, last

MCLines == plain :> << FALSE >> @@ first :> << TRUE, FALSE, TRUE >>
           @@ last :> << FALSE, TRUE, TRUE >>

=============================================================================
