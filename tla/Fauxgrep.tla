------------------------------- MODULE Fauxgrep -------------------------------
(***************************************************************************)
(* fauxgrep.c: the walk returns one file after another, fauxgrep_file      *)
(* goes through its lines and prints those with the needle.                *)
(***************************************************************************)
EXTENDS GrepOutput

CONSTANT NoFile   \* no file is open
ASSUME NoFileAssumption == NoFile \notin Files

VARIABLES
  unvisited,      \* the files fts_read has not returned yet, in whatever order
  file, lineno,   \* f and lineno of fauxgrep_file
  ended           \* main returned

walkVars == <<unvisited, file, lineno, ended>>

SInit ==
  /\ OutInit
  /\ unvisited = Files
  /\ file = NoFile /\ lineno = FirstLine
  /\ ended = FALSE

\* fts_read returns f, and fauxgrep_file is called.
Visit(f) ==
  /\ ~ended /\ file = NoFile
  /\ f \in unvisited
  /\ unvisited' = unvisited \ {f}

SOpenFails ==
  /\ \E f \in unvisited : Visit(f) /\ unreadable' = unreadable \cup {f}
  /\ UNCHANGED <<output, file, lineno, ended>>

SOpen ==
  /\ \E f \in unvisited : Visit(f) /\ file' = f
  /\ lineno' = FirstLine
  /\ UNCHANGED <<printed, ended>>

SearchLine ==
  /\ file # NoFile /\ HasLine(file, lineno)
  /\ IF Matches(file, lineno) THEN Found(file, lineno) ELSE UNCHANGED output
  /\ lineno' = NextLine(lineno)
  /\ UNCHANGED <<unreadable, unvisited, file, ended>>

EndOfLines ==
  /\ file # NoFile /\ ~HasLine(file, lineno)
  /\ file' = NoFile
  /\ UNCHANGED <<printed, unvisited, lineno, ended>>

EndOfWalk ==
  /\ ~ended /\ file = NoFile /\ unvisited = {}
  /\ ended' = TRUE
  /\ UNCHANGED <<printed, unvisited, file, lineno>>

SNext == SOpenFails \/ SOpen \/ SearchLine \/ EndOfLines \/ EndOfWalk

SSpec == SInit /\ [][SNext]_<<printed, walkVars>>

===============================================================================
