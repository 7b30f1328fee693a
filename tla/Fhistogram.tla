------------------------------ MODULE Fhistogram ------------------------------
(***************************************************************************)
(* fhistogram.c: one file after another is read byte by byte into a local  *)
(* histogram, which is merged into global_histogram and drawn after every  *)
(* Partial bytes and once more at the end of the file.  No other thread    *)
(* looks on, so a merge is one step.                                       *)
(***************************************************************************)
EXTENDS Histogram

CONSTANTS
  Partial,     \* 100000
  NoFile       \* no file is open

ASSUME PartialAssumption == Partial \in Nat \ {0} /\ NoFile \notin Files

VARIABLES
  unvisited,   \* the files fts_read has not returned yet, in whatever order
  file, pos,   \* f, and how many of its bytes were read
  local, i,    \* local_histogram and i of fhistogram
  ended        \* main returned

walkVars == <<unvisited, file, pos, local, i, ended>>

SInit ==
  /\ HistInit
  /\ unvisited = Files
  /\ file = NoFile /\ pos = 0
  /\ local = ZeroHistogram /\ i = 0
  /\ ended = FALSE

-----------------------------------------------------------------------------
\* fts_read returns f, and fhistogram is called.
Visit(f) ==
  /\ ~ended /\ file = NoFile
  /\ f \in unvisited
  /\ unvisited' = unvisited \ {f}

SOpenFails ==
  /\ \E f \in unvisited : Visit(f) /\ unreadable' = unreadable \cup {f}
  /\ UNCHANGED <<global_histogram, screen, file, pos, local, i, ended>>

SOpen ==
  /\ \E f \in unvisited : Visit(f) /\ file' = f
  /\ pos' = 0 /\ local' = ZeroHistogram /\ i' = 0
  /\ UNCHANGED <<shown, ended>>

\* merge_histogram to the end, which also clears the local histogram, and
\* print_histogram.
Kept(histogram)    == histogram
Emptied(histogram) == ZeroHistogram

MergeAndDraw(histogram) ==
  /\ global_histogram' = Merged(histogram, global_histogram)
  /\ local' = Emptied(histogram)
  /\ screen' = global_histogram'
  /\ UNCHANGED unreadable

\* fread returns a byte.
ReadByte ==
  /\ file # NoFile /\ pos < Len(Content[file])
  /\ pos' = pos + 1
  /\ i' = Wrap(i + 1)
  /\ LET updated == UpdateHistogram(local, Content[file][pos + 1])
     IN  IF i' % Partial = 0 THEN MergeAndDraw(updated)
                             ELSE local' = updated /\ UNCHANGED shown
  /\ UNCHANGED <<unvisited, file, ended>>

\* fread returns 0: the rest is merged, fhistogram returns to the walk.
EndOfBytes ==
  /\ file # NoFile /\ pos = Len(Content[file])
  /\ MergeAndDraw(local)
  /\ file' = NoFile
  /\ UNCHANGED <<unvisited, pos, i, ended>>

EndOfWalk ==
  /\ ~ended /\ file = NoFile /\ unvisited = {}
  /\ ended' = TRUE
  /\ UNCHANGED <<shown, unvisited, file, pos, local, i>>

SNext == SOpenFails \/ SOpen \/ ReadByte \/ EndOfBytes \/ EndOfWalk

SSpec == SInit /\ [][SNext]_<<shown, walkVars>>

-----------------------------------------------------------------------------
STypeOK ==
  /\ unvisited \subseteq Files
  /\ file \in Files \cup {NoFile}
  /\ pos \in Nat
  /\ local \in [Bits -> -IntHalf .. IntHalf - 1]
  /\ i \in -IntHalf .. IntHalf - 1
  /\ ended \in BOOLEAN

BytesRead ==
  Positions(Files \ (unvisited \cup unreadable \cup {file}))
    \cup (IF file = NoFile THEN {} ELSE {file} \X (1 .. pos))

\* Every byte read so far is counted once, either still in the local histogram or
\* merged: no partial merge leaves anything behind or counts it again, at exact
\* multiples of Partial included, and even after a counter has overflowed
\* (fhistogram.c:37-48, histogram.h:53-56).
CountedOnce ==
  file # NoFile =>
    Merged(local, global_histogram) = PictureOf(BytesRead)

===============================================================================
