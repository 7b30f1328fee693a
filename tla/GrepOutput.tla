------------------------------ MODULE GrepOutput ------------------------------
(***************************************************************************)
(* What fauxgrep.c and fauxgrep-mt.c share: the files, what was printed of *)
(* them, and what should be.  A file is the sequence of its lines, a line  *)
(* is whether strstr finds the needle in it.                               *)
(***************************************************************************)
EXTENDS Integers, Sequences

CONSTANT Lines   \* per file, per line: does it contain the needle

Files == DOMAIN Lines

ASSUME LinesAssumption == Lines \in [Files -> Seq(BOOLEAN)]

VARIABLES
  output,        \* what was printed: <<path, line number>>
  unreadable     \* the files fopen failed on

printed == <<output, unreadable>>

OutInit == output = <<>> /\ unreadable = {}

HasLine(file, lineno) == lineno <= Len(Lines[file])
Matches(file, lineno) == Lines[file][lineno]
Found(file, lineno)   == output' = Append(output, <<file, lineno>>)

\* lineno before the first getline, and behind a line.
ZeroFirst        == 0
FirstLine        == 1
SkipTwo(lineno)  == lineno + 2
NextLine(lineno) == lineno + 1

-----------------------------------------------------------------------------
\* What should be printed of a file: the numbers of its matching lines.
MatchesOf(file) == {k \in 1 .. Len(Lines[file]) : Matches(file, k)}

\* What the first k entries of the output are of a file, and what all of them are.
PrintedUpTo(k, file) == {output[j][2] : j \in {j \in 1 .. k : output[j][1] = file}}
Printed(file)        == PrintedUpTo(Len(output), file)

OutTypeOK ==
  /\ output \in Seq(Files \X (Nat \ {0}))
  /\ unreadable \subseteq Files

===============================================================================
