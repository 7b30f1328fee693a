------------------------------ MODULE Histogram ------------------------------
(***************************************************************************)
(* histogram.h, and what fhistogram.c and fhistogram-mt.c share: counts of *)
(* how often bit b was set in the bytes seen.  A byte is the set of its    *)
(* bits that are 1.  A counter is an int; when it overflows, which C       *)
(* leaves undefined, the build's increments and sums wrap around.          *)
(***************************************************************************)
EXTENDS Integers, Sequences, FiniteSets

CONSTANTS
  Bits,        \* 0 .. 7 in the code: the bins of a histogram
  Content,     \* the bytes of every file the walk finds
  IntHalf,     \* INT_MAX + 1
  NoPicture    \* nothing was drawn yet

Files == DOMAIN Content

ASSUME HistogramAssumption ==
  /\ IsFiniteSet(Bits) /\ Bits = 0 .. Cardinality(Bits) - 1
  /\ IsFiniteSet(Files) /\ Content \in [Files -> Seq(SUBSET Bits)]
  /\ IntHalf \in Nat \ {0}
  /\ NoPicture \notin [Bits -> -IntHalf .. IntHalf - 1]

VARIABLES
  global_histogram,
  screen,        \* the histogram drawn last, if any was
  unreadable     \* the files fopen failed on

shown == <<global_histogram, screen, unreadable>>

-----------------------------------------------------------------------------
Wrap(count) == ((count + IntHalf) % (2 * IntHalf)) - IntHalf

ZeroHistogram == [b \in Bits |-> 0]

UpdateHistogram(histogram, byte) ==
  [b \in Bits |-> IF b \in byte THEN Wrap(histogram[b] + 1) ELSE histogram[b]]

\* One pass of the loop of merge_histogram: bin b of `from` moves to `to`.
Added(from, to, b) == [to EXCEPT ![b] = Wrap(@ + from[b])]
Cleared(from, b)   == [from EXCEPT ![b] = 0]

\* The whole loop, when nobody looks on.
Merged(from, to) == [b \in Bits |-> Wrap(to[b] + from[b])]

HistInit ==
  /\ global_histogram = ZeroHistogram
  /\ screen = NoPicture
  /\ unreadable = {}

-----------------------------------------------------------------------------
\* What a picture should show, by definition: bit b occurs as often as there are
\* positions, of those counted, whose byte has it set; what an int cannot hold
\* is off by a multiple of 2^32.
Positions(files) == UNION {{f} \X DOMAIN Content[f] : f \in files}

PictureOf(positions) ==
  [b \in Bits |-> Wrap(Cardinality({p \in positions : b \in Content[p[1]][p[2]]}))]

HistTypeOK ==
  /\ global_histogram \in [Bits -> -IntHalf .. IntHalf - 1]
  /\ screen \in [Bits -> -IntHalf .. IntHalf - 1] \cup {NoPicture}
  /\ unreadable \subseteq Files

==============================================================================
