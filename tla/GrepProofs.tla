------------------------------ MODULE GrepProofs ------------------------------
(***************************************************************************)
(* Theorems about GrepPrograms, for any files, any number of workers and   *)
(* any interleaving: what fauxgrep and fauxgrep-mt print of each file.     *)
(***************************************************************************)
EXTENDS GrepPrograms, JobPoolProofs

-----------------------------------------------------------------------------
(* How far a file was searched                                             *)

\* The matching lines in front of line l were printed, and no others.
UpTo(f, l) ==
  /\ f \notin unreadable
  /\ Printed(f) = {m \in MatchesOf(f) : m < l}

\* All of them were, or the file could not be opened.
Searched(f) == Printed(f) = IF f \in unreadable THEN {} ELSE MatchesOf(f)

\* Nothing is printed of f in a step.
Spared(f) == Printed(f)' = Printed(f) /\ (f \in unreadable' <=> f \in unreadable)

LEMMA SparedStays ==
  ASSUME NEW f, Spared(f)
  PROVE  (\A l : UpTo(f, l)' <=> UpTo(f, l)) /\ (Searched(f)' <=> Searched(f))
BY DEF Spared, UpTo, Searched, MatchesOf, Matches

LEMMA LineNumbers ==
  ASSUME NEW f \in Files
  PROVE  /\ Len(Lines[f]) \in Nat
         /\ \A k \in MatchesOf(f) : k \in Nat /\ 1 <= k /\ k <= Len(Lines[f])
         /\ \A k \in Nat \ {0} : k \in MatchesOf(f) <=> HasLine(f, k) /\ Matches(f, k)
<1>1. Lines[f] \in Seq(BOOLEAN)
  BY LinesAssumption
<1>2. Len(Lines[f]) \in Nat
  BY <1>1
<1> QED  BY <1>2 DEF MatchesOf, HasLine

\* The order of the output, entry by entry: number is the k-th, of file f.
InPlace(k, f, number) ==
  /\ number \in MatchesOf(f)
  /\ PrintedUpTo(k - 1, f) = {m \in MatchesOf(f) : m < number}

Ordered ==
  \A k \in 1 .. Len(output) : \A f, number :
    f = output[k][1] /\ number = output[k][2] => InPlace(k, f, number)

LEMMA SameOrder == OutputInFileOrder <=> Ordered
BY Zenon DEF OutputInFileOrder, Ordered, InPlace

LEMMA SameOrderNext == OutputInFileOrder' <=> Ordered'
BY SameOrder, PTL

LEMMA UnchangedSpares ==
  ASSUME UNCHANGED output
  PROVE  /\ \A f : Printed(f)' = Printed(f)
         /\ \A k, f : PrintedUpTo(k, f)' = PrintedUpTo(k, f)
         /\ OutputInFileOrder => OutputInFileOrder'
<1>1. /\ \A f : Printed(f)' = Printed(f)
      /\ \A k, f : PrintedUpTo(k, f)' = PrintedUpTo(k, f)
  BY DEF Printed, PrintedUpTo
<1>2. OutputInFileOrder => OutputInFileOrder'
  <2>1. \A k, f, number : InPlace(k, f, number)' <=> InPlace(k, f, number)
    BY <1>1 DEF InPlace, MatchesOf, Matches
  <2> QED  BY <2>1, SameOrder, SameOrderNext DEF Ordered
<1> QED  BY <1>1, <1>2

\* At the first line nothing was printed, behind the last one everything.
LEMMA Ends ==
  ASSUME NEW f \in Files, NEW l \in Nat \ {0}
  PROVE  /\ {m \in MatchesOf(f) : m < FirstLine} = {}
         /\ ~HasLine(f, l) => {m \in MatchesOf(f) : m < l} = MatchesOf(f)
<1>1. /\ Len(Lines[f]) \in Nat
      /\ \A m \in MatchesOf(f) : m \in Nat /\ 1 <= m /\ m <= Len(Lines[f])
  BY LineNumbers
<1>2. \A m \in MatchesOf(f) : ~(m < 1)
  BY <1>1
<1>3. ~HasLine(f, l) => \A m \in MatchesOf(f) : m < l
  BY <1>1 DEF HasLine
<1> QED  BY <1>2, <1>3 DEF FirstLine

\* A line that does not match is passed.
LEMMA PassLine ==
  ASSUME NEW f \in Files, NEW l \in Nat \ {0}, HasLine(f, l), ~Matches(f, l)
  PROVE  {m \in MatchesOf(f) : m < NextLine(l)} = {m \in MatchesOf(f) : m < l}
<1>1. l \notin MatchesOf(f) /\ \A m \in MatchesOf(f) : m \in Nat
  BY LineNumbers
<1>2. \A m \in MatchesOf(f) : m < l + 1 <=> m < l
  BY <1>1
<1> QED  BY <1>2 DEF NextLine

\* What one printed line adds.
LEMMA OneLine ==
  ASSUME OutTypeOK, NEW f \in Files, NEW l \in Nat \ {0}, Found(f, l)
  PROVE  /\ output' \in Seq(Files \X (Nat \ {0}))
         /\ Len(output') = Len(output) + 1 /\ Len(output) \in Nat
         /\ output'[Len(output) + 1] = <<f, l>>
         /\ \A k \in 1 .. Len(output) : output'[k] = output[k]
         /\ \A k \in 0 .. Len(output) : \A g : PrintedUpTo(k, g)' = PrintedUpTo(k, g)
         /\ Printed(f)' = Printed(f) \cup {l}
         /\ \A g : g # f => Printed(g)' = Printed(g)
<1> DEFINE size == Len(output)
<1>1. /\ output' \in Seq(Files \X (Nat \ {0}))
      /\ Len(output') = size + 1 /\ size \in Nat
      /\ output'[size + 1] = <<f, l>>
      /\ \A k \in 1 .. size : output'[k] = output[k]
  BY DEF OutTypeOK, Found
<1> HIDE DEF size
<1>2. ASSUME NEW k \in 0 .. size, NEW g
      PROVE  PrintedUpTo(k, g)' = PrintedUpTo(k, g)
  <2>1. \A j \in 1 .. k : output'[j] = output[j]
    BY <1>1
  <2>2. {j \in 1 .. k : output'[j][1] = g} = {j \in 1 .. k : output[j][1] = g}
    BY <2>1
  <2> QED  BY <2>1, <2>2 DEF PrintedUpTo
<1>3. 1 .. size + 1 = 1 .. size \cup {size + 1}
  BY <1>1
<1>4. ASSUME NEW g
      PROVE  Printed(g)' = Printed(g) \cup (IF g = f THEN {l} ELSE {})
  <2>1. Printed(g)' = {output'[j][2] : j \in {j \in 1 .. size \cup {size + 1} : output'[j][1] = g}}
    BY <1>1, <1>3 DEF Printed, PrintedUpTo
  <2>2. Printed(g) = {output[j][2] : j \in {j \in 1 .. size : output[j][1] = g}}
    BY DEF Printed, PrintedUpTo, size
  <2>3. output'[size + 1][1] = f /\ output'[size + 1][2] = l
    BY <1>1
  <2>4. \A x : x \in Printed(g)' <=> x \in Printed(g) \/ (g = f /\ x = l)
    <3> TAKE x
    <3>1. x \in Printed(g)' <=> \E j \in 1 .. size \cup {size + 1} : output'[j][1] = g /\ x = output'[j][2]
      BY <2>1
    <3>2. x \in Printed(g) <=> \E j \in 1 .. size : output[j][1] = g /\ x = output[j][2]
      BY <2>2
    <3> QED  BY <1>1, <2>3, <3>1, <3>2
  <2> QED  BY <2>4
<1> QED  BY <1>1, <1>2, <1>4 DEF size

\* The next matching line of a file is printed.
LEMMA PrintNext ==
  ASSUME OutTypeOK, OutputInFileOrder,
         NEW f \in Files, NEW l \in MatchesOf(f), UpTo(f, l),
         Found(f, l), UNCHANGED unreadable
  PROVE  OutTypeOK' /\ OutputInFileOrder' /\ UpTo(f, NextLine(l))' /\ \A g : g # f => Spared(g)
<1>1. l \in Nat \ {0} /\ \A m \in MatchesOf(f) : m \in Nat
  BY LineNumbers
<1> DEFINE size == Len(output)
<1>2. /\ output' \in Seq(Files \X (Nat \ {0}))
      /\ Len(output') = size + 1 /\ size \in Nat
      /\ output'[size + 1] = <<f, l>>
      /\ \A k \in 1 .. size : output'[k] = output[k]
      /\ \A k \in 0 .. size : \A g : PrintedUpTo(k, g)' = PrintedUpTo(k, g)
      /\ Printed(f)' = Printed(f) \cup {l}
      /\ \A g : g # f => Printed(g)' = Printed(g)
  BY <1>1, OneLine
<1>3. OutTypeOK'
  BY <1>2 DEF OutTypeOK
<1> HIDE DEF size
<1>4. UpTo(f, NextLine(l))'
  <2>1. \A m \in MatchesOf(f) : m < l + 1 <=> m < l \/ m = l
    BY <1>1
  <2>2. {m \in MatchesOf(f) : m < l + 1} = {m \in MatchesOf(f) : m < l} \cup {l}
    BY <2>1
  <2>3. Printed(f)' = {m \in MatchesOf(f) : m < l + 1} /\ f \notin unreadable'
    BY <1>2, <2>2 DEF UpTo
  <2> QED  BY <2>3 DEF UpTo, NextLine, MatchesOf, Matches
<1>5. OutputInFileOrder'
  <2>1. PrintedUpTo(size, f) = {m \in MatchesOf(f) : m < l}
    BY DEF UpTo, Printed, size
  <2>2. ASSUME NEW k \in 1 .. size + 1,
               NEW g, g = output'[k][1], NEW number, number = output'[k][2]
        PROVE  InPlace(k, g, number)'
    <3>1. k - 1 \in 0 .. size
      BY <1>2
    <3>2. PrintedUpTo(k - 1, g)' = PrintedUpTo(k - 1, g)
      BY <1>2, <3>1
    <3>3. InPlace(k, g, number)
      <4>1. CASE k = size + 1
        <5>1. k - 1 = size /\ g = f /\ number = l
          BY <1>2, <2>2, <4>1
        <5> QED  BY <2>1, <5>1 DEF InPlace
      <4>2. CASE k # size + 1
        <5>1. size \in Nat /\ \A j \in 1 .. size : output'[j] = output[j]
          BY <1>2
        <5>2. k \in 1 .. size
          BY <5>1, <4>2
        <5>3. g = output[k][1] /\ number = output[k][2]
          BY <5>1, <5>2, <2>2
        <5> QED  BY <5>2, <5>3, SameOrder DEF Ordered, size
      <4> QED  BY <4>1, <4>2
    <3> QED  BY <3>2, <3>3 DEF InPlace, MatchesOf, Matches
  <2> QED  BY <1>2, <2>2, SameOrderNext DEF Ordered
<1> QED  BY <1>2, <1>3, <1>4, <1>5 DEF Spared

-----------------------------------------------------------------------------
(* fauxgrep-mt                                                             *)

\* No worker is searching f.
Resting(f) == \A w \in Consumers : wstage[w] = "work" => data[w] # f

\* How far a worker has come with its file.
SearchFits(w) ==
  /\ gpc[w] # "none" <=> wstage[w] = "work"
  /\ gpc[w] = "fopen" => UpTo(data[w], FirstLine)
  /\ gpc[w] \in {"getline", "lock", "printf"} => UpTo(data[w], line[w])
  /\ gpc[w] \in {"lock", "printf"} => line[w] \in MatchesOf(data[w])
  /\ gpc[w] = "unlock" => UpTo(data[w], NextLine(line[w]))
  /\ gpc[w] = "free" => Searched(data[w])

\* A file nobody searches was not searched yet, or all of it was.
FilesFit ==
  \A f \in Files :
    /\ finished[f] = 0 /\ Resting(f) => UpTo(f, FirstLine)
    /\ finished[f] = 1 => Searched(f)

GrepInv ==
  /\ PoolInv
  /\ GTypeOK
  /\ PrintAlone
  /\ OutputInFileOrder
  /\ \A w \in Consumers : SearchFits(w)
  /\ FilesFit

LEMMA GInitInv == GInit => GrepInv
<1> SUFFICES ASSUME GInit PROVE GrepInv
  OBVIOUS
<1> USE DEF GInit, OutInit
<1>1. PoolInv
  BY InitPoolInv
<1>2. GTypeOK /\ PrintAlone
  BY PrintAssumption DEF GTypeOK, OutTypeOK, PrintAlone, FirstLine, PoolInit, Callers
<1>3. OutputInFileOrder
  BY DEF OutputInFileOrder
<1>4. \A f \in Files : UpTo(f, FirstLine)
  <2> TAKE f \in Files
  <2>1. Printed(f) = {}
    BY DEF Printed, PrintedUpTo
  <2>2. {m \in MatchesOf(f) : m < FirstLine} = {}
    BY Ends DEF FirstLine
  <2> QED  BY <2>1, <2>2 DEF UpTo
<1>5. \A w \in Consumers : SearchFits(w)
  BY DEF SearchFits, PoolInit
<1>6. FilesFit
  BY <1>4, PrintAssumption DEF FilesFit, PoolInit
<1> QED  BY <1>1, <1>2, <1>3, <1>5, <1>6 DEF GrepInv

LEMMA GStepIsPoolStep == [GNext]_<<poolAll, mtVars, printed>> => [PoolNext]_<<vars, poolVars>>
BY DEF GNext, PoolNext, Unseen, WorkerStep, SearchStep, poolAll, MainStep,
       CallFauxgrepFile, OpenFails, Open, SkipLine, FoundLine, LockPrint, PrintLine,
       UnlockPrint, EndOfFile, FreePath

\* What a worker is to show in the next state.
LEMMA FitsNext ==
  ASSUME NEW w \in Consumers, wstage'[w] = "work",
         NEW f, f = data'[w], NEW at, at = gpc'[w], NEW l, l = line'[w],
         at # "none",
         at = "fopen" => UpTo(f, FirstLine)',
         at \in {"getline", "lock", "printf"} => UpTo(f, l)',
         at \in {"lock", "printf"} => l \in MatchesOf(f),
         at = "unlock" => UpTo(f, NextLine(l))',
         at = "free" => Searched(f)'
  PROVE  SearchFits(w)'
BY DEF SearchFits, UpTo, Searched, MatchesOf, Matches, NextLine, FirstLine, Printed, PrintedUpTo

\* A worker stays as far as it is if nothing is printed of its file.
LEMMA StillFits ==
  ASSUME NEW w \in Consumers, SearchFits(w),
         wstage'[w] = "work" <=> wstage[w] = "work",
         gpc'[w] = gpc[w], line'[w] = line[w],
         wstage[w] = "work" => data'[w] = data[w] /\ \A f : f = data[w] => Spared(f)
  PROVE  SearchFits(w)'
<1>1. CASE wstage[w] # "work"
  BY <1>1 DEF SearchFits
<1>2. CASE wstage[w] = "work"
  <2> SUFFICES ASSUME NEW f, f = data[w], NEW at, at = gpc[w], NEW l, l = line[w]
               PROVE  SearchFits(w)'
    OBVIOUS
  <2>1. (\A k : UpTo(f, k)' <=> UpTo(f, k)) /\ (Searched(f)' <=> Searched(f))
    BY <1>2, SparedStays
  <2> QED
    BY <1>2, <2>1, FitsNext DEF SearchFits
<1> QED  BY <1>1, <1>2

\* Steps of the pool that start and end no search.
LEMMA PoolStepKeeps ==
  ASSUME GrepInv, PoolInv', UNCHANGED <<mtVars, printed, finished>>,
         \A w \in Consumers : /\ wstage'[w] = "work" <=> wstage[w] = "work"
                              /\ wstage[w] = "work" => data'[w] = data[w]
  PROVE  GrepInv'
<1> USE DEF GrepInv
<1>1. \A f : Spared(f)
  BY UnchangedSpares DEF Spared, printed
<1>2. OutputInFileOrder'
  BY UnchangedSpares DEF printed
<1>3. \A f : (\A l : UpTo(f, l)' <=> UpTo(f, l)) /\ (Searched(f)' <=> Searched(f))
  BY <1>1, SparedStays
<1>4. GTypeOK'
  BY DEF GTypeOK, OutTypeOK, mtVars, printed
<1>5. ASSUME NEW w \in Consumers
      PROVE  SearchFits(w)'
  BY <1>1, StillFits DEF mtVars
<1>6. FilesFit'
  <2>1. \A f : Resting(f)' <=> Resting(f)
    BY DEF Resting
  <2> QED  BY <1>3, <2>1 DEF FilesFit
<1>7. PrintAlone'
  BY <1>5 DEF PrintAlone, SearchFits, mtVars
<1> QED  BY <1>2, <1>4, <1>5, <1>6, <1>7

\* A worker that goes on searching disturbs nobody else.
LEMMA SearchKeeps ==
  ASSUME GrepInv, NEW w \in Consumers, wstage[w] = "work", UNCHANGED poolAll,
         GTypeOK', OutputInFileOrder', PrintAlone', SearchFits(w)',
         \A v \in Consumers \ {w} : gpc'[v] = gpc[v] /\ line'[v] = line[v],
         \A f : f # data[w] => Spared(f)
  PROVE  GrepInv'
<1> USE DEF GrepInv
<1>1. /\ data[w] \in Files /\ finished[data[w]] = 0
      /\ \A v \in Consumers \ {w} : wstage[v] = "work" => data[v] # data[w]
  BY InHandOnly, PrintAssumption DEF Holds
<1>2. UNCHANGED <<data, wstage, finished>> /\ PoolInv'
  BY PoolInvStep DEF poolAll, vars, poolVars
<1>3. ASSUME NEW v \in Consumers \ {w}
      PROVE  SearchFits(v)'
  BY <1>1, <1>2, StillFits
<1>4. FilesFit'
  <2>1. ~Resting(data[w]) /\ \A f : Resting(f)' <=> Resting(f)
    BY <1>2 DEF Resting
  <2>2. \A f \in Files : /\ finished'[f] = 0 /\ Resting(f)' => UpTo(f, FirstLine)'
                         /\ finished'[f] = 1 => Searched(f)'
    <3> TAKE f \in Files
    <3>1. finished'[f] = finished[f] /\ (Resting(f)' <=> Resting(f))
      BY <1>2, <2>1
    <3>2. CASE f = data[w]
      BY <1>1, <2>1, <3>1, <3>2
    <3>3. CASE f # data[w]
      <4>1. /\ finished[f] = 0 /\ Resting(f) => UpTo(f, FirstLine)
            /\ finished[f] = 1 => Searched(f)
        BY DEF FilesFit
      <4>2. /\ UpTo(f, FirstLine)' <=> UpTo(f, FirstLine)
            /\ Searched(f)' <=> Searched(f)
        BY <3>3, SparedStays
      <4>3. finished'[f] = 0 => finished[f] = 0
        BY <3>1
      <4>4. finished'[f] = 1 => finished[f] = 1
        BY <3>1
      <4> QED  BY <3>1, <4>1, <4>2, <4>3, <4>4
    <3> QED  BY <3>2, <3>3
  <2> QED  BY <2>2 DEF FilesFit
<1> QED  BY <1>2, <1>3, <1>4

\* A search that prints nothing in a step, and opens the file at best.
LEMMA QuietSearchKeeps ==
  ASSUME GrepInv, NEW w \in Consumers,
         Open(w) \/ SkipLine(w) \/ FoundLine(w) \/ LockPrint(w) \/ UnlockPrint(w) \/ EndOfFile(w)
  PROVE  GrepInv'
<1> USE DEF GrepInv
<1>1. /\ UNCHANGED <<poolAll, printed>> /\ UNCHANGED <<data, wstage>>
      /\ gpc[w] # "none"
  BY DEF Open, SkipLine, FoundLine, LockPrint, UnlockPrint, EndOfFile, Step, poolAll, vars,
         poolVars
<1>2. wstage[w] = "work" /\ data[w] \in Files /\ line[w] \in Nat \ {0}
  <2>1. wstage[w] = "work"
    BY <1>1 DEF SearchFits
  <2> QED  BY <2>1, InHandOnly, PrintAssumption DEF Holds, GTypeOK
<1>3. GTypeOK'
  <2>1. OutTypeOK'
    BY <1>1 DEF GTypeOK, OutTypeOK, printed
  <2> USE DEF GTypeOK, Step
  <2>2. CASE Open(w)
    BY <2>1, <2>2 DEF Open, FirstLine
  <2>3. CASE SkipLine(w) \/ FoundLine(w) \/ EndOfFile(w)
    BY <2>1, <2>3 DEF SkipLine, FoundLine, EndOfFile, CountLine, NextLine
  <2>4. CASE LockPrint(w)
    BY <2>1, <2>4 DEF LockPrint
  <2>5. CASE UnlockPrint(w)
    BY <2>1, <2>5 DEF UnlockPrint, CountLine, NextLine, Released
  <2> QED  BY <2>2, <2>3, <2>4, <2>5
<1>4. OutputInFileOrder' /\ \A f : Spared(f)
  BY <1>1, UnchangedSpares DEF printed, Spared
<1>5. PrintAlone'
  <2>1. \A v \in Consumers : v # NoThread
    BY PrintAssumption DEF Callers
  <2>2. CASE LockPrint(w)
    BY <1>1, <2>1, <2>2 DEF LockPrint, PrintAlone, GTypeOK, Step, Lockable, SearchFits
  <2>3. CASE UnlockPrint(w)
    BY <1>1, <2>1, <2>3 DEF UnlockPrint, PrintAlone, GTypeOK, Step, Released, SearchFits
  <2>4. CASE Open(w) \/ SkipLine(w) \/ FoundLine(w) \/ EndOfFile(w)
    BY <1>1, <2>4 DEF Open, SkipLine, FoundLine, EndOfFile, PrintAlone, GTypeOK, Step
  <2> QED  BY <2>2, <2>3, <2>4
<1>6. /\ \A v \in Consumers \ {w} : gpc'[v] = gpc[v] /\ line'[v] = line[v]
      /\ wstage'[w] = "work" /\ data'[w] = data[w]
  BY <1>1, <1>2 DEF GTypeOK, Open, SkipLine, FoundLine, LockPrint, UnlockPrint, EndOfFile,
                    Step, CountLine
<1>7. SearchFits(w)'
  <2> SUFFICES ASSUME NEW f \in Files, f = data[w], NEW l \in Nat \ {0}, l = line[w]
               PROVE  SearchFits(w)'
    BY <1>2
  <2>1. (\A k : UpTo(f, k)' <=> UpTo(f, k)) /\ (Searched(f)' <=> Searched(f))
    BY <1>4, SparedStays
  <2>2. CASE Open(w)
    <3>1. gpc[w] = "fopen" /\ gpc'[w] = "getline" /\ line'[w] = FirstLine
      BY <2>2 DEF Open, Step, GTypeOK
    <3>2. UpTo(f, FirstLine)'
      BY <2>1, <3>1 DEF SearchFits
    <3> QED  BY <1>6, <3>1, <3>2, FitsNext
  <2>3. CASE SkipLine(w)
    <3>1. /\ gpc[w] = "getline" /\ gpc'[w] = "getline" /\ line'[w] = NextLine(l)
          /\ HasLine(f, l) /\ ~Matches(f, l)
      BY <2>3 DEF SkipLine, Step, CountLine, GTypeOK
    <3>2. UpTo(f, l)
      BY <3>1 DEF SearchFits
    <3>3. UpTo(f, NextLine(l))
      BY <3>1, <3>2, PassLine DEF UpTo
    <3> QED  BY <1>6, <2>1, <3>1, <3>3, FitsNext
  <2>4. CASE FoundLine(w)
    <3>1. /\ gpc[w] = "getline" /\ gpc'[w] = "lock" /\ line'[w] = l
          /\ HasLine(f, l) /\ Matches(f, l)
      BY <2>4 DEF FoundLine, Step, GTypeOK
    <3>2. UpTo(f, l) /\ l \in MatchesOf(f)
      BY <3>1, LineNumbers DEF SearchFits
    <3> QED  BY <1>6, <2>1, <3>1, <3>2, FitsNext
  <2>5. CASE LockPrint(w)
    <3>1. gpc[w] = "lock" /\ gpc'[w] = "printf" /\ line'[w] = l
      BY <2>5 DEF LockPrint, Step, GTypeOK
    <3>2. UpTo(f, l) /\ l \in MatchesOf(f)
      BY <3>1 DEF SearchFits
    <3> QED  BY <1>6, <2>1, <3>1, <3>2, FitsNext
  <2>6. CASE UnlockPrint(w)
    <3>1. gpc[w] = "unlock" /\ gpc'[w] = "getline" /\ line'[w] = NextLine(l)
      BY <2>6 DEF UnlockPrint, Step, CountLine, GTypeOK
    <3>2. UpTo(f, NextLine(l))
      BY <3>1 DEF SearchFits
    <3> QED  BY <1>6, <2>1, <3>1, <3>2, FitsNext
  <2>7. CASE EndOfFile(w)
    <3>1. /\ gpc[w] = "getline" /\ gpc'[w] = "free" /\ line'[w] = l
          /\ ~HasLine(f, l)
      BY <2>7 DEF EndOfFile, Step, GTypeOK
    <3>2. UpTo(f, l)
      BY <3>1 DEF SearchFits
    <3>3. Searched(f)
      BY <3>1, <3>2, Ends DEF UpTo, Searched
    <3> QED  BY <1>6, <2>1, <3>1, <3>3, FitsNext
  <2> QED  BY <2>2, <2>3, <2>4, <2>5, <2>6, <2>7
<1> QED  BY <1>1, <1>2, <1>3, <1>4, <1>5, <1>6, <1>7, SearchKeeps

LEMMA OpenFailsKeeps ==
  ASSUME GrepInv, NEW w \in Consumers, OpenFails(w)
  PROVE  GrepInv'
<1> USE DEF GrepInv
<1>1. /\ UNCHANGED <<poolAll, output, line, print_mutex>> /\ UNCHANGED <<data, wstage>>
      /\ gpc[w] = "fopen" /\ gpc' = [gpc EXCEPT ![w] = "free"]
      /\ unreadable' = unreadable \cup {data[w]}
  BY DEF OpenFails, Step, poolAll, vars, poolVars
<1>2. wstage[w] = "work" /\ data[w] \in Files
  <2>1. wstage[w] = "work"
    BY <1>1 DEF SearchFits
  <2> QED  BY <2>1, InHandOnly, PrintAssumption DEF Holds
<1>3. GTypeOK'
  BY <1>1, <1>2 DEF GTypeOK, OutTypeOK
<1>4. OutputInFileOrder' /\ \A f : f # data[w] => Spared(f)
  BY <1>1, UnchangedSpares DEF Spared
<1>5. PrintAlone'
  BY <1>1 DEF PrintAlone, GTypeOK
<1>6. /\ \A v \in Consumers \ {w} : gpc'[v] = gpc[v] /\ line'[v] = line[v]
      /\ wstage'[w] = "work" /\ data'[w] = data[w] /\ gpc'[w] = "free"
  BY <1>1, <1>2 DEF GTypeOK
<1>7. SearchFits(w)'
  <2> SUFFICES ASSUME NEW f \in Files, f = data[w] PROVE SearchFits(w)'
    BY <1>2
  <2>1. UpTo(f, FirstLine)
    BY <1>1 DEF SearchFits
  <2>2. Printed(f) = {}
    BY <2>1, Ends DEF UpTo, FirstLine
  <2>3. Printed(f)' = {} /\ f \in unreadable'
    BY <1>1, <2>2, UnchangedSpares
  <2>4. Searched(f)'
    BY <2>3 DEF Searched
  <2> QED  BY <1>6, <2>4, FitsNext
<1> QED  BY <1>1, <1>2, <1>3, <1>4, <1>5, <1>6, <1>7, SearchKeeps

LEMMA PrintLineKeeps ==
  ASSUME GrepInv, NEW w \in Consumers, PrintLine(w)
  PROVE  GrepInv'
<1> USE DEF GrepInv
<1>1. /\ UNCHANGED <<poolAll, unreadable, line, print_mutex>> /\ UNCHANGED <<data, wstage>>
      /\ gpc[w] = "printf" /\ gpc' = [gpc EXCEPT ![w] = "unlock"]
      /\ Found(data[w], line[w])
  BY DEF PrintLine, Step, poolAll, vars, poolVars
<1>2. /\ wstage[w] = "work" /\ data[w] \in Files
      /\ UpTo(data[w], line[w]) /\ line[w] \in MatchesOf(data[w])
  <2>1. wstage[w] = "work"
    BY <1>1 DEF SearchFits
  <2> QED  BY <1>1, <2>1, InHandOnly, PrintAssumption DEF Holds, SearchFits
<1> SUFFICES ASSUME NEW f \in Files, f = data[w], NEW l \in MatchesOf(f), l = line[w]
             PROVE  GrepInv'
  BY <1>2
<1>3. OutTypeOK' /\ OutputInFileOrder' /\ UpTo(f, NextLine(l))' /\ \A g : g # f => Spared(g)
  BY <1>1, <1>2, PrintNext DEF GTypeOK
<1>4. GTypeOK'
  BY <1>1, <1>3 DEF GTypeOK
<1>5. PrintAlone'
  BY <1>1 DEF PrintAlone, GTypeOK
<1>6. /\ \A v \in Consumers \ {w} : gpc'[v] = gpc[v] /\ line'[v] = line[v]
      /\ wstage'[w] = "work" /\ data'[w] = f /\ gpc'[w] = "unlock" /\ line'[w] = l
  BY <1>1, <1>2 DEF GTypeOK
<1>7. SearchFits(w)'
  BY <1>3, <1>6, FitsNext
<1> QED  BY <1>1, <1>2, <1>3, <1>4, <1>5, <1>6, <1>7, SearchKeeps

\* Worker w takes f: nothing was printed of it so far, and nobody else has it.
LEMMA CallKeeps ==
  ASSUME GrepInv, PoolInv', NEW w \in Consumers, CallFauxgrepFile(w)
  PROVE  GrepInv'
<1> USE DEF GrepInv
<1>1. /\ wstage[w] = "pop" /\ wstage' = [wstage EXCEPT ![w] = "work"]
      /\ gpc[w] = "none" /\ gpc' = [gpc EXCEPT ![w] = "fopen"]
      /\ UNCHANGED <<printed, line, print_mutex>> /\ UNCHANGED <<data, finished>>
      /\ Holds(w)
  BY DEF CallFauxgrepFile, Step, Take, Popped, Holds, vars
<1>2. /\ data[w] \in Files /\ finished[data[w]] = 0
      /\ \A v \in Consumers \ {w} : Holds(v) => data[v] # data[w]
  BY <1>1, InHandOnly, PrintAssumption
<1> SUFFICES ASSUME NEW f \in Files, f = data[w] PROVE GrepInv'
  BY <1>2
<1>3. OutputInFileOrder' /\ \A g : Spared(g)
  BY <1>1, UnchangedSpares DEF printed, Spared
<1>4. GTypeOK' /\ PrintAlone'
  BY <1>1 DEF GTypeOK, OutTypeOK, PrintAlone, printed, PoolInv, PoolTypes
<1>5. /\ wstage'[w] = "work" /\ gpc'[w] = "fopen"
      /\ \A v \in Consumers \ {w} : wstage'[v] = wstage[v] /\ gpc'[v] = gpc[v]
  BY <1>1 DEF GTypeOK, PoolInv, PoolTypes
<1>6. UpTo(f, FirstLine)'
  <2>1. Resting(f)
    BY <1>1, <1>2 DEF Resting, Holds
  <2>2. UpTo(f, FirstLine)
    BY <1>2, <2>1 DEF FilesFit
  <2> QED  BY <1>3, <2>2, SparedStays
<1>7. SearchFits(w)'
  <2>1. f = data'[w]
    BY <1>1
  <2> QED  BY <1>5, <1>6, <2>1, FitsNext
<1>8. \A v \in Consumers \ {w} : SearchFits(v)'
  BY <1>1, <1>3, <1>5, StillFits
<1>9. FilesFit'
  <2>1. \A g : Resting(g)' => Resting(g)
    BY <1>1, <1>5 DEF Resting
  <2>2. \A g : (\A l : UpTo(g, l)' <=> UpTo(g, l)) /\ (Searched(g)' <=> Searched(g))
    BY <1>3, SparedStays
  <2> QED  BY <1>1, <2>1, <2>2 DEF FilesFit
<1> QED  BY <1>3, <1>4, <1>7, <1>8, <1>9

\* Worker w is through with f.
LEMMA FreeKeeps ==
  ASSUME GrepInv, PoolInv', NEW w \in Consumers, FreePath(w)
  PROVE  GrepInv'
<1> USE DEF GrepInv
<1>1. /\ wstage[w] = "work" /\ wstage' = [wstage EXCEPT ![w] = "ready"]
      /\ gpc[w] = "free" /\ gpc' = [gpc EXCEPT ![w] = "none"]
      /\ finished' = [finished EXCEPT ![data[w]] = @ + 1]
      /\ UNCHANGED <<printed, line, print_mutex>> /\ UNCHANGED data
      /\ Holds(w)
  BY DEF FreePath, Step, Finish, Holds, vars
<1>2. /\ data[w] \in Files /\ finished[data[w]] = 0
      /\ \A v \in Consumers \ {w} : Holds(v) => data[v] # data[w]
  BY <1>1, InHandOnly, PrintAssumption
<1> SUFFICES ASSUME NEW f \in Files, f = data[w] PROVE GrepInv'
  BY <1>2
<1>3. OutputInFileOrder' /\ \A g : Spared(g)
  BY <1>1, UnchangedSpares DEF printed, Spared
<1>4. GTypeOK' /\ PrintAlone'
  BY <1>1 DEF GTypeOK, OutTypeOK, PrintAlone, printed, PoolInv, PoolTypes
<1>5. /\ wstage'[w] = "ready" /\ gpc'[w] = "none"
      /\ \A v \in Consumers \ {w} : wstage'[v] = wstage[v] /\ gpc'[v] = gpc[v]
  BY <1>1 DEF GTypeOK, PoolInv, PoolTypes
<1>6. SearchFits(w)'
  BY <1>5 DEF SearchFits
<1>7. \A v \in Consumers \ {w} : SearchFits(v)'
  BY <1>1, <1>3, <1>5, StillFits
<1>8. FilesFit'
  <2>1. finished'[f] = 1 /\ \A g \in Files : g # f => finished'[g] = finished[g]
    BY <1>1, <1>2, PrintAssumption DEF PoolInv, PoolTypes
  <2>2. \A g : g # f => (Resting(g)' => Resting(g))
    BY <1>1, <1>5 DEF Resting
  <2>3. \A g : (\A l : UpTo(g, l)' <=> UpTo(g, l)) /\ (Searched(g)' <=> Searched(g))
    BY <1>3, SparedStays
  <2>4. Searched(f)
    BY <1>1 DEF SearchFits
  <2>5. ASSUME NEW g \in Files
        PROVE  /\ finished'[g] = 0 /\ Resting(g)' => UpTo(g, FirstLine)'
               /\ finished'[g] = 1 => Searched(g)'
    <3>1. CASE g = f
      BY <2>1, <2>3, <2>4, <3>1
    <3>2. CASE g # f
      <4>1. finished'[g] = finished[g]
        BY <2>1, <3>2
      <4> QED  BY <2>2, <2>3, <3>2, <4>1 DEF FilesFit
    <3> QED  BY <3>1, <3>2
  <2> QED  BY <2>5 DEF FilesFit
<1> QED  BY <1>3, <1>4, <1>6, <1>7, <1>8

LEMMA GInvStep == GrepInv /\ [GNext]_<<poolAll, mtVars, printed>> => GrepInv'
<1> SUFFICES ASSUME GrepInv, [GNext]_<<poolAll, mtVars, printed>> PROVE GrepInv'
  OBVIOUS
<1>1. PoolInv'
  BY GStepIsPoolStep, PoolInvStep DEF GrepInv
<1>2. CASE \/ Unseen(MainStep)
           \/ \E w \in Consumers : Unseen(StartPop(w) \/ Exit(w))
           \/ \E t \in Callers : Unseen(QueueStep(t))
           \/ UNCHANGED <<poolAll, mtVars, printed>>
  <2>1. UNCHANGED <<mtVars, printed>>
    BY <1>2 DEF Unseen
  <2>2. \/ MainStep
        \/ \E w \in Consumers : StartPop(w) \/ Exit(w)
        \/ \E t \in Callers : QueueStep(t)
        \/ UNCHANGED <<vars, poolVars>>
    BY <1>2 DEF Unseen, poolAll
  <2> QED  BY <1>1, <2>1, <2>2, WorkUntouched, PoolStepKeeps DEF GrepInv
<1>3. CASE \E w \in Consumers : SearchStep(w)
  BY <1>1, <1>3, CallKeeps, OpenFailsKeeps, QuietSearchKeeps, PrintLineKeeps, FreeKeeps
     DEF SearchStep
<1> QED  BY <1>2, <1>3 DEF GNext, WorkerStep

-----------------------------------------------------------------------------
(* fauxgrep                                                                *)

\* The walk has left nothing out, and is in the middle of one file at most.
WalkInv ==
  /\ OutTypeOK
  /\ unvisited \subseteq Files /\ file \in Files \cup {NoFile}
  /\ lineno \in Nat \ {0} /\ ended \in BOOLEAN
  /\ OutputInFileOrder
  /\ file # NoFile => file \notin unvisited /\ UpTo(file, lineno) /\ ~ended
  /\ ended => unvisited = {}
  /\ \A f \in unvisited : UpTo(f, FirstLine)
  /\ \A f \in Files \ unvisited : f # file => Searched(f)

LEMMA SInitInv == SInit => WalkInv
<1> SUFFICES ASSUME SInit PROVE WalkInv
  OBVIOUS
<1> USE DEF SInit, OutInit
<1>1. \A f \in Files : UpTo(f, FirstLine)
  <2> TAKE f \in Files
  <2>1. Printed(f) = {}
    BY DEF Printed, PrintedUpTo
  <2>2. {m \in MatchesOf(f) : m < FirstLine} = {}
    BY Ends DEF FirstLine
  <2> QED  BY <2>1, <2>2 DEF UpTo
<1>2. OutTypeOK /\ OutputInFileOrder /\ lineno \in Nat \ {0}
  BY DEF OutTypeOK, OutputInFileOrder, FirstLine
<1> QED  BY <1>1, <1>2 DEF WalkInv

\* The walk: no file is lost between fts_read and its search.
LEMMA WalkStep == WalkInv /\ [SNext]_<<printed, walkVars>> => WalkInv'
<1> SUFFICES ASSUME WalkInv, [SNext]_<<printed, walkVars>> PROVE WalkInv'
  OBVIOUS
<1> USE DEF WalkInv
<1>1. CASE SOpenFails
  <2>1. PICK f \in unvisited : Visit(f) /\ unreadable' = unreadable \cup {f}
    BY <1>1 DEF SOpenFails
  <2>2. /\ UNCHANGED <<output, file, lineno, ended>>
        /\ file = NoFile /\ ~ended /\ unvisited' = unvisited \ {f} /\ f \in Files
    BY <1>1, <2>1 DEF SOpenFails, Visit
  <2>3. OutputInFileOrder' /\ OutTypeOK' /\ \A g : g # f => Spared(g)
    BY <2>1, <2>2, UnchangedSpares DEF Spared, OutTypeOK
  <2>4. \A g : g # f => (\A l : UpTo(g, l)' <=> UpTo(g, l)) /\ (Searched(g)' <=> Searched(g))
    BY <2>3, SparedStays
  <2>5. Searched(f)'
    <3>1. Printed(f) = {}
      BY <2>1, <2>2, Ends DEF UpTo, FirstLine
    <3>2. Printed(f)' = {} /\ f \in unreadable'
      BY <2>1, <2>2, <3>1, UnchangedSpares
    <3> QED  BY <3>2 DEF Searched
  <2> QED  BY <2>2, <2>3, <2>4, <2>5
<1>2. CASE SOpen
  <2>1. PICK f \in unvisited : Visit(f) /\ file' = f
    BY <1>2 DEF SOpen
  <2>2. /\ UNCHANGED <<printed, ended>> /\ lineno' = FirstLine
        /\ file = NoFile /\ ~ended /\ unvisited' = unvisited \ {f} /\ f \in Files
    BY <1>2, <2>1 DEF SOpen, Visit
  <2>3. OutputInFileOrder' /\ OutTypeOK' /\ \A g : Spared(g)
    BY <2>2, UnchangedSpares DEF Spared, OutTypeOK, printed
  <2>4. \A g : (\A l : UpTo(g, l)' <=> UpTo(g, l)) /\ (Searched(g)' <=> Searched(g))
    BY <2>3, SparedStays
  <2>5. \A g, l : g = file' /\ l = lineno' => UpTo(g, l)'
    BY <2>1, <2>2, <2>4
  <2>6. UpTo(file, lineno)'
    BY <2>5 DEF UpTo, Printed, PrintedUpTo, MatchesOf, Matches
  <2>7. lineno' \in Nat \ {0}
    BY <2>2 DEF FirstLine
  <2>8. \A g \in unvisited' : UpTo(g, FirstLine)'
    BY <2>2, <2>4
  <2>9. \A g \in Files \ unvisited' : g # file' => Searched(g)'
    BY <2>1, <2>2, <2>4, NoFileAssumption
  <2>10. unvisited' \subseteq Files /\ file' \in Files \ unvisited' /\ ~ended'
    BY <2>1, <2>2
  <2> QED  BY <2>2, <2>3, <2>6, <2>7, <2>8, <2>9, <2>10
<1>3. CASE SearchLine
  <2>1. /\ file # NoFile /\ HasLine(file, lineno) /\ file \in Files
        /\ IF Matches(file, lineno) THEN Found(file, lineno) ELSE UNCHANGED output
        /\ lineno' = NextLine(lineno)
        /\ UNCHANGED <<unreadable, unvisited, file, ended>>
        /\ UpTo(file, lineno) /\ ~ended /\ file \notin unvisited
    BY <1>3 DEF SearchLine
  <2> SUFFICES ASSUME NEW f \in Files, f = file, NEW l \in Nat \ {0}, l = lineno
               PROVE  WalkInv'
    BY <2>1
  <2>2. OutTypeOK' /\ OutputInFileOrder' /\ UpTo(f, NextLine(l))' /\ \A g : g # f => Spared(g)
    <3>1. CASE Matches(f, l)
      <4>1. l \in MatchesOf(f) /\ UpTo(f, l) /\ Found(f, l)
        BY <2>1, <3>1, LineNumbers
      <4> QED  BY <2>1, <4>1, PrintNext
    <3>2. CASE ~Matches(f, l)
      <4>1. UNCHANGED printed
        BY <2>1, <3>2 DEF printed
      <4>2. OutTypeOK' /\ OutputInFileOrder' /\ \A g : Spared(g)
        BY <4>1, UnchangedSpares DEF Spared, OutTypeOK, printed
      <4>3. UpTo(f, NextLine(l))
        BY <2>1, <3>2, PassLine DEF UpTo
      <4> QED  BY <4>2, <4>3, SparedStays
    <3> QED  BY <3>1, <3>2
  <2>3. \A g : g # f => (\A k : UpTo(g, k)' <=> UpTo(g, k)) /\ (Searched(g)' <=> Searched(g))
    BY <2>2, SparedStays
  <2>4. \A g, k : g = file' /\ k = lineno' => UpTo(g, k)'
    BY <2>1, <2>2
  <2>5. UpTo(file, lineno)'
    BY <2>4 DEF UpTo, Printed, PrintedUpTo, MatchesOf, Matches
  <2>6. lineno' \in Nat \ {0}
    BY <2>1 DEF NextLine
  <2> QED  BY <2>1, <2>2, <2>3, <2>5, <2>6
<1>4. CASE EndOfLines
  <2>1. /\ file # NoFile /\ ~HasLine(file, lineno) /\ file \in Files
        /\ file' = NoFile
        /\ UNCHANGED <<printed, unvisited, lineno, ended>>
        /\ UpTo(file, lineno) /\ ~ended
    BY <1>4 DEF EndOfLines
  <2>2. OutputInFileOrder' /\ OutTypeOK' /\ \A g : Spared(g)
    BY <2>1, UnchangedSpares DEF Spared, OutTypeOK, printed
  <2>3. \A g : (\A l : UpTo(g, l)' <=> UpTo(g, l)) /\ (Searched(g)' <=> Searched(g))
    BY <2>2, SparedStays
  <2>4. Searched(file)
    BY <2>1, Ends DEF UpTo, Searched
  <2>5. \A g \in Files \ unvisited' : Searched(g)'
    BY <2>1, <2>3, <2>4
  <2> QED  BY <2>1, <2>2, <2>3, <2>5
<1>5. CASE EndOfWalk \/ UNCHANGED <<printed, walkVars>>
  <2>1. /\ UNCHANGED <<printed, unvisited, file, lineno>>
        /\ \/ ended' = ended
           \/ ended' = TRUE /\ file = NoFile /\ unvisited = {}
    BY <1>5 DEF EndOfWalk, walkVars
  <2>2. OutputInFileOrder' /\ OutTypeOK' /\ \A g : Spared(g)
    BY <2>1, UnchangedSpares DEF Spared, OutTypeOK, printed
  <2>3. \A g : (\A l : UpTo(g, l)' <=> UpTo(g, l)) /\ (Searched(g)' <=> Searched(g))
    BY <2>2, SparedStays
  <2>4. file # NoFile => UpTo(file, lineno)'
    <3>1. file # NoFile => \A g, k : g = file' /\ k = lineno' => UpTo(g, k)'
      BY <2>1, <2>3
    <3> QED  BY <3>1 DEF UpTo, Printed, PrintedUpTo, MatchesOf, Matches
  <2>5. \A g \in unvisited' : UpTo(g, FirstLine)'
    BY <2>1, <2>3
  <2>6. \A g \in Files \ unvisited' : g # file' => Searched(g)'
    BY <2>1, <2>3
  <2>7. unvisited' \subseteq Files /\ file' \in Files \cup {NoFile} /\ lineno' \in Nat \ {0}
    BY <2>1
  <2>8. /\ ended' \in BOOLEAN
        /\ ended' => unvisited' = {}
        /\ file' # NoFile => file' \notin unvisited' /\ ~ended'
    <3>1. CASE ended' = ended
      BY <2>1, <3>1, Zenon
    <3>2. CASE ended' = TRUE /\ file = NoFile /\ unvisited = {}
      BY <2>1, <3>2
    <3> QED  BY <2>1, <3>1, <3>2
  <2>9. file' # NoFile => UpTo(file, lineno)'
    BY <2>1, <2>4
  <2> QED  BY <2>2, <2>5, <2>6, <2>7, <2>8, <2>9
<1> QED  BY <1>1, <1>2, <1>3, <1>4, <1>5 DEF SNext

-----------------------------------------------------------------------------
(* Both programs                                                           *)

\* What the variables of the program that does not run stay at.
PoolIdle ==
  /\ mstage = "feed"
  /\ gpc = [w \in Consumers |-> "none"]
  /\ line = [w \in Consumers |-> FirstLine]
  /\ print_mutex = NoThread
  /\ wstage \in [Consumers -> {"ready", "none", "failed"}]
WalkIdle == unvisited = Files /\ file = NoFile /\ lineno = FirstLine /\ ended = FALSE

ProgramsInv ==
  \/ program = "fauxgrep"    /\ WalkInv /\ PoolIdle
  \/ program = "fauxgrep-mt" /\ GrepInv /\ WalkIdle

LEMMA ProgramsInvInit == ProgramsInit => ProgramsInv
<1> SUFFICES ASSUME ProgramsInit PROVE ProgramsInv
  OBVIOUS
<1>1. GrepInv /\ WalkInv
  BY GInitInv, SInitInv DEF ProgramsInit
<1>2. PoolIdle /\ WalkIdle
  BY DEF ProgramsInit, SInit, GInit, PoolInit, PoolIdle, WalkIdle
<1> QED  BY <1>1, <1>2 DEF ProgramsInit, ProgramsInv

LEMMA ProgramsInvStep == ProgramsInv /\ [Walk(SNext) \/ Pool(GNext)]_allVars => ProgramsInv'
<1> SUFFICES ASSUME ProgramsInv, [Walk(SNext) \/ Pool(GNext)]_allVars PROVE ProgramsInv'
  OBVIOUS
<1>1. program' = program
  BY DEF Walk, Pool, allVars
<1>2. CASE program = "fauxgrep"
  <2>1. [SNext]_<<printed, walkVars>> /\ UNCHANGED <<mstage, wstage, mtVars>>
    BY <1>2 DEF Walk, Pool, allVars, poolAll, poolVars
  <2>2. WalkInv'
    BY <1>2, <2>1, WalkStep DEF ProgramsInv
  <2>3. PoolIdle'
    BY <1>2, <2>1 DEF ProgramsInv, PoolIdle, mtVars
  <2> QED  BY <1>1, <1>2, <2>2, <2>3 DEF ProgramsInv
<1>3. CASE program = "fauxgrep-mt"
  <2>1. [GNext]_<<poolAll, mtVars, printed>> /\ UNCHANGED walkVars
    BY <1>3 DEF Walk, Pool, allVars
  <2>2. GrepInv'
    BY <1>3, <2>1, GInvStep DEF ProgramsInv
  <2>3. WalkIdle'
    BY <1>3, <2>1 DEF ProgramsInv, WalkIdle, walkVars
  <2> QED  BY <1>1, <1>3, <2>2, <2>3 DEF ProgramsInv
<1> QED  BY <1>2, <1>3 DEF ProgramsInv

LEMMA ProgramsInvImplies ==
  ProgramsInv => ProgramsTypeOK /\ OutputInFileOrder /\ OutputComplete /\ PrintAlone
<1> SUFFICES ASSUME ProgramsInv
             PROVE  ProgramsTypeOK /\ OutputInFileOrder /\ OutputComplete /\ PrintAlone
  OBVIOUS
<1>1. CASE WalkInv /\ PoolIdle
  <2>1. ProgramsTypeOK
    BY <1>1 DEF ProgramsTypeOK, GTypeOK, WalkInv, PoolIdle, FirstLine
  <2>2. PrintAlone
    BY <1>1, PrintAssumption DEF PrintAlone, PoolIdle, Callers
  <2>3. OutputComplete
    <3> SUFFICES ASSUME ended, NEW f \in Files
                 PROVE  Printed(f) = IF f \in unreadable THEN {} ELSE MatchesOf(f)
      BY <1>1 DEF OutputComplete, PoolIdle
    <3>1. file = NoFile /\ unvisited = {}
      BY <1>1 DEF WalkInv
    <3>2. Searched(f)
      BY <1>1, <3>1, NoFileAssumption DEF WalkInv
    <3> QED  BY <3>2 DEF Searched
  <2> QED  BY <1>1, <2>1, <2>2, <2>3 DEF WalkInv
<1>2. CASE GrepInv /\ WalkIdle
  <2>1. GTypeOK /\ lineno \in Nat \ {0}
    BY <1>2 DEF GrepInv, WalkIdle, FirstLine
  <2>2. unvisited \subseteq Files /\ file \in Files \cup {NoFile} /\ ended \in BOOLEAN
    BY <1>2 DEF WalkIdle
  <2>3. ProgramsTypeOK
    BY <2>1, <2>2 DEF ProgramsTypeOK
  <2>4. OutputComplete
    <3> SUFFICES ASSUME mstage = "exit", NEW f \in Files
                 PROVE  Printed(f) = IF f \in unreadable THEN {} ELSE MatchesOf(f)
      BY <1>2 DEF OutputComplete, WalkIdle
    <3>1. finished[f] = 1
      BY <1>2, InvDoneAtExit, PrintAssumption DEF GrepInv, DoneAtExit
    <3>2. Searched(f)
      BY <1>2, <3>1 DEF GrepInv, FilesFit
    <3> QED  BY <3>2 DEF Searched
  <2> QED  BY <1>2, <2>3, <2>4 DEF GrepInv
<1> QED  BY <1>1, <1>2 DEF ProgramsInv

\* Types of the output, the walk and the workers' searches.
THEOREM ProgramsTypeCorrect == ProgramsSpec => []ProgramsTypeOK
BY ProgramsInvInit, ProgramsInvStep, ProgramsInvImplies, PTL DEF ProgramsSpec

\* However many workers interleave, the matching lines of one file are printed in
\* the file's order, each once (fauxgrep.c:30-36, fauxgrep-mt.c:39-48).
THEOREM OutputInFileOrderHolds == ProgramsSpec => []OutputInFileOrder
BY ProgramsInvInit, ProgramsInvStep, ProgramsInvImplies, PTL DEF ProgramsSpec

\* When main returns no matching line of a readable file is missing, in either
\* program (fauxgrep.c:70-81, fauxgrep-mt.c:125-169).
THEOREM OutputCompleteHolds == ProgramsSpec => []OutputComplete
BY ProgramsInvInit, ProgramsInvStep, ProgramsInvImplies, PTL DEF ProgramsSpec

\* No two workers print at a time, and none leaves with print_mutex locked
\* (fauxgrep-mt.c:41-44).
THEOREM PrintAloneHolds == ProgramsSpec => []PrintAlone
BY ProgramsInvInit, ProgramsInvStep, ProgramsInvImplies, PTL DEF ProgramsSpec

\* fauxgrep-mt is a pool: what holds of the jobs of every JobPool holds of its
\* files (fauxgrep-mt.c:61-79, 125-169).
THEOREM GrepIsPool == GSpec => PoolSpec
<1>1. GInit => PoolInit
  BY DEF GInit
<1> QED  BY <1>1, GStepIsPoolStep, PTL DEF GSpec, PoolSpec

==============================================================================
