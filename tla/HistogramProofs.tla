---------------------------- MODULE HistogramProofs ----------------------------
(***************************************************************************)
(* Theorems about HistogramPrograms, for any files, bytes and widths of an *)
(* int, any number of workers and any interleaving: every byte is counted  *)
(* once, and what is drawn is the histogram of whole files.                *)
(***************************************************************************)
EXTENDS HistogramPrograms, JobPoolProofs, FiniteSetTheorems

-----------------------------------------------------------------------------
(* Counters that wrap around                                               *)

\* What is left of a division.
LEMMA Division ==
  ASSUME NEW x \in Int, NEW m \in Nat \ {0}
  PROVE  /\ x % m \in 0 .. m - 1
         /\ \E q \in Int, r \in 0 .. m - 1 : x = q * m + r /\ r = x % m
<1>1. /\ x % m \in 0 .. m - 1
      /\ x \div m \in Int /\ x = (x \div m) * m + (x % m)
  OBVIOUS
<1> QED  BY <1>1

LEMMA OneRemainder ==
  ASSUME NEW m \in Nat \ {0}, NEW p \in Int, NEW q \in Int,
         NEW r \in 0 .. m - 1, NEW s \in 0 .. m - 1, p * m + r = q * m + s
  PROVE  r = s
<1> DEFINE d == p - q
<1>1. d \in Int /\ d * m = s - r
  OBVIOUS
<1> HIDE DEF d
<1>2. CASE d = 0
  BY <1>1, <1>2
<1>3. CASE d >= 1
  <2>1. d - 1 \in Nat
    BY <1>1, <1>3
  <2>2. (d - 1) * m >= 0
    BY <2>1
  <2>3. (d - 1) * m = d * m - m
    BY <1>1
  <2> QED  BY <1>1, <2>2, <2>3
<1>4. CASE d <= -1
  <2>1. -1 - d \in Nat
    BY <1>1, <1>4
  <2>2. (-1 - d) * m >= 0
    BY <2>1
  <2>3. (-1 - d) * m = -m - d * m
    BY <1>1
  <2> QED  BY <1>1, <2>2, <2>3
<1> QED  BY <1>1, <1>2, <1>3, <1>4

LEMMA SameRemainder ==
  ASSUME NEW m \in Nat \ {0}, NEW k \in Int, NEW y \in Int
  PROVE  (k * m + y) % m = y % m
<1>1. k * m + y \in Int
  OBVIOUS
<1> DEFINE z == k * m + y
<1> HIDE DEF z
<1>2. z \in Int /\ \E q \in Int, r \in 0 .. m - 1 : z = q * m + r /\ r = z % m
  BY <1>1, Division DEF z
<1>3. PICK q \in Int, r \in 0 .. m - 1 : y = q * m + r /\ r = y % m
  BY Division
<1>4. PICK p \in Int, s \in 0 .. m - 1 : z = p * m + s /\ s = z % m
  BY <1>2
<1>5. k + q \in Int /\ (k + q) * m = k * m + q * m
  OBVIOUS
<1>6. (k + q) * m + r = p * m + s
  BY <1>3, <1>4, <1>5 DEF z
<1>7. r = s
  BY <1>5, <1>6, OneRemainder
<1> QED  BY <1>3, <1>4, <1>7 DEF z

\* An int holds the count but for a multiple of its 2 * IntHalf values.
LEMMA WrapRange ==
  ASSUME NEW n \in Int
  PROVE  /\ Wrap(n) \in -IntHalf .. IntHalf - 1
         /\ n \in -IntHalf .. IntHalf - 1 => Wrap(n) = n
<1> DEFINE m == 2 * IntHalf
<1>1. m \in Nat \ {0} /\ IntHalf \in Nat \ {0}
  BY HistogramAssumption
<1>2. (n + IntHalf) % m \in 0 .. m - 1
  BY <1>1, Division
<1>3. ASSUME n \in -IntHalf .. IntHalf - 1
      PROVE  (n + IntHalf) % m = n + IntHalf
  <2>1. n + IntHalf \in 0 .. m - 1
    BY <1>1, <1>3
  <2> DEFINE x == n + IntHalf
  <2> HIDE DEF x, m
  <2>2. x \in 0 .. m - 1 /\ x \in Int
    BY <1>1, <2>1 DEF x
  <2>3. PICK q \in Int, r \in 0 .. m - 1 : x = q * m + r /\ r = x % m
    BY <1>1, <2>2, Division
  <2>4. 0 * m + x = q * m + r
    BY <1>1, <2>2, <2>3
  <2>5. x = x % m
    BY <1>1, <2>2, <2>3, <2>4, OneRemainder
  <2> QED  BY <2>5 DEF x
<1> QED  BY <1>1, <1>2, <1>3 DEF Wrap

\* Adding to what an int made of a count is adding to the count.
LEMMA WrapAdd ==
  ASSUME NEW a \in Int, NEW b \in Int
  PROVE  Wrap(Wrap(a) + b) = Wrap(a + b)
<1> DEFINE m == 2 * IntHalf
           x == a + IntHalf
<1>1. m \in Nat \ {0} /\ IntHalf \in Nat \ {0} /\ x \in Int
  BY HistogramAssumption
<1>2. Wrap(a) + b + IntHalf = (x % m) + b /\ a + b + IntHalf = x + b
  BY <1>1, Division DEF Wrap
<1>3. ((x % m) + b) % m = (x + b) % m
  <2> HIDE DEF m, x
  <2>1. PICK q \in Int, r \in 0 .. m - 1 : x = q * m + r /\ r = x % m
    BY <1>1, Division
  <2>2. r + b \in Int /\ x + b = q * m + (r + b)
    BY <1>1, <2>1
  <2>3. (q * m + (r + b)) % m = (r + b) % m
    BY <1>1, <2>2, SameRemainder
  <2> QED  BY <2>1, <2>2, <2>3
<1> QED  BY <1>2, <1>3 DEF Wrap

LEMMA WrapSum ==
  ASSUME NEW a \in Int, NEW b \in Int
  PROVE  Wrap(Wrap(a) + Wrap(b)) = Wrap(a + b)
<1>1. Wrap(a) \in Int /\ Wrap(b) \in Int
  BY WrapRange, HistogramAssumption
<1>2. Wrap(Wrap(a) + Wrap(b)) = Wrap(a + Wrap(b))
  BY <1>1, WrapAdd
<1>3. a + Wrap(b) = Wrap(b) + a /\ b + a = a + b
  BY <1>1
<1>4. Wrap(Wrap(b) + a) = Wrap(b + a)
  BY <1>1, WrapAdd
<1> QED  BY <1>2, <1>3, <1>4

-----------------------------------------------------------------------------
(* Counting                                                                *)

\* How often bit b is set at these positions, before an int has to hold it.
Times(b, positions) == Cardinality({p \in positions : b \in Content[p[1]][p[2]]})

\* The first k bytes of a file.
Prefix(f, k) == {f} \X (1 .. k)

LEMMA Lengths ==
  ASSUME NEW f \in Files
  PROVE  Len(Content[f]) \in Nat /\ DOMAIN Content[f] = 1 .. Len(Content[f])
<1>1. Content[f] \in Seq(SUBSET Bits)
  BY HistogramAssumption
<1> QED  BY <1>1

\* A file byte by byte.
LEMMA Prefixes ==
  ASSUME NEW f \in Files, NEW k \in Nat
  PROVE  /\ IsFiniteSet(Prefix(f, k)) /\ Cardinality(Prefix(f, k)) = k
         /\ Prefix(f, 0) = {}
         /\ Prefix(f, k + 1) = Prefix(f, k) \cup {<<f, k + 1>>} /\ <<f, k + 1>> \notin Prefix(f, k)
         /\ Prefix(f, Len(Content[f])) = Positions({f})
<1>1. IsFiniteSet(1 .. k) /\ Cardinality(1 .. k) = k
  BY FS_Interval
<1>2. IsFiniteSet({f}) /\ Cardinality({f}) = 1
  BY FS_Singleton
<1>3. IsFiniteSet(Prefix(f, k)) /\ Cardinality(Prefix(f, k)) = k
  BY <1>1, <1>2, FS_Product DEF Prefix
<1>4. Prefix(f, 0) = {}
  BY DEF Prefix
<1>5. 1 .. k + 1 = (1 .. k) \cup {k + 1} /\ k + 1 \notin 1 .. k
  OBVIOUS
<1>6. Prefix(f, k + 1) = Prefix(f, k) \cup {<<f, k + 1>>} /\ <<f, k + 1>> \notin Prefix(f, k)
  BY <1>5 DEF Prefix
<1>7. Prefix(f, Len(Content[f])) = Positions({f})
  BY Lengths DEF Prefix, Positions
<1> QED  BY <1>3, <1>4, <1>6, <1>7

LEMMA PositionsFinite ==
  ASSUME NEW files \in SUBSET Files
  PROVE  IsFiniteSet(files) /\ IsFiniteSet(Positions(files))
<1> DEFINE part == [f \in files |-> {f} \X DOMAIN Content[f]]
           parts == {{f} \X DOMAIN Content[f] : f \in files}
<1>1. IsFiniteSet(files)
  BY HistogramAssumption, FS_Subset
<1>2. part \in Surjection(files, parts)
  BY DEF Surjection
<1>3. IsFiniteSet(parts)
  BY <1>1, <1>2, FS_Surjection
<1>4. ASSUME NEW f \in files
      PROVE  IsFiniteSet({f} \X DOMAIN Content[f])
  <2>1. {f} \X DOMAIN Content[f] = Prefix(f, Len(Content[f])) /\ Len(Content[f]) \in Nat
    BY Lengths DEF Prefix
  <2> QED  BY <2>1, Prefixes
<1> QED  BY <1>1, <1>3, <1>4, FS_UNION DEF Positions

\* A file more, or a set of files in two.
LEMMA PositionsApart ==
  ASSUME NEW files \in SUBSET Files, NEW f \in Files \ files
  PROVE  /\ Positions(files \cup {f}) = Positions(files) \cup Positions({f})
         /\ Positions(files) \cap Positions({f}) = {}
BY DEF Positions

LEMMA NoPositions == Positions({}) = {}
BY DEF Positions

LEMMA TimesFinite ==
  ASSUME NEW b, NEW P, IsFiniteSet(P)
  PROVE  /\ IsFiniteSet({p \in P : b \in Content[p[1]][p[2]]}) /\ Times(b, P) \in Nat
         /\ Times(b, {}) = 0
<1>1. IsFiniteSet({p \in P : b \in Content[p[1]][p[2]]})
  BY FS_Subset
<1>2. {p \in {} : b \in Content[p[1]][p[2]]} = {}
  OBVIOUS
<1> QED  BY <1>1, <1>2, FS_CardinalityType, FS_EmptySet DEF Times

LEMMA TimesType == \A b, P : IsFiniteSet(P) => Times(b, P) \in Nat
BY TimesFinite

\* Disjoint positions are counted apart.
LEMMA TimesUnion ==
  ASSUME NEW b, NEW P, NEW Q, IsFiniteSet(P), IsFiniteSet(Q), P \cap Q = {}
  PROVE  Times(b, P \cup Q) = Times(b, P) + Times(b, Q)
<1> DEFINE S == {p \in P : b \in Content[p[1]][p[2]]}
           T == {p \in Q : b \in Content[p[1]][p[2]]}
<1>1. /\ {p \in P \cup Q : b \in Content[p[1]][p[2]]} = S \cup T
      /\ S \cap T = {}
  OBVIOUS
<1>2. IsFiniteSet(S) /\ IsFiniteSet(T) /\ Cardinality(S) \in Nat /\ Cardinality(T) \in Nat
  BY TimesFinite DEF Times
<1> HIDE DEF S, T
<1>3. Cardinality(S \cup T) = Cardinality(S) + Cardinality(T) - Cardinality(S \cap T)
  BY <1>2, FS_Union
<1>4. Cardinality(S \cap T) = 0
  BY <1>1, FS_EmptySet
<1>5. Cardinality(S \cup T) = Cardinality(S) + Cardinality(T)
  BY <1>2, <1>3, <1>4
<1> QED  BY <1>1, <1>5 DEF Times, S, T

LEMMA TimesNext ==
  ASSUME NEW b, NEW P, IsFiniteSet(P), NEW p, p \notin P
  PROVE  Times(b, P \cup {p}) = Times(b, P) + (IF b \in Content[p[1]][p[2]] THEN 1 ELSE 0)
<1> DEFINE S == {q \in P : b \in Content[q[1]][q[2]]}
           T == {q \in P \cup {p} : b \in Content[q[1]][q[2]]}
<1>1. /\ IsFiniteSet(S) /\ Cardinality(S) \in Nat
      /\ Times(b, P) = Cardinality(S) /\ Times(b, P \cup {p}) = Cardinality(T)
  BY TimesFinite DEF Times
<1>2. CASE b \in Content[p[1]][p[2]]
  <2>1. T = S \cup {p} /\ p \notin S
    BY <1>2
  <2> HIDE DEF S, T
  <2>2. Cardinality(S \cup {p}) = Cardinality(S) + 1
    BY <1>1, <2>1, FS_AddElement
  <2> QED  BY <1>1, <1>2, <2>1, <2>2
<1>3. CASE b \notin Content[p[1]][p[2]]
  <2>1. T = S
    BY <1>3
  <2> HIDE DEF S, T
  <2> QED  BY <1>1, <1>3, <2>1
<1> QED  BY <1>2, <1>3

LEMMA Picture ==
  ASSUME NEW P, IsFiniteSet(P)
  PROVE  /\ PictureOf(P) = [b \in Bits |-> Wrap(Times(b, P))]
         /\ PictureOf(P) \in [Bits -> -IntHalf .. IntHalf - 1]
         /\ PictureOf({}) = ZeroHistogram
<1>1. PictureOf(P) = [b \in Bits |-> Wrap(Times(b, P))]
  BY DEF PictureOf, Times
<1>2. ASSUME NEW b \in Bits
      PROVE  Wrap(Times(b, P)) \in -IntHalf .. IntHalf - 1
  <2>1. Times(b, P) \in Int
    BY TimesType
  <2> QED  BY <2>1, WrapRange
<1>3. Wrap(0) = 0
  BY WrapRange, HistogramAssumption
<1>4. PictureOf({}) = ZeroHistogram
  BY <1>3, TimesFinite, FS_EmptySet DEF PictureOf, Times, ZeroHistogram
<1> QED  BY <1>1, <1>2, <1>4

\* One byte more in a histogram is one position more in the picture.
LEMMA PictureNext ==
  ASSUME NEW P, IsFiniteSet(P), NEW f \in Files, NEW k \in DOMAIN Content[f], <<f, k>> \notin P
  PROVE  UpdateHistogram(PictureOf(P), Content[f][k]) = PictureOf(P \cup {<<f, k>>})
<1>1. ASSUME NEW b \in Bits
      PROVE  (IF b \in Content[f][k] THEN Wrap(PictureOf(P)[b] + 1) ELSE PictureOf(P)[b])
               = Wrap(Times(b, P \cup {<<f, k>>}))
  <2>1. Times(b, P) \in Int /\ PictureOf(P)[b] = Wrap(Times(b, P))
    BY TimesType, Picture
  <2>2. Times(b, P \cup {<<f, k>>}) = Times(b, P) + (IF b \in Content[f][k] THEN 1 ELSE 0)
    <3> DEFINE p == <<f, k>>
    <3>1. p[1] = f /\ p[2] = k /\ p \notin P
      OBVIOUS
    <3> HIDE DEF p
    <3>2. Times(b, P \cup {p}) = Times(b, P) + (IF b \in Content[p[1]][p[2]] THEN 1 ELSE 0)
      BY <3>1, TimesNext
    <3> QED  BY <3>1, <3>2 DEF p
  <2>3. Wrap(Wrap(Times(b, P)) + 1) = Wrap(Times(b, P) + 1)
    BY <2>1, WrapAdd
  <2>4. CASE b \in Content[f][k]
    BY <2>1, <2>2, <2>3, <2>4
  <2>5. CASE b \notin Content[f][k]
    BY <2>1, <2>2, <2>5
  <2> QED  BY <2>4, <2>5
<1>2. IsFiniteSet(P \cup {<<f, k>>})
  BY FS_AddElement
<1>3. PictureOf(P \cup {<<f, k>>}) = [b \in Bits |-> Wrap(Times(b, P \cup {<<f, k>>}))]
  BY <1>2, Picture
<1> QED  BY <1>1, <1>3 DEF UpdateHistogram

-----------------------------------------------------------------------------
(* Histograms                                                              *)

Counters == [Bits -> -IntHalf .. IntHalf - 1]

LEMMA Histograms ==
  ASSUME NEW h \in Counters, NEW g \in Counters, NEW byte
  PROVE  /\ ZeroHistogram \in Counters
         /\ UpdateHistogram(h, byte) \in Counters
         /\ Merged(h, g) \in Counters
<1>1. \A n \in Int : Wrap(n) \in -IntHalf .. IntHalf - 1
  BY WrapRange
<1>2. IntHalf \in Nat \ {0} /\ \A b \in Bits : h[b] \in -IntHalf .. IntHalf - 1
                                         /\ h[b] \in Int /\ g[b] \in Int
  BY HistogramAssumption DEF Counters
<1>3. \A b \in Bits : h[b] + 1 \in Int /\ g[b] + h[b] \in Int
  BY <1>2
<1>4. \A b \in Bits : /\ Wrap(h[b] + 1) \in -IntHalf .. IntHalf - 1
                      /\ Wrap(g[b] + h[b]) \in -IntHalf .. IntHalf - 1
  BY <1>1, <1>3
<1>5. ZeroHistogram \in Counters
  BY <1>2 DEF ZeroHistogram, Counters
<1>6. UpdateHistogram(h, byte) \in Counters
  BY <1>2, <1>4 DEF UpdateHistogram, Counters
<1>7. Merged(h, g) \in Counters
  BY <1>4 DEF Merged, Counters
<1> QED  BY <1>5, <1>6, <1>7

\* A byte is counted in the sum of two histograms when it is in one of them, and a
\* merge leaves the sum as it is.
LEMMA MergeKeeps ==
  ASSUME NEW h \in Counters, NEW g \in Counters, NEW byte
  PROVE  /\ Merged(UpdateHistogram(h, byte), g) = UpdateHistogram(Merged(h, g), byte)
         /\ Merged(ZeroHistogram, Merged(h, g)) = Merged(h, g)
         /\ Merged(ZeroHistogram, g) = g
<1>1. \A b \in Bits : h[b] \in Int /\ g[b] \in Int /\ g[b] \in -IntHalf .. IntHalf - 1
  BY HistogramAssumption DEF Counters
<1>2. ASSUME NEW b \in Bits
      PROVE  Wrap(g[b] + Wrap(h[b] + 1)) = Wrap(Wrap(g[b] + h[b]) + 1)
  <2> SUFFICES ASSUME NEW x \in Int, x = g[b], NEW y \in Int, y = h[b]
               PROVE  Wrap(x + Wrap(y + 1)) = Wrap(Wrap(x + y) + 1)
    BY <1>1
  <2>1. Wrap(y + 1) \in Int
    BY WrapRange, HistogramAssumption
  <2>2. x + Wrap(y + 1) = Wrap(y + 1) + x /\ (y + 1) + x = (x + y) + 1
    BY <2>1
  <2>3. y + 1 \in Int /\ x + y \in Int
    OBVIOUS
  <2>4. Wrap(Wrap(y + 1) + x) = Wrap((y + 1) + x)
    BY <2>3, WrapAdd
  <2>5. Wrap(Wrap(x + y) + 1) = Wrap((x + y) + 1)
    BY <2>3, WrapAdd
  <2> QED  BY <2>2, <2>4, <2>5
<1>3. ASSUME NEW b \in Bits
      PROVE  /\ Wrap(Wrap(g[b] + h[b]) + 0) = Wrap(g[b] + h[b])
             /\ Wrap(g[b] + 0) = g[b]
  <2> SUFFICES ASSUME NEW x \in Int, x = g[b], NEW y \in Int, y = h[b]
               PROVE  Wrap(Wrap(x + y) + 0) = Wrap(x + y) /\ Wrap(x + 0) = x
    BY <1>1
  <2>1. x + y \in Int /\ (x + y) + 0 = x + y /\ x + 0 = x
    OBVIOUS
  <2>2. Wrap(x) = x
    BY <1>1, WrapRange
  <2>3. Wrap(Wrap(x + y) + 0) = Wrap((x + y) + 0)
    BY <2>1, WrapAdd
  <2> QED  BY <2>1, <2>2, <2>3
<1>4. Merged(UpdateHistogram(h, byte), g) = UpdateHistogram(Merged(h, g), byte)
  <2>1. \A b \in Bits :
          Wrap(g[b] + UpdateHistogram(h, byte)[b])
            = IF b \in byte THEN Wrap(Merged(h, g)[b] + 1) ELSE Merged(h, g)[b]
    BY <1>2 DEF UpdateHistogram, Merged
  <2> QED  BY <2>1 DEF UpdateHistogram, Merged
<1>5. Merged(ZeroHistogram, Merged(h, g)) = Merged(h, g)
  BY <1>3 DEF Merged, ZeroHistogram
<1>6. Merged(ZeroHistogram, g) = g
  <2>1. \A b \in Bits : Wrap(g[b] + ZeroHistogram[b]) = g[b]
    BY <1>3 DEF ZeroHistogram
  <2> QED  BY <2>1 DEF Merged, Counters
<1> QED  BY <1>4, <1>5, <1>6

-----------------------------------------------------------------------------
(* fhistogram                                                              *)

\* What is not in the local histogram was merged, and what was merged was drawn
\* when a file is left; nothing was if none could be opened.
Opened == Files \ (unvisited \cup unreadable)

WalkInv ==
  /\ HistTypeOK /\ STypeOK
  /\ unvisited \cap unreadable = {}
  /\ file # NoFile => file \notin unvisited \cup unreadable /\ pos <= Len(Content[file]) /\ ~ended
  /\ file = NoFile =>
       /\ local = ZeroHistogram
       /\ screen = IF Opened = {} THEN NoPicture ELSE global_histogram
  /\ ended => unvisited = {}
  /\ Merged(local, global_histogram) = PictureOf(BytesRead)

\* The bytes read, without and with an open file.
LEMMA WhatWasRead ==
  /\ file = NoFile => BytesRead = Positions(Files \ (unvisited \cup unreadable))
  /\ \A f : file = f /\ f \in Files =>
       BytesRead = Positions(Files \ (unvisited \cup unreadable \cup {f})) \cup Prefix(f, pos)
<1>1. ASSUME file = NoFile
      PROVE  BytesRead = Positions(Files \ (unvisited \cup unreadable))
  <2>1. Files \ (unvisited \cup unreadable \cup {file}) = Files \ (unvisited \cup unreadable)
    BY <1>1, PartialAssumption
  <2> QED  BY <1>1, <2>1 DEF BytesRead
<1>2. ASSUME NEW f \in Files, file = f
      PROVE  BytesRead = Positions(Files \ (unvisited \cup unreadable \cup {f})) \cup Prefix(f, pos)
  BY <1>2, PartialAssumption DEF BytesRead, Prefix
<1> QED  BY <1>1, <1>2

LEMMA WhatWasReadNext ==
  /\ file' = NoFile => BytesRead' = Positions(Files \ (unvisited' \cup unreadable'))
  /\ \A f : file' = f /\ f \in Files =>
       BytesRead' = Positions(Files \ (unvisited' \cup unreadable' \cup {f})) \cup Prefix(f, pos')
<1>1. ASSUME file' = NoFile
      PROVE  BytesRead' = Positions(Files \ (unvisited' \cup unreadable'))
  <2>1. Files \ (unvisited' \cup unreadable' \cup {file'}) = Files \ (unvisited' \cup unreadable')
    BY <1>1, PartialAssumption
  <2> QED  BY <1>1, <2>1 DEF BytesRead
<1>2. ASSUME NEW f \in Files, file' = f
      PROVE  BytesRead' = Positions(Files \ (unvisited' \cup unreadable' \cup {f})) \cup Prefix(f, pos')
  BY <1>2, PartialAssumption DEF BytesRead, Prefix
<1> QED  BY <1>1, <1>2

LEMMA SInitInv == SInit => WalkInv
<1> SUFFICES ASSUME SInit PROVE WalkInv
  OBVIOUS
<1> USE DEF SInit, HistInit
<1>1. IntHalf \in Nat \ {0}
  BY HistogramAssumption
<1>2. 0 \in -IntHalf .. IntHalf - 1
  BY <1>1
<1>3. ZeroHistogram \in Counters
  BY <1>2 DEF ZeroHistogram, Counters
<1>4. Opened = {}
  BY DEF Opened
<1>5. BytesRead = {}
  BY <1>4, WhatWasRead, NoPositions DEF Opened
<1>6. Merged(local, global_histogram) = PictureOf(BytesRead)
  BY <1>3, <1>5, MergeKeeps, Picture, FS_EmptySet
<1>7. HistTypeOK /\ STypeOK
  BY <1>2, <1>3 DEF HistTypeOK, STypeOK, Counters
<1> QED  BY <1>4, <1>6, <1>7 DEF WalkInv

\* The walk: no byte is lost or counted again between fread and the last picture.
LEMMA WalkStep == WalkInv /\ [SNext]_<<shown, walkVars>> => WalkInv'
<1> SUFFICES ASSUME WalkInv, [SNext]_<<shown, walkVars>> PROVE WalkInv'
  OBVIOUS
<1> USE DEF WalkInv
<1>1. /\ global_histogram \in Counters /\ local \in Counters
      /\ screen \in Counters \cup {NoPicture}
      /\ ZeroHistogram \in Counters
      /\ unvisited \subseteq Files /\ unreadable \subseteq Files
      /\ file \in Files \cup {NoFile} /\ NoFile \notin Files
      /\ pos \in Nat /\ i \in -IntHalf .. IntHalf - 1 /\ ended \in BOOLEAN
  BY Histograms, PartialAssumption DEF HistTypeOK, STypeOK, Counters
<1>2. CASE SOpenFails
  <2>1. PICK f \in unvisited : Visit(f) /\ unreadable' = unreadable \cup {f}
    BY <1>2 DEF SOpenFails
  <2>2. /\ UNCHANGED <<global_histogram, screen, file, pos, local, i, ended>>
        /\ file = NoFile /\ ~ended /\ unvisited' = unvisited \ {f} /\ f \in Files
    BY <1>1, <1>2, <2>1 DEF SOpenFails, Visit
  <2>3. unvisited' \cup unreadable' = unvisited \cup unreadable
    BY <2>1, <2>2
  <2>4. BytesRead' = BytesRead
    BY <2>2, <2>3, WhatWasRead, WhatWasReadNext
  <2>5. (HistTypeOK /\ STypeOK)'
    BY <1>1, <2>1, <2>2 DEF HistTypeOK, STypeOK, Counters
  <2>6. (Merged(local, global_histogram) = PictureOf(BytesRead))'
    BY <2>2, <2>4 DEF Merged, PictureOf
  <2>7. Opened' = Opened
    BY <2>3 DEF Opened
  <2> QED  BY <2>1, <2>2, <2>5, <2>6, <2>7
<1>3. CASE SOpen
  <2>1. PICK f \in unvisited : Visit(f) /\ file' = f
    BY <1>3 DEF SOpen
  <2>2. /\ UNCHANGED <<shown, ended>> /\ UNCHANGED <<global_histogram, screen, unreadable>>
        /\ pos' = 0 /\ local' = ZeroHistogram /\ i' = 0
        /\ file = NoFile /\ ~ended /\ unvisited' = unvisited \ {f} /\ f \in Files
    BY <1>1, <1>3, <2>1 DEF SOpen, Visit, shown
  <2>3. unvisited' \cup unreadable' \cup {f} = unvisited \cup unreadable
    BY <2>1, <2>2
  <2>4. BytesRead' = BytesRead
    <3>1. BytesRead' = Positions(Files \ (unvisited' \cup unreadable' \cup {f})) \cup Prefix(f, 0)
      BY <2>1, <2>2, WhatWasReadNext
    <3>2. Prefix(f, 0) = {}
      BY DEF Prefix
    <3> QED  BY <2>2, <2>3, <3>1, <3>2, WhatWasRead
  <2>5. 0 \in -IntHalf .. IntHalf - 1 /\ Len(Content[f]) \in Nat
    BY <2>2, HistogramAssumption, Lengths
  <2>6. (HistTypeOK /\ STypeOK)'
    BY <1>1, <2>1, <2>2, <2>5 DEF HistTypeOK, STypeOK, Counters
  <2>7. (Merged(local, global_histogram) = PictureOf(BytesRead))'
    BY <2>2, <2>4 DEF Merged, PictureOf
  <2>8. pos' <= Len(Content[file'])
    BY <2>1, <2>2, <2>5
  <2> QED  BY <1>1, <2>1, <2>2, <2>6, <2>7, <2>8
<1>4. CASE ReadByte
  <2>1. PICK f \in Files : f = file
    BY <1>1, <1>4 DEF ReadByte
  <2> DEFINE byte    == Content[f][pos + 1]
             updated == UpdateHistogram(local, byte)
             total   == Merged(local, global_histogram)
             done    == Files \ (unvisited \cup unreadable \cup {f})
  <2>2. /\ pos < Len(Content[f]) /\ pos' = pos + 1 /\ i' = Wrap(i + 1)
        /\ \/ MergeAndDraw(updated)
           \/ local' = updated /\ UNCHANGED shown
        /\ UNCHANGED <<unvisited, file, ended>> /\ file' = f
    BY <1>4, <2>1 DEF ReadByte
  <2>3. unreadable' = unreadable
    BY <2>2 DEF MergeAndDraw, shown
  <2>4. updated \in Counters /\ Merged(updated, global_histogram) = UpdateHistogram(total, byte)
    BY <1>1, Histograms, MergeKeeps
  <2>5. /\ Merged(local', global_histogram') = UpdateHistogram(total, byte)
        /\ local' \in Counters /\ global_histogram' \in Counters
        /\ screen' \in Counters \cup {NoPicture}
    <3>1. CASE MergeAndDraw(updated)
      <4>1. /\ global_histogram' = Merged(updated, global_histogram)
            /\ local' = ZeroHistogram /\ screen' = global_histogram'
        BY <3>1 DEF MergeAndDraw, Emptied
      <4> QED  BY <1>1, <2>4, <4>1, MergeKeeps, Histograms
    <3>2. CASE local' = updated /\ UNCHANGED shown
      BY <1>1, <2>4, <3>2 DEF shown
    <3> QED  BY <2>2, <3>1, <3>2
  <2>6. /\ BytesRead = Positions(done) \cup Prefix(f, pos)
        /\ BytesRead' = Positions(done) \cup Prefix(f, pos + 1)
    BY <2>1, <2>2, <2>3, WhatWasRead, WhatWasReadNext
  <2>7. BytesRead' = BytesRead \cup {<<f, pos + 1>>} /\ <<f, pos + 1>> \notin BytesRead
    <3>1. <<f, pos + 1>> \notin Positions(done)
      BY DEF Positions
    <3> QED  BY <1>1, <2>6, <3>1, Prefixes
  <2>8. IsFiniteSet(BytesRead)
    <3>1. IsFiniteSet(Positions(done)) /\ IsFiniteSet(Prefix(f, pos))
      BY <1>1, PositionsFinite, Prefixes
    <3> QED  BY <2>6, <3>1, FS_Union
  <2>9. pos + 1 \in DOMAIN Content[f] /\ pos + 1 \in Nat /\ pos + 1 <= Len(Content[f])
    BY <1>1, <2>2, Lengths
  <2>10. UpdateHistogram(total, byte) = PictureOf(BytesRead')
    BY <2>7, <2>8, <2>9, PictureNext
  <2>11. i' \in -IntHalf .. IntHalf - 1
    BY <1>1, <2>2, WrapRange, HistogramAssumption
  <2>12. (HistTypeOK /\ STypeOK)'
    BY <1>1, <2>1, <2>2, <2>3, <2>5, <2>9, <2>11 DEF HistTypeOK, STypeOK, Counters
  <2>13. (Merged(local, global_histogram) = PictureOf(BytesRead))'
    BY <2>5, <2>10 DEF Merged, PictureOf
  <2> QED  BY <1>1, <2>1, <2>2, <2>3, <2>9, <2>12, <2>13
<1>5. CASE EndOfBytes
  <2>1. PICK f \in Files : f = file
    BY <1>1, <1>5 DEF EndOfBytes
  <2>2. /\ pos = Len(Content[f]) /\ file' = NoFile
        /\ global_histogram' = Merged(local, global_histogram)
        /\ local' = ZeroHistogram /\ screen' = global_histogram'
        /\ UNCHANGED <<unreadable, unvisited, pos, i, ended>>
        /\ f \notin unvisited \cup unreadable /\ ~ended
    BY <1>1, <1>5, <2>1 DEF EndOfBytes, MergeAndDraw, Emptied
  <2> DEFINE done == Files \ (unvisited \cup unreadable \cup {f})
  <2>3. done \cup {f} = Files \ (unvisited' \cup unreadable')
    BY <2>2
  <2>4. Positions(done \cup {f}) = Positions(done) \cup Positions({f})
    BY PositionsApart
  <2>5. BytesRead' = BytesRead
    <3>1. BytesRead = Positions(done) \cup Positions({f})
      BY <1>1, <2>1, <2>2, WhatWasRead, Prefixes
    <3>2. BytesRead' = Positions(done \cup {f})
      BY <2>2, <2>3, WhatWasReadNext
    <3> QED  BY <2>4, <3>1, <3>2
  <2>6. /\ Merged(local', global_histogram') = Merged(local, global_histogram)
        /\ global_histogram' \in Counters
    BY <1>1, <2>2, MergeKeeps, Histograms
  <2>7. (HistTypeOK /\ STypeOK)'
    BY <1>1, <2>2, <2>6 DEF HistTypeOK, STypeOK, Counters
  <2>8. (Merged(local, global_histogram) = PictureOf(BytesRead))'
    BY <2>5, <2>6 DEF Merged, PictureOf
  <2>9. f \in Opened'
    BY <2>1, <2>2 DEF Opened
  <2> QED  BY <2>2, <2>7, <2>8, <2>9
<1>6. CASE EndOfWalk \/ UNCHANGED <<shown, walkVars>>
  <2>1. /\ UNCHANGED <<global_histogram, screen, unreadable, unvisited, file, pos, local, i>>
        /\ \/ ended' = ended
           \/ ended' = TRUE /\ file = NoFile /\ unvisited = {}
    BY <1>6 DEF EndOfWalk, walkVars, shown
  <2>2. BytesRead' = BytesRead
    BY <2>1 DEF BytesRead, Positions
  <2>3. (Merged(local, global_histogram) = PictureOf(BytesRead))'
    BY <2>1, <2>2 DEF Merged, PictureOf
  <2>4. /\ ended' \in BOOLEAN
        /\ ended' => unvisited' = {}
        /\ file' # NoFile => ~ended'
    <3>1. CASE ended' = ended
      BY <1>1, <2>1, <3>1, Zenon
    <3>2. CASE ended' = TRUE /\ file = NoFile /\ unvisited = {}
      BY <2>1, <3>2
    <3> QED  BY <2>1, <3>1, <3>2
  <2>5. (HistTypeOK /\ STypeOK)'
    BY <1>1, <2>1, <2>4 DEF HistTypeOK, STypeOK, Counters
  <2>6. Opened' = Opened
    BY <2>1 DEF Opened
  <2> QED  BY <2>1, <2>3, <2>4, <2>5, <2>6
<1> QED  BY <1>2, <1>3, <1>4, <1>5, <1>6 DEF SNext

-----------------------------------------------------------------------------
(* fhistogram-mt                                                           *)

\* Worker w has merged bin b of its file; behind the last bin, that is to have
\* added its bytes to global_bytes.
HasMerged(w, b) == fpc[w] \in {"draw", "free"} \/ (fpc[w] = "merge" /\ b < bin[w])

\* The files whose bin b is in global_histogram.  They differ between the bins as
\* long as a worker merges.
MergedInto(b) ==
  {f \in Files \ unreadable :
     \/ finished[f] = 1
     \/ \E w \in Consumers : data[w] = f /\ HasMerged(w, b)}

LastBin == Cardinality(Bits)

\* What the statement a worker is at says of its file and its local variables.
CountFits(w) ==
  /\ fpc[w] # "none" <=> wstage[w] = "work"
  /\ fpc[w] \in {"merge", "draw"} <=> histogram_mutex = w
  /\ fpc[w] = "fopen" => local_histogram[w] = ZeroHistogram /\ local_bytes[w] = 0
  /\ fpc[w] \in {"fopen", "fread", "lock", "merge", "draw"} => data[w] \notin unreadable
  /\ fpc[w] = "fread" =>
       /\ local_bytes[w] <= Len(Content[data[w]])
       /\ local_histogram[w] = PictureOf(Prefix(data[w], local_bytes[w]))
  /\ fpc[w] \in {"lock", "merge"} => local_bytes[w] = Len(Content[data[w]])
  /\ fpc[w] = "lock" => local_histogram[w] = PictureOf(Positions({data[w]}))
  /\ fpc[w] = "merge" =>
       \A b \in Bits :
         local_histogram[w][b] = IF b < bin[w] THEN 0 ELSE PictureOf(Positions({data[w]}))[b]

\* The globals tell of the files merged into them.
GlobalsFit ==
  /\ \A b \in Bits : global_histogram[b] = Wrap(Times(b, Positions(MergedInto(b))))
  /\ draws * Threshold + global_bytes = Cardinality(Positions(MergedInto(LastBin)))
  /\ (\A w \in Consumers : fpc[w] # "draw") => global_bytes < Threshold

\* A file that could not be opened is done with, or about to be.
SkippedFit ==
  \A f \in unreadable :
    finished[f] = 1 \/ \E w \in Consumers : data[w] = f /\ fpc[w] = "free"

HistInv ==
  /\ PoolInv
  /\ HistTypeOK /\ HTypeOK
  /\ \A w \in Consumers : CountFits(w)
  /\ GlobalsFit
  /\ SkippedFit
  /\ DrawnWhole
  /\ mstage = "exit" => screen = PictureOf(Positions(Files \ unreadable))

LEMMA HStepIsPoolStep == [HNext]_<<poolAll, mtVars, shown>> => [PoolNext]_<<vars, poolVars>>
BY DEF HNext, PoolOnly, JoinAndDraw, FileStep, PoolNext, MainStep, poolAll, StartFile, OpenFails,
       OpenFile, CountByte, CloseFile, Lock, MergeBin, AddBytes, Draw, Unlock, FreePath

\* The bins, and one behind them.
LEMMA Bins ==
  /\ LastBin \in Nat /\ LastBin \notin Bits
  /\ \A b \in Bits : b \in Nat /\ b < LastBin
  /\ \A b \in 0 .. LastBin : b \notin Bits => b = LastBin
<1>1. IsFiniteSet(Bits) /\ Bits = 0 .. LastBin - 1
  BY HistogramAssumption DEF LastBin
<1>2. LastBin \in Nat
  BY <1>1, FS_CardinalityType DEF LastBin
<1> HIDE DEF LastBin
<1> QED  BY <1>1, <1>2

LEMMA HInitInv == HInit => HistInv
<1> SUFFICES ASSUME HInit PROVE HistInv
  OBVIOUS
<1> USE DEF HInit, HistInit
<1>1. PoolInv
  BY InitPoolInv
<1>2. IntHalf \in Nat \ {0} /\ 0 \in -IntHalf .. IntHalf - 1 /\ 0 \in 0 .. LastBin
  BY HistogramAssumption, Bins
<1>3. ZeroHistogram \in Counters
  BY <1>2 DEF ZeroHistogram, Counters
<1>4. HistTypeOK
  BY <1>3 DEF HistTypeOK, Counters
<1>5. HTypeOK
  BY <1>2, <1>3 DEF HTypeOK, Counters, LastBin
<1>6. \A w \in Consumers : CountFits(w)
  <2>1. \A w \in Consumers : w # NoThread
    BY ThresholdAssumption DEF Callers
  <2> QED  BY <2>1 DEF CountFits, PoolInit
<1>7. \A b : MergedInto(b) = {}
  BY ThresholdAssumption DEF MergedInto, HasMerged, PoolInit
<1>8. GlobalsFit
  <2>1. \A b \in Bits : Wrap(Times(b, {})) = 0
    BY TimesFinite, FS_EmptySet, WrapRange, <1>2
  <2>2. Cardinality({}) = 0
    BY FS_EmptySet
  <2>3. Threshold \in Nat \ {0}
    BY ThresholdAssumption
  <2> QED  BY <1>7, <2>1, <2>2, <2>3, NoPositions DEF GlobalsFit, ZeroHistogram
<1>9. DrawnWhole
  BY DEF DrawnWhole
<1> QED  BY <1>1, <1>4, <1>5, <1>6, <1>8, <1>9 DEF HistInv, SkippedFit, PoolInit

\* While nobody merges, the histogram is that of the files merged.
LEMMA NobodyMerges ==
  ASSUME HistInv, \A w \in Consumers : fpc[w] # "merge"
  PROVE  /\ global_histogram = PictureOf(Positions(MergedInto(LastBin)))
         /\ MergedInto(LastBin) \in SUBSET (Jobs \ unreadable)
<1>1. MergedInto(LastBin) \in SUBSET (Jobs \ unreadable)
  BY ThresholdAssumption DEF MergedInto
<1>2. \A b : MergedInto(b) = MergedInto(LastBin)
  BY DEF MergedInto, HasMerged
<1>3. IsFiniteSet(Positions(MergedInto(LastBin)))
  BY <1>1, PositionsFinite, ThresholdAssumption
<1>4. \A b \in Bits : global_histogram[b] = Wrap(Times(b, Positions(MergedInto(LastBin))))
  BY <1>2 DEF HistInv, GlobalsFit
<1>5. global_histogram \in [Bits -> -IntHalf .. IntHalf - 1]
  BY DEF HistInv, HistTypeOK
<1> QED  BY <1>1, <1>3, <1>4, <1>5, Picture

\* A worker that is at its file has it alone, and main is still there.
LEMMA AtFile ==
  ASSUME HistInv, NEW w \in Consumers, fpc[w] # "none"
  PROVE  /\ wstage[w] = "work" /\ mstage # "exit"
         /\ data[w] \in Files /\ finished[data[w]] = 0
         /\ \A v \in Consumers \ {w} : fpc[v] # "none" => data[v] # data[w]
<1>1. \A v \in Consumers : fpc[v] # "none" <=> wstage[v] = "work"
  BY DEF HistInv, CountFits
<1>2. /\ data[w] \in Jobs /\ finished[data[w]] = 0
      /\ \A v \in Consumers \ {w} : Holds(v) => data[v] # data[w]
  BY <1>1, InHandOnly DEF HistInv, Holds
<1>3. mstage # "exit"
  BY <1>1 DEF HistInv, PoolInv, MainFits, AllGone
<1> QED  BY <1>1, <1>2, <1>3, ThresholdAssumption DEF Holds

\* A worker that a step does not concern.
LEMMA StillFits ==
  ASSUME NEW v \in Consumers, CountFits(v),
         wstage'[v] = "work" <=> wstage[v] = "work",
         fpc'[v] = fpc[v], bin'[v] = bin[v],
         local_histogram'[v] = local_histogram[v], local_bytes'[v] = local_bytes[v],
         histogram_mutex' = v <=> histogram_mutex = v,
         wstage[v] = "work" => /\ data'[v] = data[v]
                               /\ data[v] \in unreadable' <=> data[v] \in unreadable
  PROVE  CountFits(v)'
BY DEF CountFits

\* Steps that merge nothing.
LEMMA QuietKeeps ==
  ASSUME HistInv, PoolInv', HistTypeOK', HTypeOK', \A v \in Consumers : CountFits(v)',
         UNCHANGED <<global_histogram, unreadable, finished>>,
         \A v \in Consumers : /\ fpc[v] # "none" => data'[v] = data[v]
                              /\ fpc[v] = "free" => fpc'[v] = "free",
         \A v \in Consumers, b \in 0 .. LastBin : HasMerged(v, b)' <=> HasMerged(v, b),
         draws' * Threshold + global_bytes' = draws * Threshold + global_bytes,
         (\A v \in Consumers : fpc'[v] # "draw") => global_bytes' < Threshold,
         DrawnWhole',
         mstage' = "exit" => screen' = PictureOf(Positions(Files \ unreadable'))
  PROVE  HistInv'
<1>1. ASSUME NEW b \in 0 .. LastBin
      PROVE  MergedInto(b)' = MergedInto(b)
  <2>1. \A v \in Consumers : HasMerged(v, b) => fpc[v] # "none"
    BY DEF HasMerged
  <2> QED  BY <2>1 DEF MergedInto
<1>2. GlobalsFit'
  <2>1. \A b \in Bits : b \in 0 .. LastBin
    BY Bins
  <2>2. LastBin \in 0 .. LastBin
    BY Bins
  <2>3. \A b \in Bits : (global_histogram[b] = Wrap(Times(b, Positions(MergedInto(b)))))'
    <3> TAKE b \in Bits
    <3>1. MergedInto(b)' = MergedInto(b)
      BY <1>1, <2>1
    <3> QED  BY <3>1 DEF HistInv, GlobalsFit, Times, Positions
  <2>4. (draws * Threshold + global_bytes = Cardinality(Positions(MergedInto(LastBin))))'
    <3>1. MergedInto(LastBin)' = MergedInto(LastBin)
      BY <1>1, <2>2 DEF LastBin
    <3> QED  BY <3>1 DEF HistInv, GlobalsFit, Positions
  <2> QED  BY <2>3, <2>4 DEF GlobalsFit
<1>3. SkippedFit'
  BY DEF HistInv, SkippedFit
<1> QED  BY <1>2, <1>3 DEF HistInv

\* Steps of the pool that start and end no file.
LEMMA PoolOnlyKeeps ==
  ASSUME HistInv, PoolInv', UNCHANGED <<mtVars, shown>>, mstage' = "exit" => mstage = "exit",
         finished' = finished,
         \A w \in Consumers : /\ wstage'[w] = "work" <=> wstage[w] = "work"
                              /\ wstage[w] = "work" => data'[w] = data[w]
  PROVE  HistInv'
<1> USE DEF HistInv
<1>1. /\ UNCHANGED <<global_histogram, screen, unreadable>>
      /\ UNCHANGED <<fpc, local_histogram, local_bytes, bin, global_bytes, histogram_mutex, draws>>
  BY DEF mtVars, fileVars, shown
<1>2. (HistTypeOK /\ HTypeOK)'
  BY <1>1 DEF HistTypeOK, HTypeOK
<1>3. \A v \in Consumers : CountFits(v)'
  BY <1>1, StillFits
<1>4. \A v \in Consumers, b \in 0 .. LastBin : HasMerged(v, b)' <=> HasMerged(v, b)
  BY <1>1 DEF HasMerged
<1>5. \A v \in Consumers : fpc[v] # "none" => data'[v] = data[v]
  BY DEF CountFits
<1>6. DrawnWhole'
  BY <1>1 DEF DrawnWhole, PictureOf, Positions
<1>7. (\A v \in Consumers : fpc'[v] # "draw") => global_bytes' < Threshold
  BY <1>1 DEF GlobalsFit
<1>8. mstage' = "exit" => screen' = PictureOf(Positions(Files \ unreadable'))
  BY <1>1 DEF PictureOf, Positions
<1> QED  BY <1>1, <1>2, <1>3, <1>4, <1>5, <1>6, <1>7, <1>8, QuietKeeps

\* The last picture is of all files that could be opened: the workers are gone, and
\* none of them left a file behind.
LEMMA JoinKeeps ==
  ASSUME HistInv, PoolInv', JoinAndDraw
  PROVE  HistInv'
<1> USE DEF HistInv
<1>1. /\ UNCHANGED <<global_histogram, unreadable, data, wstage, finished>>
      /\ UNCHANGED <<fpc, local_histogram, local_bytes, bin, global_bytes, histogram_mutex, draws>>
      /\ AllGone /\ mstage' = "exit" /\ screen' = global_histogram
  BY DEF JoinAndDraw, Join, mtVars, fileVars, vars
<1>2. \A v \in Consumers : fpc[v] = "none"
  BY <1>1 DEF AllGone, CountFits, HTypeOK
<1>3. \A f \in Files : finished[f] = 1
  <2>1. DoneAtExit'
    <3>1. PoolInv' => DoneAtExit'
      BY InvDoneAtExit, PTL
    <3> QED  BY <3>1
  <2> QED  BY <1>1, <2>1, ThresholdAssumption DEF DoneAtExit
<1>4. MergedInto(LastBin) = Files \ unreadable
  BY <1>3 DEF MergedInto
<1>5. screen' = PictureOf(Positions(Files \ unreadable'))
  BY <1>1, <1>2, <1>4, NobodyMerges
<1>6. (HistTypeOK /\ HTypeOK)'
  BY <1>1 DEF HistTypeOK, HTypeOK
<1>7. \A v \in Consumers : CountFits(v)'
  BY <1>1, StillFits
<1>8. \A v \in Consumers, b \in 0 .. LastBin : HasMerged(v, b)' <=> HasMerged(v, b)
  BY <1>1 DEF HasMerged
<1>9. DrawnWhole'
  <2>1. Files \ unreadable' \in SUBSET Jobs
    BY ThresholdAssumption
  <2> QED  BY <1>5, <2>1 DEF DrawnWhole, PictureOf, Positions
<1>10. (\A v \in Consumers : fpc'[v] # "draw") => global_bytes' < Threshold
  BY <1>1 DEF GlobalsFit
<1> QED  BY <1>1, <1>5, <1>6, <1>7, <1>8, <1>9, <1>10, QuietKeeps

\* A worker takes a file nobody has opened or failed to open.
LEMMA StartKeeps ==
  ASSUME HistInv, PoolInv', NEW w \in Consumers, StartFile(w)
  PROVE  HistInv'
<1> USE DEF HistInv
<1>1. /\ UNCHANGED <<global_histogram, screen, unreadable, data, finished, mstage>>
      /\ UNCHANGED <<bin, global_bytes, histogram_mutex, draws>>
      /\ wstage[w] = "pop" /\ ret[w] = 0 /\ phase[w] = "idle"
      /\ wstage' = [wstage EXCEPT ![w] = "work"]
      /\ fpc[w] = "none" /\ fpc' = [fpc EXCEPT ![w] = "fopen"]
      /\ local_histogram' = [local_histogram EXCEPT ![w] = ZeroHistogram]
      /\ local_bytes' = [local_bytes EXCEPT ![w] = 0]
  BY DEF StartFile, Take, Popped, Step, vars, shown
<1>2. /\ wstage \in [Consumers -> {"ready", "pop", "work", "exited", "none", "failed"}]
      /\ mstage # "exit"
  BY <1>1 DEF PoolInv, PoolTypes, MainFits, AllGone
<1>3. ZeroHistogram \in Counters
  BY Histograms DEF HistTypeOK, Counters
<1>4. (HistTypeOK /\ HTypeOK)'
  BY <1>1, <1>3 DEF HistTypeOK, HTypeOK, Counters
<1>5. /\ fpc'[w] = "fopen" /\ local_histogram'[w] = ZeroHistogram /\ local_bytes'[w] = 0
      /\ wstage'[w] = "work"
      /\ \A v \in Consumers \ {w} :
           /\ fpc'[v] = fpc[v] /\ wstage'[v] = wstage[v]
           /\ local_histogram'[v] = local_histogram[v] /\ local_bytes'[v] = local_bytes[v]
  BY <1>1, <1>2 DEF HTypeOK
<1>6. data[w] \notin unreadable
  <2>1. Holds(w)
    BY <1>1 DEF Holds
  <2>2. finished[data[w]] = 0 /\ \A v \in Consumers \ {w} : Holds(v) => data[v] # data[w]
    BY <2>1, InHandOnly
  <2>3. \A v \in Consumers : fpc[v] = "free" => Holds(v) /\ v # w
    BY <1>1 DEF CountFits, Holds
  <2> QED  BY <2>2, <2>3 DEF SkippedFit
<1>7. histogram_mutex # w
  BY <1>1 DEF CountFits
<1>8. CountFits(w)'
  BY <1>1, <1>5, <1>6, <1>7 DEF CountFits
<1>9. \A v \in Consumers \ {w} : CountFits(v)'
  BY <1>1, <1>5, StillFits
<1>10. \A v \in Consumers, b \in 0 .. LastBin : HasMerged(v, b)' <=> HasMerged(v, b)
  BY <1>1, <1>5 DEF HasMerged
<1>11. DrawnWhole'
  BY <1>1 DEF DrawnWhole, PictureOf, Positions
<1>12. (\A v \in Consumers : fpc'[v] # "draw") => global_bytes' < Threshold
  BY <1>1, <1>5 DEF GlobalsFit
<1> QED  BY <1>1, <1>2, <1>4, <1>5, <1>8, <1>9, <1>10, <1>11, <1>12, QuietKeeps

\* Reading touches nothing but the worker's own histogram, and that is always the
\* one of the bytes read.
LEMMA ReadKeeps ==
  ASSUME HistInv, PoolInv', NEW w \in Consumers, OpenFile(w) \/ CountByte(w) \/ CloseFile(w)
  PROVE  HistInv'
<1> USE DEF HistInv
<1>1. /\ UNCHANGED <<global_histogram, screen, unreadable, data, finished, mstage, wstage>>
      /\ UNCHANGED <<bin, global_bytes, histogram_mutex, draws>>
      /\ fpc[w] \in {"fopen", "fread"}
  BY DEF OpenFile, CountByte, CloseFile, Step, poolAll, vars, poolVars, shown, fileVars
<1>2. /\ wstage[w] = "work" /\ mstage # "exit" /\ data[w] \in Files /\ data[w] \notin unreadable
      /\ histogram_mutex # w
  BY <1>1, AtFile DEF CountFits
<1> SUFFICES ASSUME NEW f \in Files, f = data[w],
                    NEW n \in Nat, n = local_bytes[w],
                    NEW h \in Counters, h = local_histogram[w]
             PROVE  HistInv'
  BY <1>2 DEF HTypeOK, Counters
<1>3. CountFits(w)' /\ HTypeOK'
      /\ fpc'[w] \in {"fread", "lock"}
      /\ \A v \in Consumers \ {w} :
           /\ fpc'[v] = fpc[v]
           /\ local_histogram'[v] = local_histogram[v] /\ local_bytes'[v] = local_bytes[v]
  <2>1. CASE OpenFile(w)
    <3>1. /\ fpc[w] = "fopen" /\ fpc' = [fpc EXCEPT ![w] = "fread"]
          /\ UNCHANGED <<local_histogram, local_bytes>>
      BY <2>1 DEF OpenFile, Step, fileVars
    <3>2. h = PictureOf(Prefix(f, n)) /\ n <= Len(Content[f])
      <4>1. h = ZeroHistogram /\ n = 0
        BY <3>1 DEF CountFits
      <4>2. Prefix(f, 0) = {} /\ 0 <= Len(Content[f])
        BY Lengths DEF Prefix
      <4> QED  BY <4>1, <4>2, Picture, FS_EmptySet
    <3>3. HTypeOK'
      BY <1>1, <3>1 DEF HTypeOK
    <3>4. fpc'[w] = "fread" /\ \A v \in Consumers \ {w} : fpc'[v] = fpc[v]
      BY <3>1 DEF HTypeOK
    <3> QED  BY <1>1, <1>2, <3>1, <3>2, <3>3, <3>4 DEF CountFits, PictureOf, Prefix
  <2>2. CASE CountByte(w)
    <3> DEFINE more == UpdateHistogram(h, Content[f][n + 1])
    <3>1. /\ fpc[w] = "fread" /\ fpc' = [fpc EXCEPT ![w] = "fread"] /\ n < Len(Content[f])
          /\ local_histogram' = [local_histogram EXCEPT ![w] = more]
          /\ local_bytes' = [local_bytes EXCEPT ![w] = n + 1]
      BY <2>2 DEF CountByte, Step, HTypeOK
    <3>2. n + 1 \in DOMAIN Content[f] /\ n + 1 \in Nat /\ n + 1 <= Len(Content[f])
      BY <3>1, Lengths
    <3>3. h = PictureOf(Prefix(f, n))
      BY <3>1 DEF CountFits
    <3>4. /\ IsFiniteSet(Prefix(f, n)) /\ <<f, n + 1>> \notin Prefix(f, n)
          /\ Prefix(f, n + 1) = Prefix(f, n) \cup {<<f, n + 1>>}
      BY Prefixes
    <3>5. more = PictureOf(Prefix(f, n + 1))
      BY <3>2, <3>3, <3>4, PictureNext
    <3>6. more \in Counters
      BY Histograms
    <3> HIDE DEF more
    <3>7. HTypeOK'
      BY <1>1, <3>1, <3>2, <3>6 DEF HTypeOK, Counters
    <3>8. /\ fpc'[w] = "fread" /\ local_histogram'[w] = more /\ local_bytes'[w] = n + 1
          /\ \A v \in Consumers \ {w} :
               /\ fpc'[v] = fpc[v]
               /\ local_histogram'[v] = local_histogram[v] /\ local_bytes'[v] = local_bytes[v]
      BY <3>1 DEF HTypeOK
    <3>9. CountFits(w)'
      BY <1>1, <1>2, <3>2, <3>5, <3>8 DEF CountFits, PictureOf, Prefix
    <3> QED  BY <3>7, <3>8, <3>9
  <2>3. CASE CloseFile(w)
    <3>1. /\ fpc[w] = "fread" /\ fpc' = [fpc EXCEPT ![w] = "lock"] /\ n = Len(Content[f])
          /\ UNCHANGED <<local_histogram, local_bytes>>
      BY <2>3 DEF CloseFile, Step, fileVars
    <3>2. h = PictureOf(Positions({f}))
      <4>1. h = PictureOf(Prefix(f, n))
        BY <3>1 DEF CountFits
      <4> QED  BY <3>1, <4>1, Prefixes
    <3>3. HTypeOK'
      BY <1>1, <3>1 DEF HTypeOK
    <3>4. fpc'[w] = "lock" /\ \A v \in Consumers \ {w} : fpc'[v] = fpc[v]
      BY <3>1 DEF HTypeOK
    <3> QED  BY <1>1, <1>2, <3>1, <3>2, <3>3, <3>4 DEF CountFits, PictureOf, Positions
  <2> QED  BY <2>1, <2>2, <2>3
<1>4. HistTypeOK'
  BY <1>1 DEF HistTypeOK
<1>5. \A v \in Consumers \ {w} : CountFits(v)'
  BY <1>1, <1>3, StillFits
<1>6. \A v \in Consumers, b \in 0 .. LastBin : HasMerged(v, b)' <=> HasMerged(v, b)
  BY <1>1, <1>3 DEF HasMerged
<1>7. DrawnWhole'
  BY <1>1 DEF DrawnWhole, PictureOf, Positions
<1>8. (\A v \in Consumers : fpc'[v] # "draw") => global_bytes' < Threshold
  BY <1>1, <1>3 DEF GlobalsFit
<1> QED  BY <1>1, <1>2, <1>3, <1>4, <1>5, <1>6, <1>7, <1>8, QuietKeeps

\* histogram_mutex is taken before the first bin and given back behind the last
\* picture that is due.
LEMMA LockKeeps ==
  ASSUME HistInv, PoolInv', NEW w \in Consumers, Lock(w)
  PROVE  HistInv'
<1> USE DEF HistInv
<1>1. /\ UNCHANGED <<global_histogram, screen, unreadable, data, finished, mstage, wstage>>
      /\ UNCHANGED <<local_histogram, local_bytes, global_bytes, draws>>
      /\ fpc[w] = "lock" /\ fpc' = [fpc EXCEPT ![w] = "merge"]
      /\ bin' = [bin EXCEPT ![w] = 0]
      /\ histogram_mutex = NoThread /\ histogram_mutex' = w
  BY DEF Lock, Lockable, Step, poolAll, vars, poolVars, shown
<1>2. wstage[w] = "work" /\ mstage # "exit" /\ data[w] \in Files /\ data[w] \notin unreadable
  BY <1>1, AtFile DEF CountFits
<1>3. /\ fpc'[w] = "merge" /\ bin'[w] = 0
      /\ \A v \in Consumers \ {w} : fpc'[v] = fpc[v] /\ bin'[v] = bin[v]
  BY <1>1 DEF HTypeOK
<1>4. 0 \in 0 .. LastBin /\ \A b \in 0 .. LastBin : ~(b < 0)
  BY Bins
<1>5. (HistTypeOK /\ HTypeOK)'
  BY <1>1, <1>4 DEF HistTypeOK, HTypeOK, LastBin
<1>6. CountFits(w)'
  <2>1. \A b \in Bits : ~(b < 0)
    BY Bins
  <2> QED  BY <1>1, <1>2, <1>3, <2>1 DEF CountFits, PictureOf, Positions
<1>7. \A v \in Consumers \ {w} : CountFits(v)'
  <2>1. \A v \in Consumers : v # NoThread
    BY ThresholdAssumption DEF Callers
  <2> QED  BY <1>1, <1>3, <2>1, StillFits
<1>8. \A v \in Consumers, b \in 0 .. LastBin : HasMerged(v, b)' <=> HasMerged(v, b)
  BY <1>1, <1>3, <1>4 DEF HasMerged
<1>9. DrawnWhole'
  BY <1>1 DEF DrawnWhole, PictureOf, Positions
<1>10. (\A v \in Consumers : fpc'[v] # "draw") => global_bytes' < Threshold
  BY <1>1, <1>3 DEF GlobalsFit
<1> QED  BY <1>1, <1>2, <1>3, <1>5, <1>6, <1>7, <1>8, <1>9, <1>10, QuietKeeps

LEMMA UnlockKeeps ==
  ASSUME HistInv, PoolInv', NEW w \in Consumers, Unlock(w)
  PROVE  HistInv'
<1> USE DEF HistInv
<1>1. /\ UNCHANGED <<global_histogram, screen, unreadable, data, finished, mstage, wstage>>
      /\ UNCHANGED <<local_histogram, local_bytes, bin, global_bytes, draws>>
      /\ fpc[w] = "draw" /\ fpc' = [fpc EXCEPT ![w] = "free"] /\ ~Due
      /\ histogram_mutex' = NoThread
  BY DEF Unlock, Step, poolAll, vars, poolVars, shown, fileVars
<1>2. wstage[w] = "work" /\ mstage # "exit" /\ histogram_mutex = w
  BY <1>1, AtFile DEF CountFits
<1>3. fpc'[w] = "free" /\ \A v \in Consumers \ {w} : fpc'[v] = fpc[v]
  BY <1>1 DEF HTypeOK
<1>4. (HistTypeOK /\ HTypeOK)'
  BY <1>1 DEF HistTypeOK, HTypeOK
<1>5. \A v \in Consumers : v # NoThread
  BY ThresholdAssumption DEF Callers
<1>6. CountFits(w)'
  BY <1>1, <1>2, <1>3, <1>5 DEF CountFits
<1>7. \A v \in Consumers \ {w} : CountFits(v)'
  BY <1>1, <1>2, <1>3, <1>5, StillFits
<1>8. \A v \in Consumers, b \in 0 .. LastBin : HasMerged(v, b)' <=> HasMerged(v, b)
  BY <1>1, <1>3 DEF HasMerged
<1>9. DrawnWhole'
  BY <1>1 DEF DrawnWhole, PictureOf, Positions
<1>10. global_bytes' < Threshold
  BY <1>1, ThresholdAssumption DEF Due, HTypeOK
<1> QED  BY <1>1, <1>2, <1>3, <1>4, <1>6, <1>7, <1>8, <1>9, <1>10, QuietKeeps

\* A picture shows the files merged so far: the one who draws holds the mutex, so
\* nobody is in the middle of a merge.
LEMMA DrawKeeps ==
  ASSUME HistInv, PoolInv', NEW w \in Consumers, Draw(w)
  PROVE  HistInv'
<1> USE DEF HistInv
<1>1. /\ UNCHANGED <<global_histogram, unreadable, data, finished, mstage, wstage>>
      /\ UNCHANGED <<local_histogram, local_bytes, bin, histogram_mutex>>
      /\ fpc[w] = "draw" /\ fpc' = [fpc EXCEPT ![w] = "draw"] /\ Due
      /\ screen' = global_histogram /\ draws' = draws + 1 /\ global_bytes' = Rest
  BY DEF Draw, Step, poolAll, vars, poolVars, fileVars
<1>2. fpc' = fpc
  BY <1>1 DEF HTypeOK
<1>3. mstage # "exit" /\ \A v \in Consumers : fpc[v] # "merge"
  BY <1>1, AtFile DEF CountFits
<1>4. /\ draws' \in Nat /\ global_bytes' \in Nat
      /\ draws' * Threshold + global_bytes' = draws * Threshold + global_bytes
  <2> SUFFICES ASSUME NEW d \in Nat, d = draws, NEW g \in Nat, g = global_bytes,
                      NEW t \in Nat \ {0}, t = Threshold, g >= t
               PROVE  /\ d + 1 \in Nat /\ g - t \in Nat
                      /\ (d + 1) * t + (g - t) = d * t + g
    BY <1>1, ThresholdAssumption DEF Due, Rest, HTypeOK
  <2>1. (d + 1) * t = d * t + t /\ d * t \in Nat
    OBVIOUS
  <2> QED  BY <2>1
<1>5. (HistTypeOK /\ HTypeOK)'
  BY <1>1, <1>2, <1>4 DEF HistTypeOK, HTypeOK
<1>6. \A v \in Consumers : CountFits(v)'
  BY <1>1, <1>2, StillFits
<1>7. \A v \in Consumers, b \in 0 .. LastBin : HasMerged(v, b)' <=> HasMerged(v, b)
  BY <1>1, <1>2 DEF HasMerged
<1>8. DrawnWhole'
  <2>1. /\ screen' = PictureOf(Positions(MergedInto(LastBin)))
        /\ MergedInto(LastBin) \in SUBSET (Jobs \ unreadable)
    BY <1>1, <1>3, NobodyMerges
  <2>2. \A files \in SUBSET Jobs : screen' = PictureOf(Positions(files)) => DrawnWhole'
    BY DEF DrawnWhole, PictureOf, Positions
  <2> QED  BY <2>1, <2>2
<1> QED  BY <1>1, <1>2, <1>3, <1>4, <1>5, <1>6, <1>7, <1>8, QuietKeeps

\* Where the file of a worker that is at one belongs, and that no other moves.
LEMMA MergedNext ==
  ASSUME HistInv, NEW w \in Consumers, fpc[w] # "none", NEW f, f = data[w],
         data' = data,
         \A v \in Consumers \ {w} : fpc'[v] = fpc[v] /\ bin'[v] = bin[v],
         \A g \in Files : g # f => /\ finished'[g] = finished[g]
                                   /\ g \in unreadable' <=> g \in unreadable
  PROVE  \A b : /\ f \in MergedInto(b) <=> f \notin unreadable /\ HasMerged(w, b)
                /\ f \in MergedInto(b)' <=>
                     f \notin unreadable' /\ (finished'[f] = 1 \/ HasMerged(w, b)')
                /\ \A g : g # f => (g \in MergedInto(b)' <=> g \in MergedInto(b))
<1>1. /\ f \in Files /\ finished[f] = 0
      /\ \A v \in Consumers \ {w} : fpc[v] # "none" => data[v] # f
  BY AtFile
<1> TAKE b
<1>2. \A v \in Consumers : HasMerged(v, b) => fpc[v] # "none"
  BY DEF HasMerged
<1>3. \A v \in Consumers \ {w} : /\ HasMerged(v, b)' <=> HasMerged(v, b)
                                 /\ HasMerged(v, b) => data[v] # f
  BY <1>1, <1>2 DEF HasMerged
<1>4. f \in MergedInto(b) <=> f \notin unreadable /\ HasMerged(w, b)
  BY <1>1, <1>3 DEF MergedInto
<1>5. f \in MergedInto(b)' <=> f \notin unreadable' /\ (finished'[f] = 1 \/ HasMerged(w, b)')
  BY <1>1, <1>3 DEF MergedInto
<1>6. \A g : g # f => (g \in MergedInto(b)' <=> g \in MergedInto(b))
  BY <1>3 DEF MergedInto
<1> QED  BY <1>4, <1>5, <1>6

\* A file that was not merged, or is done with, leaves the globals as they are.
LEMMA SameGlobals ==
  ASSUME HistInv, UNCHANGED <<global_histogram, global_bytes, draws>>,
         \A b \in 0 .. LastBin : MergedInto(b)' = MergedInto(b),
         \A v \in Consumers : fpc[v] = "draw" => fpc'[v] = "draw"
  PROVE  GlobalsFit'
<1> USE DEF HistInv
<1>1. LastBin \in 0 .. LastBin /\ \A b \in Bits : b \in 0 .. LastBin
  BY Bins
<1>2. \A b \in Bits : (global_histogram[b] = Wrap(Times(b, Positions(MergedInto(b)))))'
  <2> TAKE b \in Bits
  <2>1. MergedInto(b)' = MergedInto(b)
    BY <1>1
  <2> QED  BY <2>1 DEF GlobalsFit, Times, Positions
<1>3. (draws * Threshold + global_bytes = Cardinality(Positions(MergedInto(LastBin))))'
  <2>1. MergedInto(LastBin)' = MergedInto(LastBin)
    BY <1>1 DEF LastBin
  <2> QED  BY <2>1 DEF GlobalsFit, Positions
<1> QED  BY <1>2, <1>3 DEF GlobalsFit

\* A file that cannot be opened is never counted.
LEMMA OpenFailsKeeps ==
  ASSUME HistInv, PoolInv', NEW w \in Consumers, OpenFails(w)
  PROVE  HistInv'
<1> USE DEF HistInv
<1>1. /\ UNCHANGED <<global_histogram, screen, data, finished, mstage, wstage>>
      /\ UNCHANGED <<local_histogram, local_bytes, bin, global_bytes, histogram_mutex, draws>>
      /\ fpc[w] = "fopen" /\ fpc' = [fpc EXCEPT ![w] = "free"]
      /\ unreadable' = unreadable \cup {data[w]}
  BY DEF OpenFails, Step, poolAll, vars, poolVars, fileVars
<1>2. /\ wstage[w] = "work" /\ mstage # "exit" /\ data[w] \in Files
      /\ histogram_mutex # w
      /\ \A v \in Consumers \ {w} : fpc[v] # "none" => data[v] # data[w]
  BY <1>1, AtFile DEF CountFits
<1>3. fpc'[w] = "free" /\ \A v \in Consumers \ {w} : fpc'[v] = fpc[v]
  BY <1>1 DEF HTypeOK
<1>4. (HistTypeOK /\ HTypeOK)'
  BY <1>1, <1>2 DEF HistTypeOK, HTypeOK
<1>5. CountFits(w)'
  BY <1>1, <1>2, <1>3 DEF CountFits
<1>6. ASSUME NEW v \in Consumers \ {w}
      PROVE  CountFits(v)'
  <2>1. wstage[v] = "work" => (data[v] \in unreadable' <=> data[v] \in unreadable)
    BY <1>1, <1>2 DEF CountFits
  <2> QED  BY <1>1, <1>3, <2>1, StillFits
<1>7. \A b : MergedInto(b)' = MergedInto(b)
  <2> SUFFICES ASSUME NEW f, f = data[w] PROVE \A b : MergedInto(b)' = MergedInto(b)
    OBVIOUS
  <2>1. \A b : ~HasMerged(w, b)
    BY <1>1 DEF HasMerged
  <2>2. \A b : /\ f \in MergedInto(b) <=> f \notin unreadable /\ HasMerged(w, b)
               /\ f \in MergedInto(b)' <=>
                    f \notin unreadable' /\ (finished'[f] = 1 \/ HasMerged(w, b)')
               /\ \A g : g # f => (g \in MergedInto(b)' <=> g \in MergedInto(b))
    BY <1>1, <1>3, MergedNext
  <2>3. \A b, g : g \in MergedInto(b)' <=> g \in MergedInto(b)
    BY <1>1, <2>1, <2>2
  <2>4. \A b : /\ MergedInto(b) \subseteq Files
               /\ MergedInto(b)' \subseteq Files
    BY DEF MergedInto
  <2> QED  BY <2>3, <2>4
<1>8. GlobalsFit'
  BY <1>1, <1>3, <1>7, SameGlobals
<1>9. SkippedFit'
  BY <1>1, <1>3 DEF SkippedFit
<1>10. DrawnWhole'
  BY <1>1 DEF DrawnWhole, PictureOf, Positions
<1> QED  BY <1>1, <1>2, <1>4, <1>5, <1>6, <1>8, <1>9, <1>10

\* The path is freed: the file is done with, merged or skipped.
LEMMA FreeKeeps ==
  ASSUME HistInv, PoolInv', NEW w \in Consumers, FreePath(w)
  PROVE  HistInv'
<1> USE DEF HistInv
<1>1. /\ UNCHANGED <<global_histogram, screen, unreadable, data, mstage>>
      /\ UNCHANGED <<local_histogram, local_bytes, bin, global_bytes, histogram_mutex, draws>>
      /\ fpc[w] = "free" /\ fpc' = [fpc EXCEPT ![w] = "none"]
      /\ finished' = [finished EXCEPT ![data[w]] = @ + 1]
      /\ wstage' = [wstage EXCEPT ![w] = "ready"]
  BY DEF FreePath, Finish, Step, vars, shown, fileVars
<1>2. /\ wstage[w] = "work" /\ mstage # "exit" /\ data[w] \in Files /\ finished[data[w]] = 0
      /\ histogram_mutex # w
  BY <1>1, AtFile DEF CountFits
<1>3. /\ finished \in [Files -> Nat]
      /\ wstage \in [Consumers -> {"ready", "pop", "work", "exited", "none", "failed"}]
  BY ThresholdAssumption DEF PoolInv, PoolTypes
<1> SUFFICES ASSUME NEW f \in Files, f = data[w] PROVE HistInv'
  BY <1>2
<1>4. /\ fpc'[w] = "none" /\ wstage'[w] = "ready" /\ finished'[f] = 1
      /\ \A v \in Consumers \ {w} : fpc'[v] = fpc[v] /\ wstage'[v] = wstage[v]
      /\ \A g \in Files : g # f => finished'[g] = finished[g]
  BY <1>1, <1>2, <1>3 DEF HTypeOK
<1>5. (HistTypeOK /\ HTypeOK)'
  BY <1>1 DEF HistTypeOK, HTypeOK
<1>6. CountFits(w)'
  BY <1>1, <1>2, <1>4 DEF CountFits
<1>7. \A v \in Consumers \ {w} : CountFits(v)'
  BY <1>1, <1>4, StillFits
<1>8. \A b : MergedInto(b)' = MergedInto(b)
  <2>1. \A b : HasMerged(w, b)
    BY <1>1 DEF HasMerged
  <2>2. \A b : /\ f \in MergedInto(b) <=> f \notin unreadable /\ HasMerged(w, b)
               /\ f \in MergedInto(b)' <=>
                    f \notin unreadable' /\ (finished'[f] = 1 \/ HasMerged(w, b)')
               /\ \A g : g # f => (g \in MergedInto(b)' <=> g \in MergedInto(b))
    BY <1>1, <1>4, MergedNext
  <2>3. \A b, g : g \in MergedInto(b)' <=> g \in MergedInto(b)
    BY <1>1, <1>4, <2>1, <2>2
  <2>4. \A b : /\ MergedInto(b) \subseteq Files
               /\ MergedInto(b)' \subseteq Files
    BY DEF MergedInto
  <2> QED  BY <2>3, <2>4
<1>9. GlobalsFit'
  BY <1>1, <1>4, <1>8, SameGlobals
<1>10. SkippedFit'
  <2> SUFFICES ASSUME NEW g \in unreadable, finished'[g] # 1
               PROVE  \E v \in Consumers : data'[v] = g /\ fpc'[v] = "free"
    BY <1>1 DEF SkippedFit
  <2>1. g \in Files
    BY DEF HistTypeOK
  <2>2. g # f /\ finished[g] # 1
    BY <1>4, <2>1
  <2>3. PICK v \in Consumers : data[v] = g /\ fpc[v] = "free"
    BY <2>2 DEF SkippedFit
  <2> QED  BY <1>1, <1>4, <2>2, <2>3
<1>11. DrawnWhole'
  BY <1>1 DEF DrawnWhole, PictureOf, Positions
<1> QED  BY <1>1, <1>2, <1>5, <1>6, <1>7, <1>9, <1>10, <1>11

\* One bin moves from the local histogram to the global one, nothing else does.
LEMMA MergeBinKeeps ==
  ASSUME HistInv, PoolInv', NEW w \in Consumers, MergeBin(w)
  PROVE  HistInv'
<1> USE DEF HistInv
<1>1. /\ UNCHANGED <<screen, unreadable, data, finished, mstage, wstage>>
      /\ UNCHANGED <<local_bytes, global_bytes, histogram_mutex, draws>>
      /\ fpc[w] = "merge" /\ fpc' = [fpc EXCEPT ![w] = "merge"] /\ bin[w] \in Bits
      /\ global_histogram' = Added(local_histogram[w], global_histogram, bin[w])
      /\ local_histogram' = [local_histogram EXCEPT ![w] = Cleared(@, bin[w])]
      /\ bin' = [bin EXCEPT ![w] = @ + 1]
  BY DEF MergeBin, Step, poolAll, vars, poolVars
<1>2. /\ wstage[w] = "work" /\ mstage # "exit" /\ data[w] \in Files /\ data[w] \notin unreadable
      /\ histogram_mutex = w /\ local_bytes[w] = Len(Content[data[w]])
  BY <1>1, AtFile DEF CountFits
<1> SUFFICES ASSUME NEW f \in Files, f = data[w], NEW k \in Bits, k = bin[w],
                    NEW h \in Counters, h = local_histogram[w]
             PROVE  HistInv'
  BY <1>1, <1>2 DEF HTypeOK, Counters
<1> DEFINE part == PictureOf(Positions({f}))
<1>3. \A b \in Bits : h[b] = IF b < k THEN 0 ELSE part[b]
  BY <1>1 DEF CountFits
<1>4. /\ k \in Nat /\ k < LastBin /\ k + 1 \in 0 .. LastBin
      /\ \A b \in 0 .. LastBin : /\ b # k => (b < k + 1 <=> b < k)
                                 /\ k < k + 1 /\ ~(k < k)
      /\ k \in 0 .. LastBin /\ LastBin \in 0 .. LastBin
      /\ \A b \in Bits : b \in 0 .. LastBin
  BY Bins
<1>5. fpc' = fpc
  BY <1>1 DEF HTypeOK
<1>6. /\ bin'[w] = k + 1 /\ local_histogram'[w] = [h EXCEPT ![k] = 0]
      /\ global_histogram' = [global_histogram EXCEPT ![k] = Wrap(@ + h[k])]
      /\ \A v \in Consumers \ {w} : bin'[v] = bin[v] /\ local_histogram'[v] = local_histogram[v]
  BY <1>1 DEF HTypeOK, Added, Cleared
<1>7. global_histogram \in Counters /\ IsFiniteSet(Positions({f}))
  BY PositionsFinite DEF HistTypeOK, Counters
<1>8. (HistTypeOK /\ HTypeOK)'
  <2>1. Wrap(global_histogram[k] + h[k]) \in -IntHalf .. IntHalf - 1 /\ 0 \in -IntHalf .. IntHalf - 1
    <3>1. global_histogram[k] + h[k] \in Int
      BY <1>7, HistogramAssumption DEF Counters
    <3> QED  BY <3>1, WrapRange, HistogramAssumption
  <2>2. global_histogram' \in Counters /\ [h EXCEPT ![k] = 0] \in Counters
    BY <1>6, <1>7, <2>1 DEF Counters
  <2>3. bin' \in [Consumers -> 0 .. LastBin]
    BY <1>1, <1>4 DEF HTypeOK, LastBin
  <2>4. local_histogram' = [local_histogram EXCEPT ![w] = [h EXCEPT ![k] = 0]]
    BY <1>1 DEF Cleared
  <2>5. HistTypeOK'
    BY <1>1, <2>2 DEF HistTypeOK, Counters
  <2>6. HTypeOK'
    <3>1. local_histogram \in [Consumers -> Counters]
      BY DEF HTypeOK, Counters
    <3>2. local_histogram' \in [Consumers -> Counters]
      BY <2>2, <2>4, <3>1
    <3>3. /\ fpc' \in [Consumers -> {"none", "fopen", "fread", "lock", "merge", "draw", "free"}]
          /\ local_bytes' \in [Consumers -> Nat] /\ global_bytes' \in Nat /\ draws' \in Nat
          /\ histogram_mutex' \in Consumers \cup {NoThread}
      BY <1>1, <1>5 DEF HTypeOK
    <3> QED  BY <2>3, <3>2, <3>3 DEF HTypeOK, Counters, LastBin
  <2> QED  BY <2>5, <2>6
<1>9. CountFits(w)'
  <2>1. \A b \in Bits : local_histogram'[w][b] = IF b < k + 1 THEN 0 ELSE part[b]
    <3> TAKE b \in Bits
    <3>1. b \in 0 .. LastBin /\ h \in [Bits -> -IntHalf .. IntHalf - 1]
      BY <1>4 DEF Counters
    <3>2. CASE b = k
      BY <1>4, <1>6, <3>1, <3>2
    <3>3. CASE b # k
      BY <1>3, <1>4, <1>6, <3>1, <3>3
    <3> QED  BY <3>2, <3>3
  <2>2. data'[w] = f /\ bin'[w] = k + 1 /\ fpc'[w] = "merge"
    BY <1>1, <1>5, <1>6
  <2>3. \A b \in Bits : local_histogram'[w][b] =
          IF b < bin'[w] THEN 0 ELSE PictureOf(Positions({data'[w]}))[b]
    BY <2>1, <2>2
  <2> QED  BY <1>1, <1>2, <2>2, <2>3 DEF CountFits, PictureOf, Positions
<1>10. \A v \in Consumers \ {w} : CountFits(v)'
  BY <1>1, <1>5, <1>6, StillFits
<1>11. /\ f \notin MergedInto(k) /\ MergedInto(k)' = MergedInto(k) \cup {f}
       /\ \A b \in 0 .. LastBin : b # k => MergedInto(b)' = MergedInto(b)
  <2>1. \A b : /\ f \in MergedInto(b) <=> f \notin unreadable /\ HasMerged(w, b)
               /\ f \in MergedInto(b)' <=>
                    f \notin unreadable' /\ (finished'[f] = 1 \/ HasMerged(w, b)')
               /\ \A g : g # f => (g \in MergedInto(b)' <=> g \in MergedInto(b))
    BY <1>1, <1>5, <1>6, MergedNext
  <2>2. finished'[f] = 0
    BY <1>1, AtFile
  <2>3. ~HasMerged(w, k) /\ HasMerged(w, k)'
    BY <1>1, <1>4, <1>5, <1>6 DEF HasMerged
  <2>4. \A b \in 0 .. LastBin : b # k => (HasMerged(w, b)' <=> HasMerged(w, b))
    BY <1>1, <1>4, <1>5, <1>6 DEF HasMerged
  <2>5. f \notin MergedInto(k) /\ f \in MergedInto(k)'
    BY <1>1, <1>2, <2>1, <2>3
  <2>6. \A b : MergedInto(b) \subseteq Files /\ MergedInto(b)' \subseteq Files
    BY DEF MergedInto
  <2>7. MergedInto(k)' = MergedInto(k) \cup {f}
    BY <2>1, <2>5
  <2>8. ASSUME NEW b \in 0 .. LastBin, b # k
        PROVE  MergedInto(b)' = MergedInto(b)
    <3>1. f \in MergedInto(b)' <=> f \in MergedInto(b)
      BY <1>1, <2>1, <2>2, <2>4, <2>8
    <3>2. \A g : g \in MergedInto(b)' <=> g \in MergedInto(b)
      BY <2>1, <3>1
    <3> QED  BY <2>6, <3>2
  <2> QED  BY <2>5, <2>7, <2>8
<1>12. Wrap(global_histogram[k] + h[k]) = Wrap(Times(k, Positions(MergedInto(k) \cup {f})))
  <2> DEFINE files == MergedInto(k)
  <2>1. files \in SUBSET Files /\ f \in Files \ files
    BY <1>11 DEF MergedInto
  <2>2. /\ Positions(files \cup {f}) = Positions(files) \cup Positions({f})
        /\ Positions(files) \cap Positions({f}) = {}
    BY <2>1, PositionsApart
  <2>3. IsFiniteSet(Positions(files))
    BY <2>1, PositionsFinite
  <2>4. global_histogram[k] = Wrap(Times(k, Positions(files)))
    BY DEF GlobalsFit
  <2> HIDE DEF files
  <2>5. Times(k, Positions(files \cup {f})) = Times(k, Positions(files)) + Times(k, Positions({f}))
    BY <1>7, <2>2, <2>3, TimesUnion
  <2>6. h[k] = Wrap(Times(k, Positions({f})))
    <3>1. h[k] = part[k]
      BY <1>3, <1>4
    <3> QED  BY <1>7, <3>1, Picture
  <2>7. Times(k, Positions(files)) \in Int /\ Times(k, Positions({f})) \in Int
    BY <1>7, <2>3, TimesType
  <2>8. Wrap(global_histogram[k] + h[k]) = Wrap(Times(k, Positions(files \cup {f})))
    BY <2>4, <2>5, <2>6, <2>7, WrapSum
  <2> QED  BY <2>8 DEF files
<1>13. GlobalsFit'
  <2>1. \A b \in Bits : (global_histogram[b] = Wrap(Times(b, Positions(MergedInto(b)))))'
    <3> TAKE b \in Bits
    <3>1. CASE b = k
      <4>1. global_histogram'[k] = Wrap(global_histogram[k] + h[k])
        BY <1>6, <1>7 DEF Counters
      <4>2. global_histogram'[k] = Wrap(Times(k, Positions(MergedInto(k)')))
        BY <1>11, <1>12, <4>1
      <4> QED  BY <3>1, <4>2 DEF Times, Positions
    <3>2. CASE b # k
      <4>1. MergedInto(b)' = MergedInto(b) /\ global_histogram'[b] = global_histogram[b]
        BY <1>4, <1>6, <1>7, <1>11, <3>2 DEF Counters
      <4> QED  BY <4>1 DEF GlobalsFit, Times, Positions
    <3> QED  BY <3>1, <3>2
  <2>2. (draws * Threshold + global_bytes = Cardinality(Positions(MergedInto(LastBin))))'
    <3>1. LastBin # k
      BY <1>4
    <3>2. MergedInto(LastBin)' = MergedInto(LastBin)
      BY <1>4, <1>11, <3>1 DEF LastBin
    <3> QED  BY <1>1, <3>2 DEF GlobalsFit, Positions
  <2> QED  BY <1>1, <1>5, <2>1, <2>2 DEF GlobalsFit
<1>14. SkippedFit'
  BY <1>1, <1>5 DEF SkippedFit
<1>15. DrawnWhole'
  BY <1>1 DEF DrawnWhole, PictureOf, Positions
<1> QED  BY <1>1, <1>2, <1>8, <1>9, <1>10, <1>13, <1>14, <1>15

\* Behind the last bin the bytes follow, under the same mutex.
LEMMA AddBytesKeeps ==
  ASSUME HistInv, PoolInv', NEW w \in Consumers, AddBytes(w)
  PROVE  HistInv'
<1> USE DEF HistInv
<1>1. /\ UNCHANGED <<global_histogram, screen, unreadable, data, finished, mstage, wstage>>
      /\ UNCHANGED <<local_histogram, local_bytes, bin, histogram_mutex, draws>>
      /\ fpc[w] = "merge" /\ fpc' = [fpc EXCEPT ![w] = "draw"] /\ bin[w] \notin Bits
      /\ global_bytes' = global_bytes + local_bytes[w]
  BY DEF AddBytes, Step, poolAll, vars, poolVars, shown, fileVars
<1>2. /\ wstage[w] = "work" /\ mstage # "exit" /\ data[w] \in Files /\ data[w] \notin unreadable
      /\ histogram_mutex = w /\ local_bytes[w] = Len(Content[data[w]])
  BY <1>1, AtFile DEF CountFits
<1> SUFFICES ASSUME NEW f \in Files, f = data[w] PROVE HistInv'
  BY <1>2
<1>3. bin[w] = LastBin
  BY <1>1, Bins DEF HTypeOK, LastBin
<1>4. fpc'[w] = "draw" /\ \A v \in Consumers \ {w} : fpc'[v] = fpc[v]
  BY <1>1 DEF HTypeOK
<1>5. Len(Content[f]) \in Nat /\ global_bytes \in Nat /\ draws \in Nat
  BY Lengths DEF HTypeOK
<1>6. (HistTypeOK /\ HTypeOK)'
  BY <1>1, <1>2, <1>5 DEF HistTypeOK, HTypeOK
<1>7. CountFits(w)'
  BY <1>1, <1>2, <1>4 DEF CountFits
<1>8. \A v \in Consumers \ {w} : CountFits(v)'
  BY <1>1, <1>4, StillFits
<1>9. /\ f \notin MergedInto(LastBin) /\ MergedInto(LastBin)' = MergedInto(LastBin) \cup {f}
      /\ \A b \in Bits : MergedInto(b)' = MergedInto(b)
  <2>1. \A b : /\ f \in MergedInto(b) <=> f \notin unreadable /\ HasMerged(w, b)
               /\ f \in MergedInto(b)' <=>
                    f \notin unreadable' /\ (finished'[f] = 1 \/ HasMerged(w, b)')
               /\ \A g : g # f => (g \in MergedInto(b)' <=> g \in MergedInto(b))
    BY <1>1, <1>4, MergedNext
  <2>2. \A b : HasMerged(w, b)'
    BY <1>4 DEF HasMerged
  <2>3. ~HasMerged(w, LastBin) /\ \A b \in Bits : HasMerged(w, b)
    BY <1>1, <1>3, Bins DEF HasMerged
  <2>4. \A b : MergedInto(b) \subseteq Files /\ MergedInto(b)' \subseteq Files
    BY DEF MergedInto
  <2>5. f \notin MergedInto(LastBin) /\ MergedInto(LastBin)' = MergedInto(LastBin) \cup {f}
    <3> SUFFICES ASSUME NEW b, b = LastBin
                 PROVE  f \notin MergedInto(b) /\ MergedInto(b)' = MergedInto(b) \cup {f}
      BY DEF LastBin
    <3>1. f \notin MergedInto(b) /\ f \in MergedInto(b)'
      BY <1>1, <1>2, <2>1, <2>2, <2>3
    <3> QED  BY <2>1, <3>1
  <2>6. ASSUME NEW b \in Bits
        PROVE  MergedInto(b)' = MergedInto(b)
    <3>1. \A g : g \in MergedInto(b)' <=> g \in MergedInto(b)
      BY <1>1, <1>2, <2>1, <2>2, <2>3
    <3> QED  BY <2>4, <3>1
  <2> QED  BY <2>5, <2>6
<1>10. draws * Threshold + (global_bytes + Len(Content[f]))
         = Cardinality(Positions(MergedInto(LastBin) \cup {f}))
  <2> DEFINE files == MergedInto(LastBin)
  <2>1. files \in SUBSET Files /\ f \in Files \ files
    BY <1>9 DEF MergedInto
  <2>2. draws * Threshold + global_bytes = Cardinality(Positions(files))
    BY DEF GlobalsFit
  <2> HIDE DEF files
  <2>3. /\ Positions(files \cup {f}) = Positions(files) \cup Positions({f})
        /\ Positions(files) \cap Positions({f}) = {}
    BY <2>1, PositionsApart
  <2>4. IsFiniteSet(Positions(files)) /\ Cardinality(Positions(files)) \in Nat
    BY <2>1, PositionsFinite, FS_CardinalityType
  <2>5. IsFiniteSet(Positions({f})) /\ Cardinality(Positions({f})) = Len(Content[f])
    <3>1. /\ IsFiniteSet(Prefix(f, Len(Content[f])))
          /\ Cardinality(Prefix(f, Len(Content[f]))) = Len(Content[f])
      BY <1>5, Prefixes
    <3>2. Prefix(f, Len(Content[f])) = Positions({f})
      BY <1>5, Prefixes
    <3> QED  BY <3>1, <3>2
  <2>6. Cardinality(Positions(files) \cap Positions({f})) = 0
    BY <2>3, FS_EmptySet
  <2>7. Cardinality(Positions(files \cup {f})) = Cardinality(Positions(files)) + Len(Content[f])
    <3>1. Cardinality(Positions(files) \cup Positions({f}))
            = Cardinality(Positions(files)) + Cardinality(Positions({f}))
                - Cardinality(Positions(files) \cap Positions({f}))
      BY <2>4, <2>5, FS_Union
    <3>2. Cardinality(Positions(files) \cup Positions({f}))
            = Cardinality(Positions(files)) + Len(Content[f]) - 0
      BY <2>5, <2>6, <3>1
    <3>3. Cardinality(Positions(files)) + Len(Content[f]) - 0
            = Cardinality(Positions(files)) + Len(Content[f])
      BY <1>5, <2>4
    <3> QED  BY <2>3, <3>2, <3>3
  <2>8. draws * Threshold \in Nat
    BY <1>5, ThresholdAssumption
  <2>9. draws * Threshold + (global_bytes + Len(Content[f]))
          = (draws * Threshold + global_bytes) + Len(Content[f])
    BY <1>5, <2>8
  <2> QED  BY <2>2, <2>7, <2>9 DEF files
<1>11. GlobalsFit'
  <2>1. \A b \in Bits : (global_histogram[b] = Wrap(Times(b, Positions(MergedInto(b)))))'
    <3> TAKE b \in Bits
    <3>1. MergedInto(b)' = MergedInto(b)
      BY <1>9
    <3> QED  BY <1>1, <3>1 DEF GlobalsFit, Times, Positions
  <2>2. (draws * Threshold + global_bytes = Cardinality(Positions(MergedInto(LastBin))))'
    BY <1>1, <1>2, <1>9, <1>10 DEF Positions
  <2> QED  BY <1>4, <2>1, <2>2 DEF GlobalsFit
<1>12. SkippedFit'
  BY <1>1, <1>4 DEF SkippedFit
<1>13. DrawnWhole'
  BY <1>1 DEF DrawnWhole, PictureOf, Positions
<1> QED  BY <1>1, <1>2, <1>6, <1>7, <1>8, <1>11, <1>12, <1>13

LEMMA HistStep == HistInv /\ [HNext]_<<poolAll, mtVars, shown>> => HistInv'
<1> SUFFICES ASSUME HistInv, [HNext]_<<poolAll, mtVars, shown>> PROVE HistInv'
  OBVIOUS
<1>1. PoolInv'
  BY HStepIsPoolStep, PoolInvStep DEF HistInv
<1>2. CASE PoolOnly \/ UNCHANGED <<poolAll, mtVars, shown>>
  <2>1. UNCHANGED <<mtVars, shown>>
    BY <1>2 DEF PoolOnly
  <2>2. \/ MainStep
        \/ \E w \in Consumers : StartPop(w) \/ Exit(w)
        \/ \E t \in Callers : QueueStep(t)
        \/ UNCHANGED <<vars, poolVars>>
    BY <1>2 DEF PoolOnly, MainStep, poolAll
  <2>3. mstage' = "exit" => mstage = "exit"
    BY <1>2 DEF PoolOnly, Feed, EndOfInput, JoinGarbage, StartPop, Exit, QueueStep, poolAll,
                poolVars
  <2> QED  BY <1>1, <2>1, <2>2, <2>3, WorkUntouched, PoolOnlyKeeps DEF HistInv
<1>3. CASE JoinAndDraw
  BY <1>1, <1>3, JoinKeeps
<1>4. CASE \E w \in Consumers : FileStep(w)
  <2>1. PICK w \in Consumers : FileStep(w)
    BY <1>4
  <2> QED
    BY <1>1, <2>1, StartKeeps, OpenFailsKeeps, ReadKeeps, LockKeeps, MergeBinKeeps, AddBytesKeeps,
       DrawKeeps, UnlockKeeps, FreeKeeps DEF FileStep
<1> QED  BY <1>2, <1>3, <1>4 DEF HNext

-----------------------------------------------------------------------------
(* Both programs                                                           *)

\* What the variables of the program that does not run stay at.
PoolIdle ==
  /\ mstage = "feed"
  /\ fpc = [w \in Consumers |-> "none"]
  /\ local_histogram = [w \in Consumers |-> ZeroHistogram]
  /\ local_bytes = [w \in Consumers |-> 0]
  /\ bin = [w \in Consumers |-> 0]
  /\ global_bytes = 0 /\ histogram_mutex = NoThread /\ draws = 0
WalkIdle ==
  /\ unvisited = Files /\ file = NoFile /\ pos = 0
  /\ local = ZeroHistogram /\ i = 0 /\ ended = FALSE

ProgramsInv ==
  \/ program = "fhistogram"    /\ WalkInv /\ PoolIdle
  \/ program = "fhistogram-mt" /\ HistInv /\ WalkIdle

LEMMA ProgramsInvInit == ProgramsInit => ProgramsInv
<1> SUFFICES ASSUME ProgramsInit PROVE ProgramsInv
  OBVIOUS
<1>1. HistInv /\ WalkInv
  BY HInitInv, SInitInv DEF ProgramsInit
<1>2. PoolIdle /\ WalkIdle
  BY DEF ProgramsInit, SInit, HInit, PoolInit, PoolIdle, WalkIdle
<1> QED  BY <1>1, <1>2 DEF ProgramsInit, ProgramsInv

LEMMA ProgramsInvStep ==
  ProgramsInv /\ [ProgramsNext]_<<walkVars, poolAll, mtVars, shown, program>> => ProgramsInv'
<1> SUFFICES ASSUME ProgramsInv, [ProgramsNext]_<<walkVars, poolAll, mtVars, shown, program>>
             PROVE  ProgramsInv'
  OBVIOUS
<1>1. program' = program
  BY DEF ProgramsNext
<1>2. CASE program = "fhistogram"
  <2>1. [SNext]_<<shown, walkVars>> /\ UNCHANGED <<poolAll, mtVars>>
    BY <1>2 DEF ProgramsNext
  <2>2. WalkInv'
    BY <1>2, <2>1, WalkStep DEF ProgramsInv
  <2>3. PoolIdle'
    BY <1>2, <2>1 DEF ProgramsInv, PoolIdle, mtVars, fileVars, poolAll, poolVars, ZeroHistogram
  <2> QED  BY <1>1, <1>2, <2>2, <2>3 DEF ProgramsInv
<1>3. CASE program = "fhistogram-mt"
  <2>1. [HNext]_<<poolAll, mtVars, shown>> /\ UNCHANGED walkVars
    BY <1>3 DEF ProgramsNext
  <2>2. HistInv'
    BY <1>3, <2>1, HistStep DEF ProgramsInv
  <2>3. WalkIdle'
    BY <1>3, <2>1 DEF ProgramsInv, WalkIdle, walkVars, ZeroHistogram
  <2> QED  BY <1>1, <1>3, <2>2, <2>3 DEF ProgramsInv
<1> QED  BY <1>2, <1>3 DEF ProgramsInv

LEMMA Zeros ==
  /\ ZeroHistogram \in Counters
  /\ 0 \in -IntHalf .. IntHalf - 1 /\ 0 \in 0 .. Cardinality(Bits)
<1>1. 0 \in -IntHalf .. IntHalf - 1
  BY HistogramAssumption
<1>2. 0 \in 0 .. Cardinality(Bits)
  BY Bins DEF LastBin
<1> QED  BY <1>1, <1>2 DEF ZeroHistogram, Counters

LEMMA ProgramsInvImplies ==
  ProgramsInv => ProgramsTypeOK /\ WorkersDrawWhole /\ WorkersAgree /\ CountedOnce /\ FinalPicture
<1> SUFFICES ASSUME ProgramsInv
             PROVE  ProgramsTypeOK /\ WorkersDrawWhole /\ WorkersAgree /\ CountedOnce /\ FinalPicture
  OBVIOUS
<1>1. CASE program = "fhistogram" /\ WalkInv /\ PoolIdle
  <2>1. HTypeOK
    BY <1>1, Zeros DEF PoolIdle, HTypeOK, Counters
  <2>2. FinalPicture
    <3> SUFFICES ASSUME ended
                 PROVE  screen = IF unreadable = Files
                                 THEN NoPicture ELSE PictureOf(Positions(Files \ unreadable))
      BY <1>1 DEF FinalPicture, PoolIdle
    <3>1. file = NoFile /\ unvisited = {} /\ local = ZeroHistogram
      BY <1>1 DEF WalkInv, STypeOK
    <3>2. global_histogram = Merged(local, global_histogram)
      <4>1. global_histogram \in Counters
        BY <1>1 DEF WalkInv, HistTypeOK, Counters
      <4> QED  BY <3>1, <4>1, MergeKeeps
    <3>3. BytesRead = Positions(Files \ unreadable)
      <4>1. Files \ (unvisited \cup unreadable) = Files \ unreadable
        BY <3>1
      <4> QED  BY <3>1, <4>1, WhatWasRead
    <3>4. Opened = {} <=> unreadable = Files
      BY <1>1, <3>1 DEF Opened, WalkInv, HistTypeOK
    <3>5. screen = IF Opened = {} THEN NoPicture ELSE global_histogram
      BY <1>1, <3>1 DEF WalkInv
    <3> QED  BY <1>1, <3>2, <3>3, <3>4, <3>5 DEF WalkInv
  <2> QED
    BY <1>1, <2>1, <2>2
       DEF WalkInv, ProgramsTypeOK, WorkersDrawWhole, WorkersAgree, CountedOnce
<1>2. CASE program = "fhistogram-mt" /\ HistInv /\ WalkIdle
  <2>1. STypeOK
    BY <1>2, Zeros DEF WalkIdle, STypeOK, Counters
  <2>2. GlobalsAgree
    <3> SUFFICES ASSUME histogram_mutex = NoThread
                 PROVE  \E files \in SUBSET (Jobs \ unreadable) :
                          /\ global_histogram = PictureOf(Positions(files))
                          /\ draws * Threshold + global_bytes = Cardinality(Positions(files))
                          /\ global_bytes < Threshold
      BY DEF GlobalsAgree
    <3>1. \A v \in Consumers : fpc[v] \notin {"merge", "draw"}
      <4>1. \A v \in Consumers : v # NoThread
        BY ThresholdAssumption DEF Callers
      <4> QED  BY <1>2, <4>1 DEF HistInv, CountFits
    <3>2. /\ global_histogram = PictureOf(Positions(MergedInto(LastBin)))
          /\ MergedInto(LastBin) \in SUBSET (Jobs \ unreadable)
      BY <1>2, <3>1, NobodyMerges
    <3>3. /\ draws * Threshold + global_bytes = Cardinality(Positions(MergedInto(LastBin)))
          /\ global_bytes < Threshold
      BY <1>2, <3>1 DEF HistInv, GlobalsFit
    <3> QED  BY <3>2, <3>3
  <2>3. CountedOnce /\ FinalPicture
    BY <1>2 DEF WalkIdle, CountedOnce, FinalPicture, HistInv
  <2> QED
    BY <1>2, <2>1, <2>2, <2>3 DEF HistInv, ProgramsTypeOK, WorkersDrawWhole, WorkersAgree
<1> QED  BY <1>1, <1>2 DEF ProgramsInv

\* Types of the histograms, which never leave the range of an int, of the walk and
\* of the workers; in particular no subtraction takes global_bytes below zero
\* (fhistogram-mt.c:62-65).
THEOREM ProgramsTypeCorrect == ProgramsSpec => []ProgramsTypeOK
BY ProgramsInvInit, ProgramsInvStep, ProgramsInvImplies, PTL DEF ProgramsSpec

\* No worker draws a torn picture, however the merges of the others interleave
\* with it (fhistogram-mt.c:57-66, 155).
THEOREM WorkersDrawWholeHolds == ProgramsSpec => []WorkersDrawWhole
BY ProgramsInvInit, ProgramsInvStep, ProgramsInvImplies, PTL DEF ProgramsSpec

\* The histogram and the byte count of fhistogram-mt tell of the same files
\* whenever the mutex is free (fhistogram-mt.c:59-65).
THEOREM WorkersAgreeHolds == ProgramsSpec => []WorkersAgree
BY ProgramsInvInit, ProgramsInvStep, ProgramsInvImplies, PTL DEF ProgramsSpec

\* In fhistogram partial merges count every byte once, also after a counter has
\* overflowed (fhistogram.c:37-48, histogram.h:53-56).
THEOREM CountedOnceHolds == ProgramsSpec => []CountedOnce
BY ProgramsInvInit, ProgramsInvStep, ProgramsInvImplies, PTL DEF ProgramsSpec

\* Each program ends with the picture of all files that could be opened; when there
\* is none, fhistogram with no picture and fhistogram-mt with one of zeros
\* (fhistogram.c:28-32, 48-49, 88-92, fhistogram-mt.c:111-155).
THEOREM FinalPictureHolds == ProgramsSpec => []FinalPicture
BY ProgramsInvInit, ProgramsInvStep, ProgramsInvImplies, PTL DEF ProgramsSpec

\* fhistogram-mt is a pool: what holds of the jobs of every JobPool holds of its
\* files (fhistogram-mt.c:31-71, 103-155).
THEOREM HistogramIsPool == HSpec => PoolSpec
<1>1. HInit => PoolInit
  BY DEF HInit
<1> QED  BY <1>1, HStepIsPoolStep, PTL DEF HSpec, PoolSpec

==============================================================================
