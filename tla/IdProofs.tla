------------------------------- MODULE IdProofs -------------------------------
(***************************************************************************)
(* Theorems about IdPrograms, for files of any length, any lines and any   *)
(* sequence of queries: the array of records, the fields of a record, what *)
(* the three indexes answer, and that they keep the promise of IdQuery.    *)
(***************************************************************************)
EXTENDS IdPrograms, WellFoundedInduction, TLAPS

-----------------------------------------------------------------------------
(* The fields of a record                                                  *)

LEMMA LeastNumber ==
  ASSUME NEW S \in SUBSET Nat, S # {}
  PROVE  \E x \in S : \A y \in S : x <= y
<1>1. IsWellFoundedOn(OpToRel(<, Nat), Nat)
  BY NatLessThanWellFounded
<1>2. PICK x \in S : \A y \in S : ~(<<y, x>> \in OpToRel(<, Nat))
  BY <1>1, WFMin
<1>3. \A y \in S : ~(y < x)
  BY <1>2 DEF OpToRel
<1> QED
  BY <1>3

\* Every `if` but 18 and 19 assigns a field of its own.
LEMMA AssignedFields ==
  /\ DOMAIN Assigned = 1 .. 24 /\ Len(Assigned) = 24
  /\ \A c \in 1 .. 24 \ {19} : Assigned[c] = Columns[c]
  /\ \A c, d \in 1 .. 24 : c < d /\ Assigned[c] = Assigned[d] => c = 18 /\ d = 19
  /\ \A c \in 1 .. 24 : /\ Assigned[c] = "osm_id" <=> c = 4
                        /\ Assigned[c] = "name" <=> c = 1
<1>1. DOMAIN Assigned = 1 .. 24 /\ Len(Assigned) = 24
  BY DEF Assigned
<1>2. \A c \in 1 .. 24 \ {19} : Assigned[c] = Columns[c]
  BY DEF Assigned, Columns
<1>3. \A c, d \in 1 .. 24 : c < d /\ Assigned[c] = Assigned[d] => c = 18 /\ d = 19
  BY DEF Assigned
<1>4. \A c \in 1 .. 24 : /\ Assigned[c] = "osm_id" <=> c = 4
                         /\ Assigned[c] = "name" <=> c = 1
  BY DEF Assigned
<1> QED
  BY <1>1, <1>2, <1>3, <1>4

\* Where a field gets its value from, if `if` number c finds the tab of column c.
From(line, c) == IF c \in Numbers THEN NumberFrom(line, c) ELSE c

LEMMA OwnNumber ==
  ASSUME NEW line \in LineKinds, NEW c \in 1 .. 24
  PROVE  /\ From(line, c) \in Nat
         /\ c <= line.tabs /\ (c \in Numbers => c \notin line.blank) => From(line, c) = c
<1>1. line.tabs \in Nat
  BY ReaderAssumption
<1> DEFINE written == {d \in c .. line.tabs + 1 : d \notin line.blank}
<1>2. written \subseteq Nat /\ \A d \in written : c <= d
  BY <1>1
<1>3. c <= line.tabs /\ c \notin line.blank => c \in written
  BY <1>1
<1>4. NumberFrom(line, c) = IF written = {} THEN 0 ELSE Min(written)
  BY DEF NumberFrom
<1> HIDE DEF written
<1>5. written # {} => Min(written) \in written
  <2> SUFFICES ASSUME written # {} PROVE Min(written) \in written
    OBVIOUS
  <2>1. \E d \in written : \A e \in written : d <= e
    BY <1>2, LeastNumber
  <2> QED
    BY <2>1 DEF Min
<1>6. c \in written => Min(written) = c
  <2> SUFFICES ASSUME c \in written PROVE Min(written) = c
    OBVIOUS
  <2>1. c \in written /\ \A e \in written : c <= e
    BY <1>2
  <2>2. \A d \in written : (\A e \in written : d <= e) => d = c
    BY <1>2
  <2> QED
    BY <2>1, <2>2 DEF Min
<1>7. NumberFrom(line, c) \in Nat
  <2>1. written # {} => Min(written) \in Nat
    BY <1>2, <1>5
  <2> QED
    BY <1>4, <2>1
<1>8. c <= line.tabs /\ c \notin line.blank => NumberFrom(line, c) = c
  BY <1>3, <1>4, <1>6
<1> QED
  BY <1>7, <1>8 DEF From

\* The columns whose tab the first m `if`s find, and what *r then holds.
Taken(line, m) == {c \in 1 .. m : c <= line.tabs}

FieldNames == {Assigned[c] : c \in 1 .. 24}
Holdings   == UNION {[fs -> Nat] : fs \in SUBSET FieldNames}

Parsed(line, m, h, t) ==
  /\ h \in Holdings /\ t = Taken(line, m)
  /\ DOMAIN h = {Assigned[c] : c \in Taken(line, m)}
  /\ \A c \in Taken(line, m) :
       (c = 18 => 19 \notin Taken(line, m)) => h[Assigned[c]] = From(line, c)

LEMMA EmptyHolding == <<>> \in Holdings /\ DOMAIN <<>> = {}
<1>1. <<>> \in [{} -> Nat] /\ DOMAIN <<>> = {}
  OBVIOUS
<1> QED
  BY <1>1 DEF Holdings

LEMMA NothingParsed ==
  ASSUME NEW line, line.tabs \in Nat
  PROVE  Parsed(line, 0, <<>>, {})
<1>1. Taken(line, 0) = {} /\ {Assigned[c] : c \in {}} = {}
  BY DEF Taken
<1> QED
  BY <1>1, EmptyHolding DEF Parsed

\* One `if` more, whose tab is found.
LEMMA ParsedMore ==
  ASSUME NEW line \in LineKinds, NEW m \in 0 .. 23, NEW h, NEW t, NEW h2,
         Parsed(line, m, h, t), m + 1 <= line.tabs,
         h2 = [f \in DOMAIN h \cup {Assigned[m + 1]} |->
                 IF f # Assigned[m + 1] THEN h[f] ELSE From(line, m + 1)]
  PROVE  Parsed(line, m + 1, h2, t \cup {m + 1})
<1>1. line.tabs \in Nat /\ m + 1 \in 1 .. 24
  BY ReaderAssumption
<1>2. Taken(line, m + 1) = Taken(line, m) \cup {m + 1} /\ Taken(line, m) \subseteq 1 .. m
  BY <1>1 DEF Taken
<1>3. h2 \in Holdings
  <2>1. PICK fs \in SUBSET FieldNames : h \in [fs -> Nat]
    BY DEF Parsed, Holdings
  <2>2. From(line, m + 1) \in Nat /\ Assigned[m + 1] \in FieldNames
    BY <1>1, OwnNumber DEF FieldNames
  <2>3. h2 \in [fs \cup {Assigned[m + 1]} -> Nat]
    BY <2>1, <2>2
  <2> QED
    BY <2>2, <2>3 DEF Holdings
<1>4. DOMAIN h2 = {Assigned[c] : c \in Taken(line, m + 1)}
  BY <1>2 DEF Parsed
<1>5. ASSUME NEW c \in Taken(line, m + 1), c = 18 => 19 \notin Taken(line, m + 1)
      PROVE  h2[Assigned[c]] = From(line, c)
  <2>1. CASE c = m + 1
    BY <1>4, <1>5, <2>1
  <2>2. CASE c # m + 1
    <3>1. c \in Taken(line, m) /\ c \in 1 .. 24 /\ c < m + 1
      BY <1>1, <1>2, <1>5, <2>2
    <3>2. Assigned[c] # Assigned[m + 1]
      <4>1. Assigned[c] = Assigned[m + 1] => c = 18 /\ m + 1 = 19
        BY <1>1, <3>1, AssignedFields
      <4> QED
        BY <1>2, <1>5, <4>1
    <3>3. h[Assigned[c]] = From(line, c)
      BY <1>2, <1>5, <3>1 DEF Parsed
    <3>4. Assigned[c] \in DOMAIN h
      BY <3>1 DEF Parsed
    <3> QED
      BY <3>2, <3>3, <3>4
  <2> QED
    BY <2>1, <2>2
<1>6. t \cup {m + 1} = Taken(line, m + 1)
  BY <1>2 DEF Parsed
<1> QED
  BY <1>3, <1>4, <1>5, <1>6 DEF Parsed

\* One `if` more, when the line has no tab left.
LEMMA ParsedSkip ==
  ASSUME NEW line, line.tabs \in Nat, NEW m \in 0 .. 23, NEW h, NEW t,
         Parsed(line, m, h, t), line.tabs <= m
  PROVE  Parsed(line, m + 1, h, t)
<1>1. Taken(line, m + 1) = Taken(line, m)
  BY DEF Taken
<1> QED
  BY <1>1 DEF Parsed

\* A column is in the field of its name, and the two fields that the programs read
\* are there if a tab ends their column.
LEMMA ParsedLine ==
  ASSUME NEW line \in LineKinds, NEW h, NEW t, Parsed(line, 24, h, t)
  PROVE  /\ \A c \in 1 .. 24 \ {19} :
              /\ c <= line.tabs
              /\ c = 18 => line.tabs = 18
              /\ c \in Numbers => c \notin line.blank
              => /\ Columns[c] \in DOMAIN h /\ h[Columns[c]] = c
                 /\ c \in t
         /\ "osm_id" \in DOMAIN h <=> line.tabs >= 4
         /\ "name" \in DOMAIN h <=> line.tabs >= 1
<1>1. line.tabs \in Nat /\ \A c \in 1 .. 24 : c \in Taken(line, 24) <=> c <= line.tabs
  BY ReaderAssumption DEF Taken
<1>2. ASSUME NEW c \in 1 .. 24 \ {19}, c <= line.tabs, c = 18 => line.tabs = 18,
             c \in Numbers => c \notin line.blank
      PROVE  Columns[c] \in DOMAIN h /\ h[Columns[c]] = c /\ c \in t
  <2>1. c \in Taken(line, 24) /\ Assigned[c] = Columns[c]
    BY <1>1, <1>2, AssignedFields
  <2>2. c = 18 => 19 \notin Taken(line, 24)
    BY <1>1, <1>2
  <2>3. From(line, c) = c
    BY <1>2, OwnNumber
  <2> QED
    BY <2>1, <2>2, <2>3 DEF Parsed
<1>3. ASSUME NEW d \in 1 .. 24, NEW f, \A c \in 1 .. 24 : Assigned[c] = f <=> c = d
      PROVE  f \in DOMAIN h <=> line.tabs >= d
  <2>1. f \in DOMAIN h <=> \E c \in Taken(line, 24) : Assigned[c] = f
    BY DEF Parsed
  <2>2. Taken(line, 24) \subseteq 1 .. 24
    BY DEF Taken
  <2>3. f \in DOMAIN h <=> d \in Taken(line, 24)
    BY <1>3, <2>1, <2>2
  <2> QED
    BY <1>1, <2>3
<1>4. "osm_id" \in DOMAIN h <=> line.tabs >= 4
  BY <1>3, AssignedFields
<1>5. "name" \in DOMAIN h <=> line.tabs >= 1
  BY <1>3, AssignedFields
<1> QED
  BY <1>2, <1>4, <1>5

-----------------------------------------------------------------------------
(* The reader                                                              *)

RecordSet == [osm_id : Int, holds : Holdings, cut : SUBSET (1 .. 24)]

\* A record has the fields of its line, its id when the line has one.
RecordsFit ==
  \A k \in 1 .. n : /\ Parsed(lines[k], 24, rs[k].holds, rs[k].cut)
                    /\ lines[k].tabs >= 4 => rs[k].osm_id = lines[k].osm_id

\* Between two `if`s: `start` is behind the last tab found.
SlotFits ==
  /\ field \in 0 .. 25 /\ start \in 1 .. 25
  /\ cut \subseteq 1 .. 24 /\ holds \in Holdings
  /\ stage # "load" => field = 0
  /\ field # 0 =>
       /\ n < Len(lines)
       /\ start = IF field <= Line.tabs + 1 THEN field ELSE Line.tabs + 1
       /\ Parsed(Line, field - 1, holds, cut)

\* The array has room for one more record as long as records are read, and in
\* the end it holds one for each line.
ReaderInv ==
  /\ lines \in Seq(LineKinds) /\ Len(lines) <= MaxLines
  /\ rs \in Seq(RecordSet) /\ Len(rs) = n /\ n <= Len(lines)
  /\ RecordsFit /\ SlotFits
  /\ capacity \in 1 .. IntMax
  /\ stage \in {"open", "load"} => n < capacity
  /\ stage \notin {"open", "load", "failed"} => n = Len(lines)

(* The programs                                                            *)

Stages == {"open", "load", "loaded", "failed", "read", "lookup", "done", "crashed"}

ProgramTypes ==
  /\ stage \in Stages
  /\ program \in Queries \cup {"random_ids"}
  /\ needle \in Int \cup {NoNeedle} /\ answer \in Records \cup {NoRecord}
  /\ i \in 1 .. n + 1 /\ lo \in 1 .. n + 1 /\ hi \in 1 .. n + 1

\* Queries are read after the index is made, and never by random_ids.
StagesFit ==
  /\ stage \in {"read", "lookup", "done"} => program \in Queries
  /\ needle # NoNeedle => program \in Queries /\ stage \in {"read", "lookup", "done", "crashed"}
  /\ stage = "lookup" => needle # NoNeedle

\* The array of an index: each entry has the address and the id of one record.
Indexed == stage \in {"read", "lookup"} /\ program \in {"id_query_indexed", "id_query_binsort"}
IndexFits ==
  /\ stage \in {"open", "load", "loaded", "failed"} => irs = <<>>
  /\ Indexed => \A k \in Records : /\ irs[k].rs \in Records
                                   /\ irs[k].osm_id = rs[irs[k].rs].osm_id

\* The entries are in the order of the file, or sorted and each record has one.
IndexOrdered ==
  /\ Indexed /\ program = "id_query_indexed" => \A k \in Records : irs[k].rs = k
  /\ Indexed /\ program = "id_query_binsort" =>
       /\ \A r \in Records : \E k \in Records : irs[k].rs = r
       /\ \A j, k \in Records : j < k => irs[j].osm_id <= irs[k].osm_id

IndexType == irs \in Seq([osm_id : Int, rs : Records])

\* A linear search has passed no record with the id.
PassedNone == Scans => \A k \in 1 .. i - 1 : rs[k].osm_id # needle

\* What a lookup has returned.
AnswerRight ==
  Answered =>
    IF answer = NoRecord
    THEN \A k \in Records : rs[k].osm_id # needle
    ELSE /\ rs[answer].osm_id = needle
         /\ program # "id_query_binsort" => \A k \in 1 .. answer - 1 : rs[k].osm_id # needle

\* random_ids crashes without records, a query over a record without a name.
CrashesFit ==
  stage = "crashed" =>
    \/ program = "random_ids" /\ n = 0
    \/ program \in Queries /\ answer # NoRecord /\ "name" \notin DOMAIN rs[answer].holds

PInv == /\ ReaderInv /\ ProgramTypes /\ StagesFit
        /\ IndexType /\ IndexFits /\ IndexOrdered
        /\ PassedNone /\ WindowHolds /\ AnswerRight /\ CrashesFit

-----------------------------------------------------------------------------
(* Initially                                                               *)

LEMMA InitPInv == PInit => PInv
<1> SUFFICES ASSUME PInit PROVE PInv
  OBVIOUS
<1> USE DEF PInit, QInit, RInit
<1>1. ReaderInv
  <2>1. PICK k \in 0 .. MaxLines : lines \in [1 .. k -> LineKinds]
    OBVIOUS
  <2>2. k \in Nat /\ k <= MaxLines
    BY <2>1, ReaderAssumption
  <2>3. lines \in Seq(LineKinds) /\ Len(lines) = k
    BY <2>1, <2>2
  <2>4. rs \in Seq(RecordSet) /\ Len(rs) = 0 /\ n = 0 /\ 1 .. n = {}
    OBVIOUS
  <2>5. SlotFits
    <3>1. <<>> \in Holdings
      BY EmptyHolding
    <3> QED
      BY <3>1 DEF SlotFits
  <2> QED
    BY <2>2, <2>3, <2>4, <2>5, ReaderAssumption DEF ReaderInv, RecordsFit
<1>2. ProgramTypes /\ StagesFit /\ IndexType /\ IndexFits /\ IndexOrdered
  BY DEF ProgramTypes, StagesFit, IndexType, IndexFits, IndexOrdered, Indexed, Stages
<1>3. PassedNone /\ WindowHolds /\ AnswerRight /\ CrashesFit
  BY DEF PassedNone, Scans, WindowHolds, Searches, AnswerRight, Answered, CrashesFit
<1> QED
  BY <1>1, <1>2, <1>3 DEF PInv

-----------------------------------------------------------------------------
(* Reading the file                                                        *)

\* What the file and the array of records are after reading stays.
LEMMA ReaderKept ==
  ASSUME ReaderInv, UNCHANGED <<fileVars, arrayVars>>,
         stage \notin {"open", "load", "failed"}, stage' \notin {"open", "load"}
  PROVE  ReaderInv'
<1>1. UNCHANGED <<lines, rs, n, capacity, field, start, cut, holds>>
  BY DEF fileVars, arrayVars, slotVars
<1>2. RecordsFit' /\ field = 0
  BY <1>1 DEF ReaderInv, RecordsFit, SlotFits
<1>3. SlotFits'
  BY <1>1, <1>2 DEF ReaderInv, SlotFits
<1> QED
  BY <1>1, <1>2, <1>3 DEF ReaderInv

LEMMA ReaderStill ==
  ASSUME ReaderInv, UNCHANGED <<fileVars, arrayVars, stage>>
  PROVE  ReaderInv'
<1>1. UNCHANGED <<lines, rs, n, capacity, field, start, cut, holds, stage>>
  BY DEF fileVars, arrayVars, slotVars
<1>2. Line' = Line
  BY <1>1 DEF Line
<1>3. RecordsFit' /\ SlotFits'
  BY <1>1, <1>2 DEF ReaderInv, RecordsFit, SlotFits
<1> QED
  BY <1>1, <1>3 DEF ReaderInv

\* The line that is being read.
LEMMA LineRead ==
  ASSUME ReaderInv, n < Len(lines)
  PROVE  /\ n \in Nat /\ n + 1 \in 1 .. Len(lines)
         /\ Line \in LineKinds /\ Line.tabs \in Nat /\ Line.osm_id \in Int
<1>1. n \in Nat /\ n + 1 \in 1 .. Len(lines)
  BY DEF ReaderInv
<1> QED
  BY <1>1, ReaderAssumption DEF ReaderInv, Line

\* The steps within read_record change the slot only.
LEMMA SlotStep ==
  ASSUME ReaderInv, SlotFits', UNCHANGED <<fileVars, stage, rs, n, capacity>>
  PROVE  ReaderInv'
<1>1. UNCHANGED <<lines, rs, n>>
  BY DEF fileVars
<1>2. RecordsFit'
  BY <1>1 DEF ReaderInv, RecordsFit
<1> QED
  BY <1>1, <1>2 DEF ReaderInv

LEMMA SlotRead ==
  ASSUME ReaderInv, field # 0
  PROVE  /\ field \in 0 .. 25 /\ start \in 1 .. 25 /\ cut \subseteq 1 .. 24 /\ holds \in Holdings
         /\ n < Len(lines)
         /\ start = IF field <= Line.tabs + 1 THEN field ELSE Line.tabs + 1
         /\ Parsed(Line, field - 1, holds, cut)
<1>1. SlotFits
  BY DEF ReaderInv
<1> QED
  BY <1>1 DEF SlotFits

LEMMA GetLineKeeps ==
  ASSUME ReaderInv, GetLine
  PROVE  ReaderInv'
<1>1. /\ n < Len(lines) /\ stage = "load" /\ UNCHANGED <<lines, stage, n>>
      /\ field' = 1 /\ start' = 1 /\ cut' = {} /\ holds' = <<>>
  BY DEF GetLine, fileVars
<1>2. Line.tabs \in Nat /\ Line' = Line
  BY <1>1, LineRead DEF Line
<1>3. Parsed(Line, 0, <<>>, {}) /\ <<>> \in Holdings
  BY <1>2, NothingParsed, EmptyHolding
<1>4. Parsed(Line, 0, holds, cut)'
  BY <1>1, <1>2, <1>3
<1>5. SlotFits'
  BY <1>1, <1>2, <1>3, <1>4 DEF SlotFits
<1> QED
  BY <1>5, SlotStep DEF GetLine

LEMMA TakeFieldKeeps ==
  ASSUME ReaderInv, TakeField
  PROVE  ReaderInv'
<1>1. /\ stage = "load" /\ field \in 1 .. 24 /\ Tab /\ UNCHANGED <<lines, stage, n>>
      /\ field' = field + 1 /\ start' = start + 1 /\ cut' = cut \cup {start}
      /\ holds' = [f \in DOMAIN holds \cup {Assigned[field]} |->
                     IF f # Assigned[field] THEN holds[f]
                     ELSE IF field \in Numbers THEN NumberFrom(Line, start) ELSE start]
  BY AssignedFields DEF TakeField, NextStart, fileVars
<1>2. n < Len(lines) /\ cut \subseteq 1 .. 24 /\ Parsed(Line, field - 1, holds, cut)
  BY <1>1, SlotRead
<1>3. Line \in LineKinds /\ Line.tabs \in Nat /\ Line' = Line
  BY <1>1, <1>2, LineRead DEF Line
<1>4. start = field /\ field <= Line.tabs
  <2>1. field \in 1 .. 24 /\ start <= Line.tabs
    BY <1>1 DEF Tab
  <2>2. start = IF field <= Line.tabs + 1 THEN field ELSE Line.tabs + 1
    BY <2>1, SlotRead
  <2> QED
    BY <1>3, <2>1, <2>2
<1> DEFINE m == field - 1
<1>5. m \in 0 .. 23 /\ m + 1 = field
  BY <1>1
<1>6. holds' = [f \in DOMAIN holds \cup {Assigned[m + 1]} |->
                  IF f # Assigned[m + 1] THEN holds[f] ELSE From(Line, m + 1)]
  BY <1>1, <1>4, <1>5 DEF From
<1>7. Parsed(Line, m, holds, cut) /\ m + 1 <= Line.tabs
  BY <1>2, <1>4, <1>5
<1> HIDE DEF m
<1>8. Parsed(Line, m + 1, holds', cut \cup {m + 1})
  BY <1>3, <1>5, <1>6, <1>7, ParsedMore
<1>9. Parsed(Line, field, holds', cut')
  BY <1>1, <1>4, <1>5, <1>8
<1>10. Parsed(Line, field - 1, holds, cut)'
  <2>1. field' - 1 = field
    BY <1>1
  <2> QED
    BY <1>3, <1>9, <2>1
<1>11. holds' \in Holdings
  BY <1>9 DEF Parsed
<1>12. SlotFits'
  <2>1. n' < Len(lines') /\ stage' = "load" /\ field' \in 0 .. 25
    BY <1>1, <1>2
  <2>2. cut' \subseteq 1 .. 24 /\ start' \in 1 .. 25
    BY <1>1, <1>2, <1>4
  <2>3. start' = IF field' <= Line'.tabs + 1 THEN field' ELSE Line'.tabs + 1
    BY <1>1, <1>3, <1>4
  <2> QED
    BY <1>10, <1>11, <2>1, <2>2, <2>3 DEF SlotFits
<1> QED
  BY <1>12, SlotStep DEF TakeField

LEMMA SkipFieldKeeps ==
  ASSUME ReaderInv, SkipField
  PROVE  ReaderInv'
<1>1. /\ stage = "load" /\ field \in 1 .. 24 /\ ~Tab /\ UNCHANGED <<lines, stage, n>>
      /\ field' = field + 1 /\ UNCHANGED <<start, cut, holds>>
  BY AssignedFields DEF SkipField, fileVars
<1>2. /\ n < Len(lines) /\ Parsed(Line, field - 1, holds, cut)
      /\ cut = Taken(Line, field - 1)
  BY <1>1, SlotRead DEF Parsed
<1>3. Line.tabs \in Nat /\ Line' = Line
  BY <1>1, <1>2, LineRead DEF Line
<1>4. start = (IF field <= Line.tabs + 1 THEN field ELSE Line.tabs + 1)
  BY <1>1, SlotRead
<1>5. Line.tabs < field /\ start = Line.tabs + 1
  BY <1>1, <1>2, <1>3, <1>4 DEF Tab, Taken
<1>6. Parsed(Line, (field - 1) + 1, holds, cut)
  <2>1. field - 1 \in 0 .. 23 /\ Line.tabs <= field - 1
    BY <1>1, <1>3, <1>5
  <2> QED
    BY <1>2, <1>3, <2>1, ParsedSkip
<1>7. Parsed(Line, field - 1, holds, cut)'
  <2>1. (field - 1) + 1 = field' - 1
    BY <1>1
  <2> QED
    BY <1>1, <1>3, <1>6, <2>1
<1>8. SlotFits'
  BY <1>1, <1>2, <1>3, <1>5, <1>7 DEF ReaderInv, SlotFits
<1> QED
  BY <1>8, SlotStep DEF SkipField

LEMMA ReadRecordKeeps ==
  ASSUME ReaderInv, ReadRecord
  PROVE  ReaderInv'
<1> USE DEF ReaderInv
<1>1. /\ stage = "load" /\ field = 25 /\ n < Len(lines)
      /\ Parsed(Line, 24, holds, cut) /\ holds \in Holdings /\ cut \subseteq 1 .. 24
  <2>1. stage = "load" /\ field > 24
    BY AssignedFields DEF ReadRecord
  <2>2. field \in 0 .. 25
    BY DEF SlotFits
  <2>3. field = 25 /\ field # 0 /\ field - 1 = 24
    BY <2>1, <2>2
  <2> QED
    BY <2>1, <2>3, SlotRead
<1>2. /\ n \in Nat /\ n + 1 \in 1 .. Len(lines)
      /\ Line \in LineKinds /\ Line.tabs \in Nat /\ Line.osm_id \in Int
  BY <1>1, LineRead
<1>3. PICK id \in IF "osm_id" \in DOMAIN holds THEN {Line.osm_id} ELSE Garbage :
        rs' = Append(rs, [osm_id |-> id, holds |-> holds, cut |-> cut])
  BY DEF ReadRecord
<1>4. id \in Int /\ (Line.tabs >= 4 => id = Line.osm_id)
  BY <1>1, <1>2, <1>3, ParsedLine, ReaderAssumption
<1> DEFINE record == [osm_id |-> id, holds |-> holds, cut |-> cut]
<1>5. record \in RecordSet
  BY <1>1, <1>4 DEF RecordSet
<1>6. /\ rs' \in Seq(RecordSet) /\ Len(rs') = n + 1
      /\ \A k \in 1 .. n : rs'[k] = rs[k]
      /\ rs'[n + 1] = record
  BY <1>2, <1>3, <1>5
<1>7. /\ n' = n + 1 /\ UNCHANGED <<lines, stage, start, cut, holds>> /\ field' = 0
  BY DEF ReadRecord, fileVars
<1>8. RecordsFit'
  <2> SUFFICES ASSUME NEW k \in 1 .. n + 1
               PROVE  /\ Parsed(lines[k], 24, rs'[k].holds, rs'[k].cut)
                      /\ lines[k].tabs >= 4 => rs'[k].osm_id = lines[k].osm_id
    BY <1>7 DEF RecordsFit
  <2>1. CASE k \in 1 .. n
    BY <2>1, <1>6 DEF RecordsFit
  <2>2. CASE k = n + 1
    <3>1. rs'[k].holds = holds /\ rs'[k].cut = cut /\ rs'[k].osm_id = id /\ lines[k] = Line
      BY <2>2, <1>6 DEF Line
    <3> QED
      BY <1>1, <1>4, <3>1
  <2> QED
    BY <1>2, <2>1, <2>2
<1>9. capacity' \in 1 .. IntMax /\ n' < capacity'
  <2>1. capacity' = IF n + 1 = capacity THEN capacity * 2 ELSE capacity
    BY <1>7 DEF ReadRecord, Grown
  <2>2. /\ n \in Nat /\ capacity \in 1 .. IntMax /\ n < capacity
        /\ n + 1 <= MaxLines
    BY <1>1, <1>2, ReaderAssumption
  <2>3. MaxLines \in Nat /\ IntMax \in Nat /\ 2 * MaxLines <= IntMax
    BY ReaderAssumption
  <2> HIDE DEF ReaderInv
  <2> QED
    BY <1>7, <2>1, <2>2, <2>3
<1>10. SlotFits'
  BY <1>1, <1>7 DEF SlotFits
<1> QED
  BY <1>1, <1>2, <1>6, <1>7, <1>8, <1>9, <1>10

LEMMA LoadKeepsReader == ReaderInv /\ Load => ReaderInv'
<1> SUFFICES ASSUME ReaderInv, Load PROVE ReaderInv'
  OBVIOUS
<1>1. CASE GetLine \/ TakeField \/ SkipField \/ ReadRecord
  BY <1>1, GetLineKeeps, TakeFieldKeeps, SkipFieldKeeps, ReadRecordKeeps
<1>2. CASE Open \/ EndOfRecords
  <2>1. /\ UNCHANGED <<lines, rs, n, capacity, field, start, cut, holds>>
        /\ stage' # stage /\ field = 0
        /\ \/ stage = "open" /\ stage' \in {"failed", "load"}
           \/ stage = "load" /\ stage' = "loaded" /\ n = Len(lines)
    BY <1>2 DEF Open, EndOfRecords, ReaderInv, SlotFits, fileVars, arrayVars, slotVars
  <2>2. RecordsFit'
    BY <2>1 DEF ReaderInv, RecordsFit
  <2>3. SlotFits'
    BY <2>1 DEF ReaderInv, SlotFits
  <2> QED
    BY <2>1, <2>2, <2>3 DEF ReaderInv
<1> QED
  BY <1>1, <1>2 DEF Load, RNext

LEMMA Wider == \A a, b \in Nat : a <= b => \A k \in 1 .. a + 1 : k \in 1 .. b + 1
  OBVIOUS

\* Reading touches nothing of the index, the search and the answers.
LEMMA LoadKeeps ==
  ASSUME PInv, Load, UNCHANGED <<irs, searchVars, program>>
  PROVE  PInv'
<1>1. ReaderInv'
  BY LoadKeepsReader DEF PInv
<1>2. /\ stage \in {"open", "load"} /\ stage' \in {"failed", "load", "loaded"}
      /\ UNCHANGED <<needle, answer, irs, i, lo, hi, program>>
  BY DEF Load, RNext, Open, GetLine, TakeField, SkipField, ReadRecord, EndOfRecords, queryVars,
         searchVars
<1>3. n' \in Nat /\ n \in Nat /\ n <= n'
  BY DEF Load, RNext, Open, GetLine, TakeField, SkipField, ReadRecord, EndOfRecords, arrayVars,
         PInv, ReaderInv
<1>4. needle = NoNeedle /\ irs = <<>>
  BY <1>2 DEF PInv, StagesFit, IndexFits
<1>5. ProgramTypes'
  <2>1. ProgramTypes
    BY DEF PInv
  <2>2. Records \subseteq Records'
    BY <1>3 DEF Records
  <2>3. answer' \in Records' \cup {NoRecord}
    BY <1>2, <2>1, <2>2 DEF ProgramTypes
  <2>4. \A k \in 1 .. n + 1 : k \in 1 .. n' + 1
    BY <1>3, Wider
  <2> QED
    BY <1>2, <2>1, <2>3, <2>4 DEF ProgramTypes, Stages
<1>6. StagesFit' /\ IndexType' /\ IndexFits' /\ IndexOrdered'
  BY <1>2, <1>4 DEF StagesFit, IndexType, IndexFits, IndexOrdered, Indexed
<1>7. PassedNone' /\ WindowHolds' /\ AnswerRight' /\ CrashesFit'
  BY <1>2, <1>4 DEF PassedNone, Scans, WindowHolds, Searches, AnswerRight, Answered, CrashesFit
<1> QED
  BY <1>1, <1>5, <1>6, <1>7 DEF PInv

-----------------------------------------------------------------------------
(* Making the index                                                        *)

LEMMA MkIndexKeeps ==
  ASSUME PInv, MkIndex, UNCHANGED <<searchVars, program>>, program \in Queries,
         IndexType', IndexFits', IndexOrdered'
  PROVE  PInv'
<1>1. stage = "loaded" /\ stage' = "read" /\ UNCHANGED <<fileVars, arrayVars, queryVars>>
  BY DEF MkIndex
<1>2. ReaderInv'
  BY <1>1, ReaderKept DEF PInv
<1>3. needle = NoNeedle /\ UNCHANGED <<rs, n, needle, answer, i, lo, hi>>
  BY <1>1 DEF PInv, StagesFit, arrayVars, queryVars, searchVars
<1>4. ProgramTypes' /\ StagesFit'
  BY <1>1, <1>3 DEF PInv, ProgramTypes, StagesFit, Stages, Records
<1>5. PassedNone' /\ WindowHolds' /\ AnswerRight' /\ CrashesFit'
  BY <1>1, <1>3 DEF PassedNone, Scans, WindowHolds, Searches, AnswerRight, Answered, CrashesFit
<1> QED
  BY <1>2, <1>4, <1>5 DEF PInv

\* An entry is that of a record and has its id.
LEMMA EntryType ==
  ASSUME ReaderInv, NEW r \in Records
  PROVE  /\ Entry(r) \in [osm_id : Int, rs : Records]
         /\ Entry(r).rs = r /\ Entry(r).osm_id = rs[r].osm_id
         /\ rs[r] \in RecordSet /\ rs[r].osm_id \in Int
<1>1. rs[r] \in RecordSet
  BY DEF ReaderInv, Records
<1>2. rs[r].osm_id \in Int
  BY <1>1 DEF RecordSet
<1> QED
  BY <1>1, <1>2 DEF Entry

\* An array of entries, one for each record.
LEMMA EntriesType ==
  ASSUME ReaderInv, NEW p \in [Records -> Records],
         irs' = [k \in Records |-> Entry(p[k])]
  PROVE  /\ irs' \in Seq([osm_id : Int, rs : Records])
         /\ \A k \in Records : irs'[k].rs = p[k] /\ irs'[k].osm_id = rs[p[k]].osm_id
<1>1. \A k \in Records : /\ irs'[k] \in [osm_id : Int, rs : Records]
                         /\ irs'[k].rs = p[k] /\ irs'[k].osm_id = rs[p[k]].osm_id
  BY EntryType
<1>2. n \in Nat
  BY DEF ReaderInv
<1> DEFINE S == [osm_id : Int, rs : Records]
<1>3. irs' \in [1 .. n -> S]
  BY <1>1 DEF Records
<1> HIDE DEF S
<1>4. irs' \in Seq(S)
  BY <1>2, <1>3
<1> QED
  BY <1>1, <1>4 DEF S

LEMMA MkNaiveKeeps ==
  ASSUME PInv, MkNaive, UNCHANGED program
  PROVE  PInv'
<1>1. program \in Queries /\ program = "id_query_naive"
  BY DEF MkNaive, Queries
<1>2. stage' = "read" /\ UNCHANGED <<irs, rs, n, searchVars>> /\ MkIndex
  BY DEF MkNaive, MkIndex, arrayVars
<1>3. IndexType' /\ IndexFits' /\ IndexOrdered'
  BY <1>1, <1>2 DEF PInv, IndexType, IndexFits, IndexOrdered, Indexed, Records
<1> QED
  BY <1>1, <1>2, <1>3, MkIndexKeeps

LEMMA MkIndexedKeeps ==
  ASSUME PInv, MkIndexed, UNCHANGED program
  PROVE  PInv'
<1>1. program \in Queries /\ program = "id_query_indexed"
  BY DEF MkIndexed, Queries
<1>2. /\ irs' = [k \in Records |-> Entry(k)] /\ stage' = "read"
      /\ UNCHANGED <<rs, n, searchVars>> /\ MkIndex
  BY DEF MkIndexed, MkIndex, arrayVars
<1> DEFINE p == [k \in Records |-> k]
<1>3. p \in [Records -> Records] /\ irs' = [k \in Records |-> Entry(p[k])]
  BY <1>2
<1> HIDE DEF p
<1>4. /\ irs' \in Seq([osm_id : Int, rs : Records])
      /\ \A k \in Records : irs'[k].rs = p[k] /\ irs'[k].osm_id = rs[p[k]].osm_id
  BY <1>3, EntriesType DEF PInv
<1>5. \A k \in Records : p[k] = k
  BY DEF p
<1>6. IndexType' /\ IndexFits' /\ IndexOrdered'
  BY <1>1, <1>2, <1>4, <1>5 DEF IndexType, IndexFits, IndexOrdered, Indexed, Records
<1> QED
  BY <1>1, <1>2, <1>6, MkIndexKeeps

LEMMA MkBinsortKeeps ==
  ASSUME PInv, MkBinsort, UNCHANGED program
  PROVE  PInv'
<1>1. program \in Queries /\ program = "id_query_binsort"
  BY DEF MkBinsort, Queries
<1>2. stage' = "read" /\ UNCHANGED <<rs, n, searchVars>> /\ MkIndex
  BY DEF MkBinsort, MkIndex, arrayVars
<1>3. PICK p \in Bijection(Records, Records) :
        /\ irs' = [k \in Records |-> Entry(p[k])]
        /\ \A j, k \in Records : j < k => Ordered(Entry(p[j]), Entry(p[k]))
  BY DEF MkBinsort
<1>4. p \in [Records -> Records] /\ \A r \in Records : \E k \in Records : p[k] = r
  BY DEF Bijection, Injection, Surjection
<1>5. /\ irs' \in Seq([osm_id : Int, rs : Records])
      /\ \A k \in Records : irs'[k].rs = p[k] /\ irs'[k].osm_id = rs[p[k]].osm_id
  BY <1>3, <1>4, EntriesType DEF PInv
<1>6. ASSUME NEW j \in Records, NEW k \in Records, j < k
      PROVE  irs'[j].osm_id <= irs'[k].osm_id
  <2>1. irs'[j] = Entry(p[j]) /\ irs'[k] = Entry(p[k])
    BY <1>3
  <2>2. Ordered(Entry(p[j]), Entry(p[k]))
    BY <1>3, <1>6
  <2> QED
    BY <2>1, <2>2 DEF Ordered
<1>7. IndexType' /\ IndexFits'
  BY <1>1, <1>2, <1>4, <1>5 DEF IndexType, IndexFits, Indexed, Records
<1>8. IndexOrdered'
  <2>1. ASSUME NEW r \in Records PROVE \E k \in Records : irs'[k].rs = r
    <3>1. PICK k \in Records : p[k] = r
      BY <1>4
    <3>2. irs'[k].rs = p[k]
      BY <1>5
    <3> QED
      BY <3>1, <3>2
  <2>2. Records' = Records
    BY <1>2 DEF Records
  <2>3. program' # "id_query_indexed"
    BY <1>1
  <2> QED
    BY <1>6, <2>1, <2>2, <2>3 DEF IndexOrdered
<1> QED
  BY <1>1, <1>2, <1>7, <1>8, MkIndexKeeps

-----------------------------------------------------------------------------
(* Queries                                                                 *)

\* After loading, a step leaves the records and the index alone.
LEMMA IndexKept ==
  ASSUME PInv, UNCHANGED <<irs, program, fileVars, arrayVars>>,
         stage \in {"loaded", "read", "lookup"}, stage' \in {"loaded", "read", "lookup", "done", "crashed"},
         stage' \in {"read", "lookup"} => stage \in {"read", "lookup"},
         stage' = "loaded" => stage = "loaded"
  PROVE  ReaderInv' /\ IndexType' /\ IndexFits' /\ IndexOrdered'
<1>1. UNCHANGED <<rs, n>>
  BY DEF arrayVars
<1>2. ReaderInv'
  BY ReaderKept DEF PInv
<1>3. IndexType' /\ IndexFits'
  BY <1>1 DEF PInv, IndexType, IndexFits, Indexed, Records
<1>4. IndexOrdered'
  BY <1>1 DEF PInv, IndexOrdered, Indexed, Records
<1> QED
  BY <1>2, <1>3, <1>4

LEMMA Bounds == ASSUME ReaderInv PROVE n \in Nat /\ 1 \in 1 .. n + 1 /\ n + 1 \in 1 .. n + 1
<1>1. n \in Nat
  BY DEF ReaderInv
<1> QED
  BY <1>1

\* The whole index is the first window, the first record the next to look at.
LEMMA StartLookupKeeps ==
  ASSUME PInv, StartLookup, UNCHANGED program
  PROVE  PInv'
<1>1. /\ stage = "read" /\ stage' = "lookup" /\ needle' \in Needles /\ answer' = NoRecord
      /\ i' = 1 /\ lo' = 1 /\ hi' = n + 1
      /\ UNCHANGED <<irs, program, fileVars, arrayVars, rs, n>>
  BY DEF StartLookup, ReadQuery, FirstIndex, arrayVars
<1>2. ReaderInv' /\ IndexType' /\ IndexFits' /\ IndexOrdered'
  BY <1>1, IndexKept
<1>3. needle' \in Int /\ needle' # NoNeedle /\ program \in Queries
  BY <1>1, QueryAssumption DEF PInv, StagesFit
<1>4. n \in Nat /\ 1 \in 1 .. n + 1 /\ n + 1 \in 1 .. n + 1
  BY Bounds DEF PInv
<1>5. ProgramTypes' /\ StagesFit'
  BY <1>1, <1>3, <1>4 DEF PInv, ProgramTypes, StagesFit, Stages
<1>6. 1 .. i' - 1 = {}
  BY <1>1
<1>7. PassedNone' /\ AnswerRight' /\ CrashesFit'
  BY <1>1, <1>6 DEF PassedNone, AnswerRight, Answered, CrashesFit
<1>8. \A k \in Records' : k \in lo' .. hi' - 1
  BY <1>1, <1>4 DEF Records
<1>9. WindowHolds'
  BY <1>8 DEF WindowHolds
<1> QED
  BY <1>2, <1>5, <1>7, <1>9 DEF PInv

\* A lookup returns a right answer, and the loop prints it.
LEMMA AnswerKeeps ==
  ASSUME PInv, NEW r \in Records \cup {NoRecord}, Answer(r),
         UNCHANGED <<irs, searchVars, program>>,
         r = NoRecord => \A k \in Records : rs[k].osm_id # needle,
         r # NoRecord =>
           /\ rs[r].osm_id = needle
           /\ program # "id_query_binsort" => \A k \in 1 .. r - 1 : rs[k].osm_id # needle
  PROVE  PInv'
<1>1. /\ stage = "lookup" /\ stage' \in {"read", "crashed"} /\ answer' = r
      /\ stage' = "crashed" => r # NoRecord /\ "name" \notin DOMAIN rs[r].holds
      /\ UNCHANGED <<irs, program, fileVars, arrayVars, rs, n, needle, i, lo, hi>>
  BY DEF Answer, arrayVars, searchVars
<1>2. ReaderInv' /\ IndexType' /\ IndexFits' /\ IndexOrdered'
  BY <1>1, IndexKept
<1>3. program \in Queries /\ Records' = Records
  BY <1>1 DEF PInv, StagesFit, Records
<1>4. ProgramTypes'
  BY <1>1, <1>3 DEF PInv, ProgramTypes, Stages
<1>5. StagesFit' /\ CrashesFit'
  BY <1>1, <1>3 DEF PInv, StagesFit, CrashesFit
<1>6. AnswerRight'
  BY <1>1, <1>3 DEF AnswerRight
<1>7. PassedNone' /\ WindowHolds'
  BY <1>1 DEF PassedNone, Scans, WindowHolds, Searches
<1> QED
  BY <1>2, <1>4, <1>5, <1>6, <1>7 DEF PInv

\* A step inside a lookup moves the search on.
LEMMA SearchKeeps ==
  ASSUME PInv, UNCHANGED <<loopVars, irs, program>>, stage = "lookup",
         i' \in 1 .. n + 1, lo' \in 1 .. n + 1, hi' \in 1 .. n + 1,
         PassedNone', WindowHolds'
  PROVE  PInv'
<1>1. UNCHANGED <<irs, program, fileVars, arrayVars, stage, needle, answer, rs, n>>
  BY DEF loopVars, queryVars, arrayVars
<1>2. ReaderInv' /\ IndexType' /\ IndexFits' /\ IndexOrdered'
  BY <1>1, IndexKept
<1>3. ProgramTypes'
  BY <1>1 DEF PInv, ProgramTypes, Records
<1>4. StagesFit' /\ CrashesFit' /\ AnswerRight'
  BY <1>1 DEF PInv, StagesFit, CrashesFit, AnswerRight, Answered
<1> QED
  BY <1>2, <1>3, <1>4 DEF PInv

-----------------------------------------------------------------------------
(* The linear searches                                                     *)

\* With or without an index, the loop looks at the record number i.
LEMMA ScanLooksAt ==
  ASSUME PInv, Scans, i \in Records
  PROVE  ScannedId = rs[i].osm_id /\ ScannedRecord = i
<1>1. CASE program = "id_query_naive"
  BY <1>1 DEF ScannedId, ScannedRecord
<1>2. CASE program # "id_query_naive"
  <2>1. Indexed /\ program = "id_query_indexed"
    BY <1>2 DEF Scans, Queries, Indexed
  <2>2. irs[i].rs = i /\ irs[i].osm_id = rs[i].osm_id
    BY <2>1 DEF PInv, IndexFits, IndexOrdered
  <2> QED
    BY <1>2, <2>2 DEF ScannedId, ScannedRecord
<1> QED
  BY <1>1, <1>2

LEMMA ScanOnKeeps ==
  ASSUME PInv, ScanOn, UNCHANGED program
  PROVE  PInv'
<1>1. /\ Scans /\ i \in Records /\ i' = i + 1 /\ UNCHANGED <<loopVars, irs, lo, hi>>
      /\ rs[i].osm_id # needle
  BY ScanLooksAt DEF ScanOn
<1>2. stage = "lookup" /\ program # "id_query_binsort" /\ UNCHANGED <<rs, stage, needle>>
  BY <1>1 DEF Scans, loopVars, arrayVars, queryVars
<1>3. n \in Nat /\ i \in 1 .. n
  BY <1>1, Bounds DEF PInv, Records
<1>4. i' \in 1 .. n + 1 /\ lo' \in 1 .. n + 1 /\ hi' \in 1 .. n + 1
  BY <1>1, <1>3 DEF PInv, ProgramTypes
<1>5. PassedNone'
  <2>1. \A k \in 1 .. i - 1 : rs[k].osm_id # needle
    BY <1>1 DEF PInv, PassedNone
  <2>2. \A k \in 1 .. (i + 1) - 1 : k = i \/ k \in 1 .. i - 1
    BY <1>3
  <2>3. \A k \in 1 .. i' - 1 : rs[k].osm_id # needle
    BY <1>1, <2>1, <2>2
  <2> QED
    BY <1>1, <1>2, <2>3 DEF PassedNone
<1>6. WindowHolds'
  BY <1>2 DEF WindowHolds, Searches
<1> QED
  BY <1>1, <1>2, <1>4, <1>5, <1>6, SearchKeeps

LEMMA ScanFindsKeeps ==
  ASSUME PInv, ScanFinds, UNCHANGED program
  PROVE  PInv' /\ HasId(i, needle) /\ Answer(i) /\ i \in Records
<1>1. /\ Scans /\ i \in Records /\ Answer(i) /\ UNCHANGED <<irs, searchVars>>
      /\ rs[i].osm_id = needle
  BY ScanLooksAt DEF ScanFinds
<1>2. \A k \in 1 .. i - 1 : rs[k].osm_id # needle
  BY <1>1 DEF PInv, PassedNone
<1>3. i # NoRecord
  BY <1>1, Bounds, QueryAssumption DEF PInv, Records
<1> QED
  BY <1>1, <1>2, <1>3, AnswerKeeps DEF HasId

LEMMA ScanEndsKeeps ==
  ASSUME PInv, ScanEnds, UNCHANGED program
  PROVE  PInv' /\ (\A k \in Records : ~HasId(k, needle)) /\ Answer(NoRecord)
<1>1. Scans /\ i \notin Records /\ Answer(NoRecord) /\ UNCHANGED <<irs, searchVars>>
  BY DEF ScanEnds
<1>2. n \in Nat /\ i \in 1 .. n + 1
  BY Bounds DEF PInv, ProgramTypes
<1>3. i - 1 = n
  BY <1>1, <1>2 DEF Records
<1>4. \A k \in Records : rs[k].osm_id # needle
  BY <1>1, <1>3 DEF PInv, PassedNone, Records
<1> QED
  BY <1>1, <1>4, AnswerKeeps DEF HasId

-----------------------------------------------------------------------------
(* The binary search                                                       *)

\* What the invariant says of the index while it is searched.
LEMMA SearchedIndex ==
  ASSUME PInv, Searches
  PROVE  /\ \A k \in Records : /\ irs[k].rs \in Records /\ irs[k].osm_id \in Int
                               /\ irs[k].osm_id = rs[irs[k].rs].osm_id
         /\ \A r \in Records : \E k \in Records : irs[k].rs = r
         /\ \A j, k \in Records : j < k => irs[j].osm_id <= irs[k].osm_id
         /\ needle \in Int
<1>1. Indexed /\ program = "id_query_binsort"
  BY DEF Searches, Indexed
<1>2. \A k \in Records : irs[k].rs \in Records /\ irs[k].osm_id = rs[irs[k].rs].osm_id
  BY <1>1 DEF PInv, IndexFits
<1>3. \A r \in Records : rs[r].osm_id \in Int
  BY EntryType DEF PInv
<1>4. needle \in Int
  BY DEF PInv, StagesFit, ProgramTypes, Searches
<1> QED
  BY <1>1, <1>2, <1>3, <1>4 DEF PInv, IndexOrdered

\* The middle of the window is in the window.
LEMMA MidInside ==
  ASSUME PInv, lo < hi
  PROVE  Mid \in Records /\ Mid \in Int /\ lo <= Mid /\ Mid < hi
<1>1. n \in Nat /\ lo \in 1 .. n + 1 /\ hi \in 1 .. n + 1
  BY Bounds DEF PInv, ProgramTypes
<1> QED
  BY <1>1 DEF Mid, Records

\* The half that is left out holds no record with the id.
LEMMA HalveKeeps ==
  ASSUME PInv, Halve, UNCHANGED program
  PROVE  PInv'
<1>1. /\ Searches /\ lo < hi /\ UNCHANGED <<loopVars, irs, i>>
      /\ \/ Compare(irs[Mid]) < 0 /\ hi' = Mid /\ lo' = lo
         \/ Compare(irs[Mid]) > 0 /\ lo' = Mid + 1 /\ hi' = hi
  BY DEF Halve
<1>2. /\ stage = "lookup" /\ program = "id_query_binsort" /\ UNCHANGED <<rs, n, stage, needle>>
      /\ Records' = Records
  BY <1>1 DEF Searches, loopVars, arrayVars, queryVars, Records
<1>3. n \in Nat /\ lo \in 1 .. n + 1 /\ hi \in 1 .. n + 1 /\ i \in 1 .. n + 1
  BY Bounds DEF PInv, ProgramTypes
<1>4. Mid \in Records /\ Mid \in 1 .. n /\ lo <= Mid /\ Mid < hi
  BY <1>1, MidInside DEF Records
<1>5. /\ \A k \in Records : irs[k].osm_id \in Int
      /\ \A j, k \in Records : j < k => irs[j].osm_id <= irs[k].osm_id
      /\ needle \in Int
  BY <1>1, SearchedIndex
<1>6. \A k \in Records : irs[k].osm_id = needle => k \in lo .. hi - 1
  BY <1>1 DEF PInv, WindowHolds
<1>7. ASSUME needle < irs[Mid].osm_id, hi' = Mid, lo' = lo
      PROVE  /\ lo' \in 1 .. n + 1 /\ hi' \in 1 .. n + 1
             /\ \A k \in Records : irs[k].osm_id = needle => k \in lo .. Mid - 1
  <2>1. ASSUME NEW k \in Records, irs[k].osm_id = needle PROVE k < Mid
    <3>1. k \in Int /\ ~(Mid < k) /\ k # Mid
      BY <1>3, <1>4, <1>5, <1>7, <2>1 DEF Records
    <3> QED
      BY <1>4, <3>1
  <2>2. Mid \in 1 .. n + 1
    BY <1>3, <1>4
  <2>3. ASSUME NEW k \in Records, irs[k].osm_id = needle PROVE k \in lo .. Mid - 1
    <3>1. k \in lo .. hi - 1 /\ k < Mid
      BY <1>6, <2>1, <2>3
    <3> QED
      BY <1>3, <1>4, <3>1
  <2> QED
    BY <1>3, <1>7, <2>2, <2>3
<1>8. ASSUME needle > irs[Mid].osm_id, lo' = Mid + 1, hi' = hi
      PROVE  /\ lo' \in 1 .. n + 1 /\ hi' \in 1 .. n + 1
             /\ \A k \in Records : irs[k].osm_id = needle => k \in Mid + 1 .. hi - 1
  <2>1. ASSUME NEW k \in Records, irs[k].osm_id = needle PROVE Mid < k
    <3>1. k \in Int /\ ~(k < Mid) /\ k # Mid
      BY <1>3, <1>4, <1>5, <1>8, <2>1 DEF Records
    <3> QED
      BY <1>4, <3>1
  <2>2. Mid + 1 \in 1 .. n + 1
    BY <1>3, <1>4
  <2> QED
    BY <1>3, <1>4, <1>6, <1>8, <2>1, <2>2
<1>9. \/ needle < irs[Mid].osm_id /\ hi' = Mid /\ lo' = lo
      \/ needle > irs[Mid].osm_id /\ lo' = Mid + 1 /\ hi' = hi
  BY <1>1, <1>4, <1>5 DEF Compare
<1>10. lo' \in 1 .. n + 1 /\ hi' \in 1 .. n + 1 /\ i' \in 1 .. n + 1
  BY <1>1, <1>3, <1>7, <1>8, <1>9
<1>11. \A k \in Records : irs[k].osm_id = needle => k \in lo' .. hi' - 1
  BY <1>7, <1>8, <1>9
<1>12. WindowHolds' /\ PassedNone'
  BY <1>1, <1>2, <1>11 DEF WindowHolds, PassedNone, Scans
<1> QED
  BY <1>1, <1>2, <1>10, <1>12, SearchKeeps

LEMMA SearchFindsKeeps ==
  ASSUME PInv, SearchFinds, UNCHANGED program
  PROVE  /\ PInv' /\ irs[Mid].rs \in Records
         /\ HasId(irs[Mid].rs, needle) /\ Answer(irs[Mid].rs)
<1>1. /\ Searches /\ lo < hi /\ Compare(irs[Mid]) = 0
      /\ Answer(irs[Mid].rs) /\ UNCHANGED <<irs, searchVars>>
  BY DEF SearchFinds
<1>2. Mid \in Records
  BY <1>1, MidInside
<1>3. /\ irs[Mid].rs \in Records /\ irs[Mid].osm_id \in Int /\ needle \in Int
      /\ irs[Mid].osm_id = rs[irs[Mid].rs].osm_id
  BY <1>1, <1>2, SearchedIndex
<1>4. rs[irs[Mid].rs].osm_id = needle
  BY <1>1, <1>3 DEF Compare
<1>5. irs[Mid].rs # NoRecord
  BY <1>3, Bounds, QueryAssumption DEF PInv, Records
<1>6. program = "id_query_binsort"
  BY <1>1 DEF Searches
<1> QED
  BY <1>1, <1>3, <1>4, <1>5, <1>6, AnswerKeeps DEF HasId

LEMMA SearchEndsKeeps ==
  ASSUME PInv, SearchEnds, UNCHANGED program
  PROVE  PInv' /\ (\A k \in Records : ~HasId(k, needle)) /\ Answer(NoRecord)
<1>1. Searches /\ lo >= hi /\ Answer(NoRecord) /\ UNCHANGED <<irs, searchVars>>
  BY DEF SearchEnds
<1>2. n \in Nat /\ lo \in 1 .. n + 1 /\ hi \in 1 .. n + 1
  BY Bounds DEF PInv, ProgramTypes
<1>3. \A k \in Records : irs[k].osm_id # needle
  BY <1>1, <1>2 DEF PInv, WindowHolds, Records
<1>4. \A r \in Records : rs[r].osm_id # needle
  BY <1>1, <1>3, SearchedIndex
<1> QED
  BY <1>1, <1>4, AnswerKeeps DEF HasId

-----------------------------------------------------------------------------
(* The whole program                                                       *)

LEMMA EndOfQueriesKeeps ==
  ASSUME PInv, EndOfQueries, UNCHANGED <<irs, searchVars, program>>
  PROVE  PInv'
<1>1. /\ stage = "read" /\ stage' = "done"
      /\ UNCHANGED <<irs, program, fileVars, arrayVars, rs, n, needle, answer, i, lo, hi>>
  BY DEF EndOfQueries, arrayVars, queryVars, searchVars
<1>2. ReaderInv' /\ IndexType' /\ IndexFits' /\ IndexOrdered'
  BY <1>1, IndexKept
<1>3. Records' = Records
  BY <1>1 DEF Records
<1>4. ProgramTypes' /\ StagesFit' /\ CrashesFit'
  BY <1>1, <1>3 DEF PInv, ProgramTypes, Stages, StagesFit, CrashesFit
<1>5. AnswerRight' /\ PassedNone' /\ WindowHolds'
  BY <1>1, <1>3 DEF PInv, AnswerRight, Answered, PassedNone, Scans, WindowHolds, Searches
<1> QED
  BY <1>2, <1>4, <1>5 DEF PInv

LEMMA RandomIdKeeps ==
  ASSUME PInv, RandomId, UNCHANGED program
  PROVE  PInv'
<1>1. /\ program = "random_ids" /\ stage = "loaded" /\ stage' \in {"loaded", "crashed"}
      /\ stage' = "crashed" => n = 0
      /\ answer' \in Records \/ answer' = answer
      /\ UNCHANGED <<irs, program, fileVars, arrayVars, rs, n, needle, i, lo, hi>>
  BY DEF RandomId, arrayVars, searchVars
<1>2. ReaderInv' /\ IndexType' /\ IndexFits' /\ IndexOrdered'
  BY <1>1, IndexKept
<1>3. Records' = Records /\ needle = NoNeedle
  BY <1>1 DEF PInv, StagesFit, Records
<1>4. ProgramTypes' /\ StagesFit' /\ CrashesFit'
  BY <1>1, <1>3 DEF PInv, ProgramTypes, Stages, StagesFit, CrashesFit
<1>5. AnswerRight' /\ PassedNone' /\ WindowHolds'
  BY <1>1, <1>3 DEF AnswerRight, Answered, PassedNone, Scans, WindowHolds, Searches
<1> QED
  BY <1>2, <1>4, <1>5 DEF PInv

allVars == <<loopVars, irs, searchVars, program>>

LEMMA StutterKeeps == PInv /\ UNCHANGED allVars => PInv'
<1> SUFFICES ASSUME PInv, UNCHANGED allVars PROVE PInv'
  OBVIOUS
<1> USE DEF PInv, allVars, loopVars, fileVars, arrayVars, queryVars, searchVars
<1>1. ReaderInv' /\ ProgramTypes' /\ StagesFit'
  <2>1. ReaderInv'
    BY ReaderStill
  <2> QED
    BY <2>1 DEF ProgramTypes, StagesFit, Records
<1>2. IndexType' /\ IndexFits' /\ IndexOrdered'
  BY DEF IndexType, IndexFits, IndexOrdered, Indexed, Records
<1>3. PassedNone' /\ WindowHolds' /\ AnswerRight' /\ CrashesFit'
  BY DEF PassedNone, Scans, WindowHolds, Searches, AnswerRight, Answered, CrashesFit, Records
<1> QED
  BY <1>1, <1>2, <1>3

LEMMA PInvStep == PInv /\ [PNext]_allVars => PInv'
<1> SUFFICES ASSUME PInv, [PNext]_allVars PROVE PInv'
  OBVIOUS
<1>1. CASE PNext
  <2>1. UNCHANGED program
    BY <1>1 DEF PNext
  <2>2. CASE (Load \/ EndOfQueries) /\ UNCHANGED <<irs, searchVars>>
    BY <2>1, <2>2, LoadKeeps, EndOfQueriesKeeps
  <2>3. CASE MkNaive \/ MkIndexed \/ MkBinsort
    BY <2>1, <2>3, MkNaiveKeeps, MkIndexedKeeps, MkBinsortKeeps
  <2>4. CASE StartLookup
    BY <2>1, <2>4, StartLookupKeeps
  <2>5. CASE ScanOn \/ ScanFinds \/ ScanEnds
    BY <2>1, <2>5, ScanOnKeeps, ScanFindsKeeps, ScanEndsKeeps
  <2>6. CASE Halve \/ SearchFinds \/ SearchEnds
    BY <2>1, <2>6, HalveKeeps, SearchFindsKeeps, SearchEndsKeeps
  <2>7. CASE RandomId
    BY <2>1, <2>7, RandomIdKeeps
  <2> QED
    BY <1>1, <2>2, <2>3, <2>4, <2>5, <2>6, <2>7 DEF PNext
<1>2. CASE UNCHANGED allVars
  BY <1>2, StutterKeeps
<1> QED
  BY <1>1, <1>2

\* Every reachable state of the four programs satisfies the strengthening.
THEOREM PInvHolds == PSpec => []PInv
  BY InitPInv, PInvStep, PTL DEF PSpec, allVars

-----------------------------------------------------------------------------
(* What follows from it                                                    *)

\* The line of a record has a number of tabs and an id.
LEMMA LineOf ==
  ASSUME ReaderInv, NEW k \in 1 .. n
  PROVE  /\ k \in DOMAIN lines /\ lines[k] \in LineKinds
         /\ lines[k].tabs \in Nat /\ lines[k].osm_id \in Int
         /\ Parsed(lines[k], 24, rs[k].holds, rs[k].cut) /\ rs[k].osm_id \in Int
         /\ lines[k].tabs >= 4 => rs[k].osm_id = lines[k].osm_id
<1>1. k \in DOMAIN lines
  BY DEF ReaderInv
<1>2. lines[k] \in LineKinds
  BY <1>1 DEF ReaderInv
<1>3. rs[k].osm_id \in Int
  BY EntryType DEF Records
<1> QED
  BY <1>1, <1>2, <1>3, ReaderAssumption DEF ReaderInv, RecordsFit

LEMMA InvTypes == PInv => PTypeOK
<1> SUFFICES ASSUME PInv PROVE PTypeOK
  OBVIOUS
<1>1. /\ n \in 0 .. MaxLines /\ Len(rs) = n /\ capacity \in 1 .. IntMax
      /\ field \in 0 .. 25 /\ start \in 1 .. 25 /\ cut \subseteq 1 .. 24 /\ holds \in Holdings
  BY ReaderAssumption DEF PInv, ReaderInv, SlotFits
<1>2. ASSUME NEW k \in 1 .. n
      PROVE  rs[k].osm_id \in Int /\ rs[k].holds \in Holdings
  BY <1>2, LineOf DEF PInv, Parsed
<1>3. ASSUME NEW h \in Holdings, NEW f \in DOMAIN h
      PROVE  h[f] \in Nat
  BY <1>3 DEF Holdings
<1>4. RTypeOK
  BY <1>1, <1>2, <1>3 DEF RTypeOK
<1> QED
  BY <1>4 DEF PInv, ProgramTypes, IndexType, PTypeOK, Stages

\* The array, the index and the searches keep their types; no lookup leaves the
\* array (record.c:153-162, id_query_binsort.c:52-79).
THEOREM PTypeCorrect == PSpec => []PTypeOK
  BY PInvHolds, InvTypes, PTL

\* The slot that read_record writes is in the array, for files of any length
\* (record.c:153-162).
THEOREM ReadsIntoArrayHolds == PSpec => []ReadsIntoArray
<1>1. PInv => ReadsIntoArray
  BY DEF PInv, ReaderInv, ReadsIntoArray
<1> QED
  BY <1>1, PInvHolds, PTL

\* However many columns a line has and whichever are blank, the 24 `if`s leave each
\* whole and alone in the field of its name, but for the two that go to `west` and
\* for numbers that are blank (record.c:39-136).
THEOREM ColumnsKeptHolds == PSpec => []ColumnsKept
<1>1. PInv => ColumnsKept
  <2> SUFFICES ASSUME PInv, NEW k \in 1 .. n, NEW c \in 1 .. 24 \ {19},
                      c <= lines[k].tabs, c = 18 => lines[k].tabs = 18,
                      c \in Numbers => c \notin lines[k].blank
               PROVE  Kept(k, c)
    BY DEF ColumnsKept
  <2>1. lines[k] \in LineKinds /\ Parsed(lines[k], 24, rs[k].holds, rs[k].cut)
    BY LineOf DEF PInv
  <2> QED
    BY <2>1, ParsedLine DEF Kept
<1> QED
  BY <1>1, PInvHolds, PTL

\* The binary search never loses a record with the id (id_query_binsort.c:62-79).
THEOREM WindowHoldsAlways == PSpec => []WindowHolds
<1>1. PInv => WindowHolds
  BY DEF PInv
<1> QED
  BY <1>1, PInvHolds, PTL

\* What the query programs print is about the file (id_query.c:35-46).
THEOREM AnswersFromFileHolds == PSpec => []AnswersFromFile
<1>1. PInv => AnswersFromFile
  <2> SUFFICES ASSUME PInv, Answered
               PROVE  IF answer = NoRecord
                      THEN \A k \in DOMAIN lines :
                             lines[k].tabs >= 4 => lines[k].osm_id # needle
                      ELSE /\ lines[answer].tabs >= 4 => lines[answer].osm_id = needle
                           /\ program # "id_query_binsort" =>
                                \A k \in 1 .. answer - 1 : rs[k].osm_id # needle
    BY DEF AnswersFromFile
  <2>1. n = Len(lines) /\ DOMAIN lines = 1 .. n
    BY DEF PInv, ReaderInv, StagesFit, Answered
  <2>2. CASE answer = NoRecord
    BY <2>1, <2>2, LineOf DEF PInv, AnswerRight, Records
  <2>3. CASE answer # NoRecord
    <3>1. answer \in 1 .. n
      BY <2>3 DEF PInv, ProgramTypes, Records
    <3> QED
      BY <2>3, <3>1, LineOf DEF PInv, AnswerRight
  <2> QED
    BY <2>2, <2>3
<1> QED
  BY <1>1, PInvHolds, PTL

\* A program crashes only over a file without records or a line without a tab
\* (random_ids.c:21, id_query.c:43).
THEOREM CrashesExplainedHolds == PSpec => []CrashesExplained
<1>1. PInv => CrashesExplained
  <2> SUFFICES ASSUME PInv, stage = "crashed"
               PROVE  \/ program = "random_ids" /\ lines = <<>>
                      \/ program \in Queries /\ lines[answer].tabs = 0
    BY DEF CrashesExplained
  <2>1. CASE program = "random_ids" /\ n = 0
    <3>1. lines \in Seq(LineKinds) /\ Len(lines) = 0
      BY <2>1 DEF PInv, ReaderInv
    <3> QED
      BY <2>1, <3>1
  <2>2. CASE program \in Queries /\ answer # NoRecord /\ "name" \notin DOMAIN rs[answer].holds
    <3>1. answer \in 1 .. n
      BY <2>2 DEF PInv, ProgramTypes, Records
    <3>2. /\ lines[answer] \in LineKinds /\ lines[answer].tabs \in Nat
          /\ Parsed(lines[answer], 24, rs[answer].holds, rs[answer].cut)
      BY <3>1, LineOf DEF PInv
    <3>3. ~(lines[answer].tabs >= 1)
      BY <2>2, <3>2, ParsedLine
    <3> QED
      BY <2>2, <3>2, <3>3
  <2> QED
    BY <2>1, <2>2 DEF PInv, CrashesFit
<1> QED
  BY <1>1, PInvHolds, PTL

-----------------------------------------------------------------------------
(* The promise of IdQuery                                                  *)

LEMMA PStepImplements ==
  PInv /\ [PNext]_allVars => [(program \in Queries) => QNext]_loopVars
<1> SUFFICES ASSUME PInv, PNext, program \in Queries PROVE QNext \/ UNCHANGED loopVars
  BY DEF allVars
<1>1. UNCHANGED program
  BY DEF PNext
<1>2. CASE Load \/ EndOfQueries
  BY <1>2 DEF QNext
<1>3. CASE MkNaive \/ MkIndexed \/ MkBinsort
  BY <1>3 DEF MkNaive, MkIndexed, MkBinsort, QNext
<1>4. CASE StartLookup
  BY <1>4 DEF StartLookup, QNext
<1>5. CASE ScanOn \/ Halve
  BY <1>5 DEF ScanOn, Halve
<1>6. CASE ScanFinds \/ SearchFinds
  BY <1>1, <1>6, ScanFindsKeeps, SearchFindsKeeps DEF Lookup, QNext
<1>7. CASE ScanEnds \/ SearchEnds
  BY <1>1, <1>7, ScanEndsKeeps, SearchEndsKeeps DEF Lookup, QNext
<1>8. ~RandomId
  BY DEF RandomId, Queries
<1> QED
  BY <1>2, <1>3, <1>4, <1>5, <1>6, <1>7, <1>8 DEF PNext

\* The linear search, the index and the binary search all keep the promise of a
\* lookup: a record with the id if there is one (id_query_naive.c:29,
\* id_query_indexed.c:43, id_query_binsort.c:76).
THEOREM ProgramsImplementIdQuery == PSpec => ImplementIdQuery
<1>1. PInit => QInit
  BY DEF PInit
<1> QED
  BY <1>1, PInvHolds, PStepImplements, PTL DEF PSpec, ImplementIdQuery, allVars

===============================================================================
