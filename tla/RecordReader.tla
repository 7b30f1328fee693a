----------------------------- MODULE RecordReader -----------------------------
(***************************************************************************)
(* record.c: read_records opens a map file, checks its first line and      *)
(* reads one record per line into an array that doubles when it is full.   *)
(* read_record takes a line apart with 24 `if`s, one for each field.       *)
(*                                                                         *)
(* A line is abstracted to the number of its tabs, the columns that are    *)
(* blank, and what atol reads from the start of the fourth; a pointer into *)
(* a line to the column it points to the start of.                         *)
(***************************************************************************)
EXTENDS Integers, Sequences, FiniteSetsExt

CONSTANTS
  LineKinds,       \* the lines a file may have: a set of [tabs, osm_id, blank]
  MaxLines,        \* bound on the lines behind the first one
  FirstCapacity,   \* 100
  Garbage,         \* what an osm_id that was never written may hold
  IntMax           \* INT_MAX

\* The last conjunct keeps `capacity` an int: a file of 2^30 lines is not covered.
ASSUME ReaderAssumption ==
  /\ LineKinds \subseteq [tabs : Nat, osm_id : Int, blank : SUBSET Nat]
  /\ MaxLines \in Nat /\ FirstCapacity \in Nat \ {0}
  /\ Garbage \subseteq Int /\ Garbage # {}
  /\ IntMax \in Nat /\ FirstCapacity <= IntMax /\ 2 * MaxLines <= IntMax

VARIABLES
  header,      \* the file: "missing", "empty", its first line "other" or "map"
  lines,       \* the lines behind the first one
  rs, n,       \* the array; n is also the i of read_records
  capacity,
  field,       \* in read_record, the number of the next `if`; 0 outside it
  start,       \* the column that start points to
  cut,         \* the columns whose tab was overwritten by *end = 0
  holds,       \* per field of *r that was written, the column it is from
  stage        \* "open", "load", "loaded" or "failed" (NULL); then the caller's

fileVars  == <<header, lines>>
slotVars  == <<field, start, cut, holds>>
arrayVars == <<rs, n, capacity, slotVars>>

\* The columns by their names in the first line of a map.
Columns == <<"name", "alternative_names", "osm_type", "osm_id", "class", "type",
             "lon", "lat", "place_rank", "importance", "street", "city", "county",
             "state", "country", "country_code", "display_name", "west", "south",
             "east", "north", "wikidata", "wikipedia", "housenumbers">>

\* The fields that the 24 `if`s assign, in their order, and the `if`s that convert
\* a number; the others keep a pointer.
Assigned == <<"name", "alternative_names", "osm_type", "osm_id", "class", "type",
              "lon", "lat", "place_rank", "importance", "street", "city", "county",
              "state", "country", "country_code", "display_name", "west", "west",
              "east", "north", "wikidata", "wikipedia", "housenumbers">>
Numbers  == {4} \cup 7 .. 10 \cup 18 .. 21

RInit ==
  /\ header \in {"missing", "empty", "other", "map"}
  /\ lines \in UNION {[1 .. k -> LineKinds] : k \in 0 .. MaxLines}
  /\ header # "map" => lines = <<>>
  /\ rs = <<>> /\ n = 0 /\ capacity = FirstCapacity
  /\ field = 0 /\ start = 1 /\ cut = {} /\ holds = <<>>
  /\ stage = "open"

-----------------------------------------------------------------------------
\* What input_looks_ok returns; -1 when there is no first line.
LooksOk == CASE header = "empty" -> -1 [] header = "other" -> 0 [] OTHER -> 1

Open ==
  /\ stage = "open"
  /\ stage' = IF header = "missing" \/ LooksOk = 0 THEN "failed" ELSE "load"
  /\ UNCHANGED <<fileVars, arrayVars>>

-----------------------------------------------------------------------------
(* read_record, for the slot behind the last record                        *)

Line == lines[n + 1]

GetLine ==
  /\ stage = "load" /\ field = 0 /\ n < Len(lines)
  /\ field' = 1 /\ start' = 1 /\ cut' = {} /\ holds' = <<>>
  /\ UNCHANGED <<fileVars, stage, rs, n, capacity>>

\* strstr finds the tab of the column at `start`, unless that is the last column,
\* or a 0 in place of the tab ends the string.
LateTab == start < Line.tabs /\ start \notin cut
Tab     == start <= Line.tabs /\ start \notin cut

\* A number is converted before its tab is overwritten: atol, atoi and atof skip
\* white space, so a blank column gives the number of the next one that is not
\* blank, or the number 0 when there is none.
NumberFrom(line, c) ==
  LET written == {d \in c .. line.tabs + 1 : d \notin line.blank}
  IN  IF written = {} THEN 0 ELSE Min(written)

StuckStart == start
NextStart  == start + 1

TakeField ==
  /\ stage = "load" /\ field \in DOMAIN Assigned /\ Tab
  /\ holds' = [f \in DOMAIN holds \cup {Assigned[field]} |->
                 IF f # Assigned[field]  THEN holds[f]
                 ELSE IF field \in Numbers THEN NumberFrom(Line, start) ELSE start]
  /\ cut' = cut \cup {start}
  /\ start' = NextStart
  /\ field' = field + 1
  /\ UNCHANGED <<fileVars, stage, rs, n, capacity>>

SkipField ==
  /\ stage = "load" /\ field \in DOMAIN Assigned /\ ~Tab
  /\ field' = field + 1
  /\ UNCHANGED <<fileVars, stage, rs, n, capacity, start, cut, holds>>

\* read_record returns 0.  What it did not store keeps what was in memory.
LateGrown(count) == IF count > capacity THEN capacity * 2 ELSE capacity
Grown(count)     == IF count = capacity THEN capacity * 2 ELSE capacity

ReadRecord ==
  /\ stage = "load" /\ field > Len(Assigned)
  /\ \E id \in IF "osm_id" \in DOMAIN holds THEN {Line.osm_id} ELSE Garbage :
       rs' = Append(rs, [osm_id |-> id, holds |-> holds, cut |-> cut])
  /\ n' = n + 1
  /\ capacity' = Grown(n')
  /\ field' = 0
  /\ UNCHANGED <<fileVars, stage, start, cut, holds>>

\* getline fails, after the slot of another record was handed to read_record.
EndOfRecords ==
  /\ stage = "load" /\ field = 0 /\ n = Len(lines)
  /\ stage' = "loaded"
  /\ UNCHANGED <<fileVars, arrayVars>>

RNext == Open \/ GetLine \/ TakeField \/ SkipField \/ ReadRecord \/ EndOfRecords

-----------------------------------------------------------------------------
RTypeOK ==
  /\ n \in 0 .. MaxLines /\ Len(rs) = n
  /\ \A k \in 1 .. n : /\ rs[k].osm_id \in Int
                       /\ \A f \in DOMAIN rs[k].holds : rs[k].holds[f] \in Nat
  /\ capacity \in 1 .. IntMax
  /\ field \in 0 .. 25 /\ start \in 1 .. 25 /\ cut \subseteq 1 .. 24
  /\ \A f \in DOMAIN holds : holds[f] \in Nat

\* The slot that read_record is given lies within the array, also when the file
\* ends exactly where the array is full (record.c:153-162).
ReadsIntoArray == stage = "load" => n < capacity

\* Column c of line k is what the record shows in the field of that name: the whole
\* column, and nothing behind it.
Kept(k, c) ==
  /\ Columns[c] \in DOMAIN rs[k].holds /\ rs[k].holds[Columns[c]] = c
  /\ c \in rs[k].cut

\* However many columns a line has and whichever of them are blank, the sequence of
\* `if`s leaves each column that a tab ends in the field of its name, but for `west`
\* and `south`, which record.c:111 and 115 both store in `west`; of a number, unless
\* its column is blank (record.c:39-136).
ColumnsKept ==
  \A k \in 1 .. n : \A c \in 1 .. 24 \ {19} :
    /\ c <= lines[k].tabs
    /\ c = 18 => lines[k].tabs = 18
    /\ c \in Numbers => c \notin lines[k].blank
    => Kept(k, c)

\* A line with all columns, none blank, fills all fields, each with the column that
\* the header record.c:17 gives its name.
AllColumnsKept ==
  \A k \in 1 .. n : lines[k].tabs >= 23 /\ lines[k].blank = {} =>
    \A c \in 1 .. 24 : Kept(k, c)

===============================================================================
