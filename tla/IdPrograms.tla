------------------------------ MODULE IdPrograms ------------------------------
(***************************************************************************)
(* The programs that read the records for their ids: id_query_naive,       *)
(* id_query_indexed and id_query_binsort call id_query_loop with their     *)
(* index functions; random_ids prints ids of random records.               *)
(***************************************************************************)
EXTENDS IdQuery

VARIABLES
  program,   \* which main() was started
  irs,       \* the index: [osm_id, rs], where rs is the record pointed to
  i,         \* the loop of lookup_naive and lookup_indexed
  lo, hi     \* bsearch: what it looks for is in irs[lo .. hi - 1], if anywhere

searchVars == <<i, lo, hi>>

Queries == {"id_query_naive", "id_query_indexed", "id_query_binsort"}

PInit ==
  /\ QInit
  /\ program \in Queries \cup {"random_ids"}
  /\ irs = <<>> /\ i = 1 /\ lo = 1 /\ hi = 1

-----------------------------------------------------------------------------
(* mk_naive, mk_indexed and mk_binsort                                     *)

MkNaive ==
  /\ program = "id_query_naive"
  /\ MkIndex /\ UNCHANGED <<irs, searchVars>>

\* One entry per record, in the order of the file: its id and its address.
FaultyEntry(k) == [osm_id |-> rs[k].osm_id, rs |-> 1]
Entry(k)       == [osm_id |-> rs[k].osm_id, rs |-> k]

MkIndexed ==
  /\ program = "id_query_indexed"
  /\ irs' = [k \in Records |-> Entry(k)]
  /\ MkIndex /\ UNCHANGED searchVars

\* compare_method_sort orders the index; qsort may leave equal ids in any order.
Unordered(a, b) == TRUE
Ordered(a, b)   == a.osm_id <= b.osm_id

MkBinsort ==
  /\ program = "id_query_binsort"
  /\ \E p \in Bijection(Records, Records) :
       /\ irs' = [k \in Records |-> Entry(p[k])]
       /\ \A j, k \in Records : j < k => Ordered(Entry(p[j]), Entry(p[k]))
  /\ MkIndex /\ UNCHANGED searchVars

-----------------------------------------------------------------------------
(* lookup_naive and lookup_indexed                                         *)

\* What the loop compares with the needle, and what it returns when they agree.
ScannedId     == IF program = "id_query_naive" THEN rs[i].osm_id ELSE irs[i].osm_id
ScannedRecord == IF program = "id_query_naive" THEN i ELSE irs[i].rs

Scans == program \in Queries \ {"id_query_binsort"} /\ stage = "lookup"

ScanOn ==
  /\ Scans /\ i \in Records /\ ScannedId # needle
  /\ i' = i + 1
  /\ UNCHANGED <<loopVars, irs, lo, hi>>

ScanFinds ==
  /\ Scans /\ i \in Records /\ ScannedId = needle
  /\ Answer(ScannedRecord)
  /\ UNCHANGED <<irs, searchVars>>

ScanEnds ==
  /\ Scans /\ i \notin Records
  /\ Answer(NoRecord)
  /\ UNCHANGED <<irs, searchVars>>

-----------------------------------------------------------------------------
(* lookup_binsort: bsearch of the C library with compare_method_bin        *)

Searches == program = "id_query_binsort" /\ stage = "lookup"
Mid      == (lo + hi) \div 2

\* compare_method_bin, the needle against an entry: negative when it is before it.
Reversed(entry) == entry.osm_id - needle
Compare(entry)  == needle - entry.osm_id

Halve ==
  /\ Searches /\ lo < hi
  /\ \/ Compare(irs[Mid]) < 0 /\ hi' = Mid /\ lo' = lo
     \/ Compare(irs[Mid]) > 0 /\ lo' = Mid + 1 /\ hi' = hi
  /\ UNCHANGED <<loopVars, irs, i>>

SearchFinds ==
  /\ Searches /\ lo < hi /\ Compare(irs[Mid]) = 0
  /\ Answer(irs[Mid].rs)
  /\ UNCHANGED <<irs, searchVars>>

SearchEnds ==
  /\ Searches /\ lo >= hi
  /\ Answer(NoRecord)
  /\ UNCHANGED <<irs, searchVars>>

-----------------------------------------------------------------------------
\* The call of the lookup function sets its locals; the first element is number 1.
SecondIndex == 2
FirstIndex  == 1

StartLookup ==
  /\ ReadQuery
  /\ i' = FirstIndex /\ lo' = 1 /\ hi' = n + 1
  /\ UNCHANGED irs

\* random_ids divides by n, and prints on for ever.
RandomId ==
  /\ program = "random_ids" /\ stage = "loaded"
  /\ IF n = 0 THEN stage' = "crashed" /\ UNCHANGED answer
              ELSE answer' \in Records /\ UNCHANGED stage
  /\ UNCHANGED <<fileVars, arrayVars, needle, irs, searchVars>>

PNext ==
  /\ \/ (Load \/ EndOfQueries) /\ UNCHANGED <<irs, searchVars>>
     \/ MkNaive \/ MkIndexed \/ MkBinsort
     \/ StartLookup
     \/ ScanOn \/ ScanFinds \/ ScanEnds
     \/ Halve \/ SearchFinds \/ SearchEnds
     \/ RandomId
  /\ UNCHANGED program

PSpec == PInit /\ [][PNext]_<<loopVars, irs, searchVars, program>>

-----------------------------------------------------------------------------
PTypeOK ==
  /\ RTypeOK
  /\ stage \in {"open", "load", "loaded", "failed", "read", "lookup", "done", "crashed"}
  /\ needle \in Int \cup {NoNeedle} /\ answer \in Records \cup {NoRecord}
  /\ irs \in Seq([osm_id : Int, rs : Records])
  /\ i \in 1 .. n + 1 /\ lo \in 1 .. n + 1 /\ hi \in 1 .. n + 1

Answered == stage # "lookup" /\ needle # NoNeedle

\* What is printed is about the file, through reading, sorting and searching: the
\* record of a line with the id, unless that line has no fourth column and its
\* record holds whatever was in memory; "not found" only if no line has the id.  Of
\* several records with the id the linear searches give the file's first
\* (id_query.c:35-46, record.c:54-56, id_query_naive.c:30-37).
AnswersFromFile ==
  Answered =>
    IF answer = NoRecord
    THEN \A k \in DOMAIN lines : lines[k].tabs >= 4 => lines[k].osm_id # needle
    ELSE /\ lines[answer].tabs >= 4 => lines[answer].osm_id = needle
         /\ program # "id_query_binsort" =>
              \A k \in 1 .. answer - 1 : rs[k].osm_id # needle

\* The window of the binary search never loses a record with the id, duplicates and
\* the edges included; so the index is sorted as the search compares
\* (id_query_binsort.c:22-48, 62, 79).
WindowHolds ==
  Searches => \A k \in Records : irs[k].osm_id = needle => k \in lo .. hi - 1

\* No program crashes over a file with a record per line, each with a name at
\* least: only a map without records ends random_ids, and only a line without a
\* tab that is found by chance a query (random_ids.c:21, id_query.c:43).
CrashesExplained ==
  stage = "crashed" =>
    \/ program = "random_ids" /\ lines = <<>>
    \/ program \in Queries /\ lines[answer].tabs = 0

\* The three query programs are the loop over an index that keeps its promise; they
\* may differ only in which of several records with one id they print
\* (id_query_naive.c:29, id_query_indexed.c:43, id_query_binsort.c:76).
ImplementIdQuery == QInit /\ [][(program \in Queries) => QNext]_loopVars

===============================================================================
