------------------------------ MODULE CoordQuery ------------------------------
(***************************************************************************)
(* coord_query.c: the loop that builds an index of the records of a map,   *)
(* reads one query per line and looks it up.  What the index does is left  *)
(* to coord_query_naive.c (CoordNaive) and coord_query_kdtree.c (KdTree);  *)
(* here a lookup returns, in one step, some record nearest to the query.   *)
(*                                                                         *)
(* Coordinates are integers and distances are kept squared: sqrt preserves *)
(* their order and the rounding of a double is left out.                   *)
(***************************************************************************)
EXTENDS Integers

CONSTANTS
  MaxRecords,      \* bound on the number of records of a file
  Places,          \* where a record may lie: a set of [lon, lat]
  Lons, Lats,      \* the numbers of the queries
  MaxLon, MaxLat,  \* 180.0 and 90.0
  NoRecord,        \* NULL
  Unset,           \* a double that was never written
  Infinity         \* INFINITY or __DBL_MAX__, which no distance reaches

ASSUME CoordAssumption ==
  /\ MaxRecords \in Nat /\ MaxLon \in Nat /\ MaxLat \in Nat
  /\ Places \subseteq [lon : Int, lat : Int]
  /\ Lons \subseteq Int /\ Lats \subseteq Int
  /\ Unset \notin Int /\ NoRecord \notin Int /\ Infinity \notin Int

VARIABLES
  rs, n,      \* what read_records returned; &rs[i] is the number i
  stage,      \* where coord_query_loop is: start, read, lookup or done
  lon, lat,   \* the loop's variables
  answer,     \* r, the record printed last
  closest     \* the lookup's local: the distance of the best record so far

loopVars == <<rs, n, stage, lon, lat, answer>>

Ids == 0 .. n - 1

CInit ==
  /\ n \in 0 .. MaxRecords
  /\ rs \in [Ids -> Places]
  /\ stage = "start"
  /\ lon = Unset /\ lat = Unset
  /\ answer = NoRecord

-----------------------------------------------------------------------------
(* Geometry                                                                *)

\* fmin(fmax(v, -bound), bound)
Clamp(v, bound) == IF v < -bound THEN -bound ELSE IF v > bound THEN bound ELSE v

FaultySquare(v) == v
Square(v) == v * v
Distance(i, x, y) == Square(x - rs[i].lon) + Square(y - rs[i].lat)

\* The comparison with closest in both lookups.
LooseNearer(d) == closest = Infinity \/ d <= closest
Nearer(d)      == closest = Infinity \/ d < closest

\* The record nearest to a point, any of them when there are several; NULL when
\* there is no record at all.
NearestTo(x, y) ==
  IF n = 0 THEN {NoRecord}
  ELSE {i \in Ids : \A j \in Ids : Distance(i, x, y) <= Distance(j, x, y)}

QueryLon == Clamp(lon, MaxLon)
QueryLat == Clamp(lat, MaxLat)

-----------------------------------------------------------------------------
(* coord_query_loop                                                        *)

\* mk_index has returned.
MkIndex ==
  /\ stage = "start"
  /\ stage' = "read"
  /\ UNCHANGED <<rs, n, lon, lat, answer>>

\* sscanf stores the numbers it finds, none, the first or both; what it does not
\* find keeps the value of the line before, or whatever was in memory.
Kept(v, numbers) == IF v = Unset THEN numbers ELSE {v}

ReadLine ==
  /\ stage = "read"
  /\ stage' = "lookup"
  /\ \/ lon' \in Lons /\ lat' \in Lats
     \/ lon' \in Lons /\ lat' \in Kept(lat, Lats)
     \/ lon' \in Kept(lon, Lons) /\ lat' \in Kept(lat, Lats)
  /\ answer' = NoRecord
  /\ UNCHANGED <<rs, n>>

\* lookup returns r, and the loop prints it.
Answer(r) ==
  /\ stage = "lookup"
  /\ stage' = "read"
  /\ answer' = r
  /\ UNCHANGED <<rs, n, lon, lat>>

\* getline fails: the index and the records are freed.
EndOfQueries ==
  /\ stage = "read"
  /\ stage' = "done"
  /\ UNCHANGED <<rs, n, lon, lat, answer>>

\* What every index promises of lookup.
Lookup ==
  /\ stage = "lookup"
  /\ \E r \in NearestTo(QueryLon, QueryLat) : Answer(r)

CNext == MkIndex \/ ReadLine \/ Lookup \/ EndOfQueries

CSpec == CInit /\ [][CNext]_loopVars

-----------------------------------------------------------------------------
\* What the comment of lookup_naive promises, "find record closest to (lon, lat)":
\* the record printed is nearest to the query as it was read
\* (coord_query_naive.c:29).
NearestToQuery ==
  stage = "read" /\ lon # Unset => answer \in NearestTo(lon, lat)

==============================================================================
