----------------------------- MODULE CoordProofs -----------------------------
(***************************************************************************)
(* Theorems about CoordNaive, and about CoordPrograms: both programs of    *)
(* coord_query.c answer every query as CoordQuery promises.                *)
(***************************************************************************)
EXTENDS CoordPrograms, KdTreeProofs

-----------------------------------------------------------------------------
(* The linear search                                                       *)

NTypes ==
  /\ n \in 0 .. MaxRecords /\ rs \in [Ids -> Places]
  /\ stage \in {"start", "read", "lookup", "done"}
  /\ lon \in Lons \cup {Unset} /\ lat \in Lats \cup {Unset}
  /\ answer \in Ids \cup {NoRecord}
  /\ i \in 0 .. n
  /\ closest \in Nat \cup {Infinity}
  /\ value \in Ids \cup {NoRecord}

\* A search starts without a best record, whatever the last one found.
NothingSeen == stage = "lookup" /\ i = 0 => closest = Infinity /\ value = NoRecord

NInv == NTypes /\ QueryRead /\ NothingSeen /\ FirstNearest

\* The distance of a record from the query.
Away(r) == Distance(r, QueryLon, QueryLat)

LEMMA Numbers ==
  ASSUME NTypes
  PROVE  n \in Nat /\ i \in Nat /\ i <= n /\ (\A k \in Int : k \in Ids <=> 0 <= k /\ k < n)
BY CoordAssumption DEF NTypes, Ids

LEMMA Distances ==
  ASSUME NTypes, lon # Unset, lat # Unset
  PROVE  \A r \in Ids : Away(r) \in Nat
<1>1. lon \in Int /\ lat \in Int
  BY CoordAssumption DEF NTypes
<1>2. QueryLon \in Int /\ QueryLat \in Int
  BY <1>1, CoordAssumption DEF QueryLon, QueryLat, Clamp
<1>3. \A r \in Ids : rs[r].lon \in Int /\ rs[r].lat \in Int
  BY CoordAssumption DEF NTypes
<1>4. \A v \in Int : Square(v) \in Nat
  BY DEF Square
<1>5. ASSUME NEW r \in Ids
      PROVE  Away(r) \in Nat
  <2>1. QueryLon - rs[r].lon \in Int /\ QueryLat - rs[r].lat \in Int
    BY <1>2, <1>3
  <2>2. /\ Square(QueryLon - rs[r].lon) \in Nat
        /\ Square(QueryLat - rs[r].lat) \in Nat
    BY <1>4, <2>1
  <2> QED  BY <2>2 DEF Away, Distance
<1> QED  BY <1>5

LEMMA SameDistances ==
  ASSUME UNCHANGED <<rs, lon, lat>>
  PROVE  \A r : Away(r)' = Away(r)
BY DEF Away, Distance, QueryLon, QueryLat, Clamp

\* The first of the nearest among the records before k.
IsFirstNearest(v, c, k) ==
  /\ v \in 0 .. k - 1
  /\ c = Away(v)
  /\ \A j \in 0 .. k - 1 : c <= Away(j) /\ (j < v => c < Away(j))

LEMMA FirstNearestAway ==
  FirstNearest <=> (stage = "lookup" /\ i > 0 => IsFirstNearest(value, closest, i))
BY DEF FirstNearest, IsFirstNearest, Away

\* One pass of the loop takes record k if it is nearer than all before it.
LEMMA OneMore ==
  ASSUME NEW k \in Nat, \A j \in 0 .. k : Away(j) \in Nat,
         NEW v, NEW c, c \in Nat \cup {Infinity},
         k = 0 => c = Infinity,
         k > 0 => IsFirstNearest(v, c, k)
  PROVE  /\ c = Infinity \/ Away(k) < c => IsFirstNearest(k, Away(k), k + 1)
         /\ ~(c = Infinity \/ Away(k) < c) => IsFirstNearest(v, c, k + 1)
<1>1. (k + 1) - 1 = k /\ (\A j \in 0 .. k : j = k \/ j \in 0 .. k - 1) /\ k \in 0 .. k
  OBVIOUS
<1>2. ASSUME k > 0
      PROVE  c \in Nat /\ c # Infinity
  <2>1. v \in 0 .. k /\ c = Away(v)
    BY <1>2 DEF IsFirstNearest
  <2> QED  BY <2>1, CoordAssumption
<1>3. ASSUME c = Infinity \/ Away(k) < c
      PROVE  IsFirstNearest(k, Away(k), k + 1)
  <2>1. \A j \in 0 .. k - 1 : Away(k) < Away(j)
    <3> SUFFICES ASSUME NEW j \in 0 .. k - 1 PROVE Away(k) < Away(j)
      OBVIOUS
    <3>1. k > 0 /\ j \in 0 .. k
      OBVIOUS
    <3>2. c <= Away(j) /\ c \in Nat /\ Away(k) < c
      BY <1>2, <1>3, <3>1 DEF IsFirstNearest
    <3> QED  BY <1>1, <3>1, <3>2
  <2>2. \A j \in 0 .. k : Away(k) <= Away(j) /\ (j < k => Away(k) < Away(j))
    <3> SUFFICES ASSUME NEW j \in 0 .. k
                 PROVE  Away(k) <= Away(j) /\ (j < k => Away(k) < Away(j))
      OBVIOUS
    <3>1. Away(j) \in Nat /\ Away(k) \in Nat
      BY <1>1
    <3>2. CASE j = k
      BY <3>1, <3>2
    <3>3. CASE j \in 0 .. k - 1
      BY <2>1, <3>1, <3>3
    <3> QED  BY <1>1, <3>2, <3>3
  <2> QED  BY <1>1, <2>2 DEF IsFirstNearest
<1>4. ASSUME ~(c = Infinity \/ Away(k) < c)
      PROVE  IsFirstNearest(v, c, k + 1)
  <2>1. k > 0 /\ c \in Nat /\ v \in 0 .. k - 1 /\ c = Away(v)
    BY <1>2, <1>4 DEF IsFirstNearest
  <2>2. c <= Away(k) /\ ~(k < v) /\ v \in 0 .. k
    BY <1>1, <1>4, <2>1
  <2> QED  BY <1>1, <2>1, <2>2 DEF IsFirstNearest
<1> QED  BY <1>3, <1>4

LEMMA NInvInit == NInit => NInv
BY CoordAssumption
   DEF NInit, CInit, NInv, NTypes, QueryRead, NothingSeen, FirstNearest

LEMMA ScanStep ==
  ASSUME NInv, Scan
  PROVE  NInv'
<1> DEFINE d == Away(i)
<1>1. /\ stage = "lookup" /\ i \in Ids
      /\ \/ Nearer(d) /\ closest' = d /\ value' = i
         \/ ~Nearer(d) /\ UNCHANGED <<closest, value>>
      /\ i' = i + 1
      /\ UNCHANGED <<rs, n, stage, lon, lat, answer>>
  BY DEF Scan, loopVars, Away
<1>2. /\ NTypes /\ lon # Unset /\ lat # Unset
      /\ n \in Nat /\ i \in Nat /\ i < n
      /\ \A j \in 0 .. i : j \in Ids
  BY <1>1, Numbers DEF NInv, QueryRead, Ids
<1>3. \A j \in 0 .. i : Away(j) \in Nat
  BY <1>2, Distances
<1>4. d \in Nat
  BY <1>2, <1>3
<1> HIDE DEF d
<1>5. NTypes'
  <2>1. i + 1 \in 0 .. n
    BY <1>2
  <2> QED  BY <1>1, <1>2, <1>4, <2>1 DEF NTypes, Ids
<1>6. i > 0 => IsFirstNearest(value, closest, i)
  BY <1>1, FirstNearestAway DEF NInv
<1>7. i = 0 => closest = Infinity
  BY <1>1 DEF NInv, NothingSeen
<1>8. closest \in Nat \cup {Infinity}
  BY DEF NInv, NTypes
<1>9. /\ Nearer(d) => IsFirstNearest(i, d, i + 1)
      /\ ~Nearer(d) => IsFirstNearest(value, closest, i + 1)
  BY <1>2, <1>3, <1>6, <1>7, <1>8, OneMore DEF Nearer, d
<1>10. IsFirstNearest(value', closest', i + 1)
  BY <1>1, <1>9
<1>11. FirstNearest'
  <2>1. \A r : Away(r)' = Away(r)
    BY <1>1, SameDistances
  <2>2. \A v, c, k : IsFirstNearest(v, c, k)
          => /\ v \in 0 .. k - 1 /\ c = Away(v)'
             /\ \A j \in 0 .. k - 1 : c <= Away(j)' /\ (j < v => c < Away(j)')
    BY <2>1 DEF IsFirstNearest
  <2> QED  BY <1>1, <1>10, <2>2 DEF FirstNearest, Away
<1>12. NothingSeen' /\ QueryRead'
  <2>1. i' # 0
    BY <1>1, <1>2
  <2> QED  BY <1>1, <1>2, <2>1 DEF NothingSeen, QueryRead
<1> QED  BY <1>5, <1>11, <1>12 DEF NInv

LEMMA NInvStep == NInv /\ [NNext]_<<loopVars, scanVars>> => NInv'
<1> SUFFICES ASSUME NInv, [NNext]_<<loopVars, scanVars>> PROVE NInv'
  OBVIOUS
<1> USE DEF NInv
<1>1. CASE NMkIndex
  BY <1>1 DEF NMkIndex, MkIndex, scanVars, NTypes, Ids, QueryRead, NothingSeen, FirstNearest
<1>2. CASE NReadLine
  <2>1. /\ stage' = "lookup" /\ i' = 0 /\ closest' = Infinity /\ value' = NoRecord
        /\ lon' \in Lons /\ lat' \in Lats /\ answer' = NoRecord
        /\ UNCHANGED <<rs, n>>
    BY <1>2 DEF NReadLine, ReadLine, Kept, NTypes
  <2>2. n \in Nat /\ lon' # Unset /\ lat' # Unset
    BY <2>1, Numbers, CoordAssumption
  <2> QED  BY <2>1, <2>2 DEF NTypes, Ids, QueryRead, NothingSeen, FirstNearest
<1>3. CASE Scan
  BY <1>3, ScanStep
<1>4. CASE ReturnValue
  BY <1>4 DEF ReturnValue, Answer, scanVars, NTypes, Ids, QueryRead, NothingSeen, FirstNearest
<1>5. CASE NEndOfQueries
  BY <1>5 DEF NEndOfQueries, EndOfQueries, scanVars, NTypes, Ids, QueryRead, NothingSeen,
              FirstNearest
<1>6. CASE UNCHANGED <<loopVars, scanVars>>
  <2>1. FirstNearest'
    BY <1>6 DEF FirstNearest, Distance, QueryLon, QueryLat, Clamp, loopVars, scanVars
  <2> QED  BY <1>6, <2>1 DEF loopVars, scanVars, NTypes, Ids, QueryRead, NothingSeen
<1> QED  BY <1>1, <1>2, <1>3, <1>4, <1>5, <1>6 DEF NNext

\* When the loop has gone through all records, value is nearest of all.
LEMMA ValueIsNearest ==
  ASSUME NInv, stage = "lookup", i >= n
  PROVE  value \in NearestTo(QueryLon, QueryLat)
<1>1. n \in Nat /\ i = n
  BY Numbers DEF NInv
<1>2. CASE n = 0
  BY <1>1, <1>2 DEF NInv, NothingSeen, NearestTo
<1>3. CASE n > 0
  <2>1. IsFirstNearest(value, closest, n)
    BY <1>1, <1>3, FirstNearestAway DEF NInv
  <2>2. value \in Ids /\ \A j \in Ids : Away(value) <= Away(j)
    BY <2>1 DEF IsFirstNearest, Ids
  <2> QED  BY <1>3, <2>2 DEF NearestTo, Away
<1> QED  BY <1>1, <1>2, <1>3

LEMMA NStepsAllowed == NInv /\ [NNext]_<<loopVars, scanVars>> => [CNext]_loopVars
<1> SUFFICES ASSUME NInv, NNext
             PROVE  CNext \/ UNCHANGED loopVars
  BY DEF loopVars
<1>1. CASE NMkIndex
  BY <1>1 DEF NMkIndex, CNext
<1>2. CASE NReadLine
  BY <1>2 DEF NReadLine, CNext
<1>3. CASE Scan
  BY <1>3 DEF Scan
<1>4. CASE ReturnValue
  <2>1. stage = "lookup" /\ i >= n /\ Answer(value)
    BY <1>4 DEF ReturnValue, Answer
  <2>2. value \in NearestTo(QueryLon, QueryLat)
    BY <2>1, ValueIsNearest
  <2> QED  BY <2>1, <2>2 DEF CNext, Lookup
<1>5. CASE NEndOfQueries
  BY <1>5 DEF NEndOfQueries, CNext
<1> QED  BY <1>1, <1>2, <1>3, <1>4, <1>5 DEF NNext

\* coord_query_naive implements the abstract CoordQuery: each of its answers is a
\* record nearest to the clamped query, and NULL only if there is no record
\* (coord_query_naive.c:30-58).
THEOREM NaiveImplementsCoordQuery == NSpec => CSpec
<1>1. NInit => CInit
  BY DEF NInit
<1> QED
  BY <1>1, NInvInit, NInvStep, NStepsAllowed, PTL DEF NSpec, CSpec

-----------------------------------------------------------------------------
(* Both programs                                                           *)

\* What the variables of the program that does not run stay at.
TreeIdle ==
  /\ coords = [slot \in Ids |-> slot] /\ nodes = {} /\ todo = <<Whole>>
  /\ calls = <<>> /\ best = NoRecord
ScanIdle == i = 0 /\ value = NoRecord

ProgramsInv ==
  \/ program = "coord_query_naive"  /\ NInv /\ TreeIdle
  \/ program = "coord_query_kdtree" /\ KInv /\ NoneLeftBehind /\ Complete /\ ScanIdle

LEMMA ProgramsInvInit == ProgramsInit => ProgramsInv
<1> SUFFICES ASSUME ProgramsInit PROVE ProgramsInv
  OBVIOUS
<1>1. NInit /\ KInit /\ program \in {"coord_query_naive", "coord_query_kdtree"}
  BY DEF ProgramsInit
<1>2. NInv /\ KInv /\ NoneLeftBehind /\ Complete
  BY <1>1, NInvInit, InvInit, NoneLeftBehindInit, CompleteInit
<1>3. TreeIdle /\ ScanIdle
  BY <1>1 DEF NInit, KInit, TreeIdle, ScanIdle
<1> QED  BY <1>1, <1>2, <1>3 DEF ProgramsInv

allVars == <<loopVars, scanVars, treeVars, searchVars, program>>

LEMMA ProgramsInvStep == ProgramsInv /\ [ProgramsNext]_allVars => ProgramsInv'
<1> SUFFICES ASSUME ProgramsInv, [ProgramsNext]_allVars PROVE ProgramsInv'
  OBVIOUS
<1>1. program' = program
  BY DEF ProgramsNext, allVars
<1>2. CASE program = "coord_query_naive"
  <2>1. NInv /\ TreeIdle
    BY <1>2 DEF ProgramsInv
  <2>2. /\ [NNext]_<<loopVars, scanVars>>
        /\ UNCHANGED <<treeVars, calls, best>>
    BY <1>2 DEF ProgramsNext, Naive, allVars, scanVars, searchVars
  <2>3. n' = n
    BY <2>2 DEF NNext, NMkIndex, MkIndex, NReadLine, ReadLine, Scan, ReturnValue, Answer,
                NEndOfQueries, EndOfQueries, loopVars
  <2>4. NInv'
    BY <2>1, <2>2, NInvStep
  <2>5. TreeIdle'
    BY <2>1, <2>2, <2>3 DEF TreeIdle, Ids, Whole, Subtree, treeVars
  <2> QED  BY <1>1, <1>2, <2>4, <2>5 DEF ProgramsInv
<1>3. CASE program = "coord_query_kdtree"
  <2>1. KInv /\ NoneLeftBehind /\ Complete /\ ScanIdle
    BY <1>3 DEF ProgramsInv
  <2>2. [KNext]_kvars /\ UNCHANGED <<i, value>>
    BY <1>3 DEF ProgramsNext, Kdtree, allVars, scanVars, kvars
  <2>3. KInv' /\ NoneLeftBehind' /\ Complete'
    BY <2>1, <2>2, InvStep, NoneLeftBehindStep, CompleteStep
  <2>4. ScanIdle'
    BY <2>1, <2>2 DEF ScanIdle
  <2> QED  BY <1>1, <1>3, <2>3, <2>4 DEF ProgramsInv
<1> QED  BY <1>2, <1>3 DEF ProgramsInv

\* In the naive program the tree is never built.
LEMMA IdleTree ==
  ASSUME NInv, TreeIdle
  PROVE  KTypeOK /\ TreeSplits /\ TreeHoldsAll /\ NoneLeftBehind
<1>1. todo \in Seq(Subtrees) /\ todo # <<>>
  BY Numbers DEF NInv, TreeIdle, Whole, Subtree, Subtrees
<1>2. KTypeOK
  BY <1>1 DEF NInv, NTypes, TreeIdle, KTypeOK
<1> QED  BY <1>1, <1>2 DEF TreeIdle, TreeSplits, TreeHoldsAll, NoneLeftBehind

LEMMA ProgramsInvImplies ==
  ProgramsInv => FirstNearest /\ KTypeOK /\ TreeSplits /\ TreeHoldsAll /\ NoneLeftBehind
<1> SUFFICES ASSUME ProgramsInv
             PROVE  FirstNearest /\ KTypeOK /\ TreeSplits /\ TreeHoldsAll /\ NoneLeftBehind
  OBVIOUS
<1>1. CASE NInv /\ TreeIdle
  BY <1>1, IdleTree DEF NInv
<1>2. CASE KInv /\ NoneLeftBehind /\ Complete /\ ScanIdle
  <2>1. FirstNearest
    BY <1>2 DEF ScanIdle, FirstNearest
  <2> QED  BY <1>2, <2>1, BuiltHoldsAll DEF KInv, TreeParts
<1> QED  BY <1>1, <1>2 DEF ProgramsInv

\* While the loop of lookup_naive runs, value is the first of the nearest among
\* the records seen so far, whatever the queries before were
\* (coord_query_naive.c:40-52).
THEOREM FirstNearestHolds == ProgramsSpec => []FirstNearest
BY ProgramsInvInit, ProgramsInvStep, ProgramsInvImplies, PTL DEF ProgramsSpec, allVars

\* What KdTreeProofs shows of the tree and its search, for the two programs: types,
\* the order and the completeness of the tree, and that no step of a search
\* leaves a nearer record behind (coord_query_kdtree.c:71-104, 150-208).
THEOREM TreeHolds ==
  ProgramsSpec => [](KTypeOK /\ TreeSplits /\ TreeHoldsAll /\ NoneLeftBehind)
BY ProgramsInvInit, ProgramsInvStep, ProgramsInvImplies, PTL DEF ProgramsSpec, allVars

\* Either program implements the abstract CoordQuery: they may differ in ties only
\* (coord_query_naive.c:30-58, coord_query_kdtree.c:211-225).
THEOREM ProgramsImplementCoordQuery == ProgramsSpec => ImplementCoordQuery
<1>1. ProgramsInit => CInit
  BY DEF ProgramsInit, KInit
<1>2. ProgramsInv /\ [ProgramsNext]_allVars => [CNext]_loopVars
  <2> SUFFICES ASSUME ProgramsInv, [ProgramsNext]_allVars PROVE [CNext]_loopVars
    OBVIOUS
  <2>1. CASE program = "coord_query_naive"
    BY <2>1, NStepsAllowed DEF ProgramsInv, ProgramsNext, Naive, allVars
  <2>2. CASE program = "coord_query_kdtree"
    <3>1. [KNext]_kvars
      BY <2>2 DEF ProgramsNext, Kdtree, allVars, kvars
    <3> QED  BY <2>2, <3>1, KStepsAllowed DEF ProgramsInv
  <2> QED  BY <2>1, <2>2 DEF ProgramsInv
<1> QED
  BY <1>1, <1>2, ProgramsInvInit, ProgramsInvStep, PTL
     DEF ProgramsSpec, ImplementCoordQuery, CSpec, allVars

==============================================================================
