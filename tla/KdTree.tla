-------------------------------- MODULE KdTree --------------------------------
(***************************************************************************)
(* coord_query_kdtree.c: create_tree sorts the array of coordinates by lon *)
(* and lat in turn, makes the middle element a node and goes on with the   *)
(* two halves of the array; lookup_recursive goes down to the side of the  *)
(* query and visits the other side if it may hold something nearer.        *)
(*                                                                         *)
(* A subtree is the part of the array it was built from: its first slot lo,*)
(* its number of slots size and its dimension dim.  Its node points to the *)
(* middle slot, whatever that slot holds.  The recursions keep their calls *)
(* on a stack.                                                             *)
(***************************************************************************)
EXTENDS CoordQuery, Sequences, FiniteSets, Functions

VARIABLES
  coords,   \* the array: the record in each slot
  nodes,    \* the nodes allocated, by their subtrees
  todo,     \* the stack of create_tree calls
  calls,    \* the stack of lookup_recursive calls
  best      \* what lookup_kdtree hands to them, with closest

treeVars   == <<coords, nodes, todo>>
searchVars == <<calls, closest, best>>

-----------------------------------------------------------------------------
(* Subtrees                                                                *)

Subtree(lo, size, dim) == [lo |-> lo, size |-> size, dim |-> dim]

Whole    == Subtree(0, n, 0)
Slots(t) == t.lo .. t.lo + t.size - 1
Mid(t)   == t.size \div 2
Point(t) == t.lo + Mid(t)          \* the slot node->p points to

Left(t) == Subtree(t.lo, Mid(t), (t.dim + 1) % 2)

\* The right half with the middle in it
FaultyRight(t) ==
  Subtree(t.lo + Mid(t), t.size - Mid(t), (t.dim + 1) % 2)
Right(t) ==
  Subtree(t.lo + Mid(t) + 1, t.size - (Mid(t) + 1), (t.dim + 1) % 2)

\* The coordinate that compare_x and compare_y look at.
Key(r, dim) == IF dim = 0 THEN rs[r].lon ELSE rs[r].lat

\* The record a node points to.
Middle(t) == coords[Point(t)]

\* How far the query is beyond the node in the node's dimension.
Diff(t) == (IF t.dim = 0 THEN QueryLon ELSE QueryLat) - Key(Middle(t), t.dim)

First(t)  == IF Diff(t) < 0 THEN Left(t) ELSE Right(t)
Second(t) == IF Diff(t) < 0 THEN Right(t) ELSE Left(t)

-----------------------------------------------------------------------------
(* mk_kdtree, create_tree                                                  *)

KInit ==
  /\ CInit
  /\ coords = [slot \in Ids |-> slot]
  /\ nodes = {}
  /\ todo = <<Whole>>
  /\ calls = <<>> /\ closest = Infinity /\ best = NoRecord

\* qsort on a part of the array: some order of its elements that is sorted; equal
\* elements may end up in any order.
Sort(t) ==
  \E from \in Bijection(Slots(t), Slots(t)) :
    LET array == [slot \in Ids |->
                    IF slot \in Slots(t) THEN coords[from[slot]] ELSE coords[slot]]
    IN  /\ \A s1, s2 \in Slots(t) :
             s1 <= s2 => Key(array[s1], t.dim) <= Key(array[s2], t.dim)
        /\ coords' = array

\* No coordinate: NULL.
CreateNone ==
  /\ todo # <<>> /\ Head(todo).size = 0
  /\ todo' = Tail(todo)
  /\ UNCHANGED <<coords, nodes, searchVars, loopVars>>

CreateLeaf ==
  /\ todo # <<>> /\ Head(todo).size = 1
  /\ nodes' = nodes \cup {Head(todo)}
  /\ todo' = Tail(todo)
  /\ UNCHANGED <<coords, searchVars, loopVars>>

CreateNode ==
  /\ todo # <<>> /\ Head(todo).size > 1
  /\ LET t == Head(todo)
     IN  /\ Sort(t)
         /\ nodes' = nodes \cup {t}
         /\ todo' = <<Left(t), Right(t)>> \o Tail(todo)
  /\ UNCHANGED <<searchVars, loopVars>>

TreeDone ==
  /\ todo = <<>>
  /\ MkIndex
  /\ UNCHANGED <<treeVars, searchVars>>

-----------------------------------------------------------------------------
(* lookup_kdtree, lookup_recursive                                         *)

Enter(t)  == [sub |-> t, at |-> "entry"]
Resume(t) == [sub |-> t, at |-> "back from first"]

\* The call of lookup_kdtree sets its locals and enters the root.
KReadLine ==
  /\ ReadLine
  /\ calls' = <<Enter(Whole)>>
  /\ closest' = Infinity /\ best' = NoRecord
  /\ UNCHANGED treeVars

Top == Head(calls)

\* node == NULL
VisitNone ==
  /\ calls # <<>> /\ Top.at = "entry" /\ Top.sub.size = 0
  /\ calls' = Tail(calls)
  /\ UNCHANGED <<treeVars, closest, best, loopVars>>

\* Compare the node's record, then call on the side of the query.
Visit ==
  /\ calls # <<>> /\ Top.at = "entry" /\ Top.sub.size > 0
  /\ LET t == Top.sub
         r == Middle(t)
         d == Distance(r, QueryLon, QueryLat)
     IN  /\ IF Nearer(d)
            THEN closest' = d /\ best' = r
            ELSE UNCHANGED <<closest, best>>
         /\ calls' = <<Enter(First(t)), Resume(t)>> \o Tail(calls)
  /\ UNCHANGED <<treeVars, loopVars>>

\* Is the other side worth a visit?  FaultyWorthwhile compares the square of the
\* difference with closest itself.
FaultyWorthwhile(t) == Nearer(Square(Square(Diff(t))))
Worthwhile(t)       == Nearer(Square(Diff(t)))

\* The call on the first side has returned.
VisitSecond ==
  /\ calls # <<>> /\ Top.at = "back from first" /\ Worthwhile(Top.sub)
  /\ calls' = <<Enter(Second(Top.sub))>> \o Tail(calls)
  /\ UNCHANGED <<treeVars, closest, best, loopVars>>

SkipSecond ==
  /\ calls # <<>> /\ Top.at = "back from first" /\ ~Worthwhile(Top.sub)
  /\ calls' = Tail(calls)
  /\ UNCHANGED <<treeVars, closest, best, loopVars>>

Found ==
  /\ calls = <<>>
  /\ Answer(best)
  /\ UNCHANGED <<treeVars, searchVars>>

KEndOfQueries == EndOfQueries /\ UNCHANGED <<treeVars, searchVars>>

-----------------------------------------------------------------------------
KNext ==
  \/ CreateNone \/ CreateLeaf \/ CreateNode \/ TreeDone
  \/ KReadLine
  \/ VisitNone \/ Visit \/ VisitSecond \/ SkipSecond \/ Found
  \/ KEndOfQueries

kvars == <<loopVars, treeVars, searchVars>>
KSpec == KInit /\ [][KNext]_kvars

-----------------------------------------------------------------------------
Subtrees == [lo : Nat, size : Nat, dim : {0, 1}]
Calls    == [sub : Subtrees, at : {"entry", "back from first"}]

KTypeOK ==
  /\ n \in 0 .. MaxRecords /\ rs \in [Ids -> Places]
  /\ stage \in {"start", "read", "lookup", "done"}
  /\ lon \in Lons \cup {Unset} /\ lat \in Lats \cup {Unset}
  /\ answer \in Ids \cup {NoRecord}
  /\ coords \in [Ids -> Ids]
  /\ nodes \subseteq Subtrees
  /\ todo \in Seq(Subtrees)
  /\ calls \in Seq(Calls)
  /\ closest \in Nat \cup {Infinity}
  /\ best \in Ids \cup {NoRecord}

\* A node splits its part of the array, and keeps doing so while the halves are
\* sorted again by the other dimension: nothing later moves a record across it
\* or replaces the record it points to by one that splits less well
\* (coord_query_kdtree.c:83-101).
Splits(t) ==
  /\ \A slot \in Slots(Left(t))  : Key(coords[slot], t.dim) <= Key(Middle(t), t.dim)
  /\ \A slot \in Slots(Right(t)) : Key(Middle(t), t.dim) <= Key(coords[slot], t.dim)

TreeSplits == \A t \in nodes : Splits(t)

\* When the tree is built, no record was lost from the array or is there twice,
\* and every slot has exactly one node that points to it
\* (coord_query_kdtree.c:71-104).
TreeHoldsAll ==
  todo = <<>> =>
    /\ coords \in Bijection(Ids, Ids)
    /\ Cardinality(nodes) = n
    /\ {Point(t) : t \in nodes} = Ids

\* What a call on the stack has still to look at.
Pending(call) ==
  CASE call.at = "entry"           -> Slots(call.sub)
    [] call.at = "back from first" -> Slots(Second(call.sub))

\* At any time of a search, best is at the distance closest, and every record
\* that is nearer is in a subtree that a call on the stack has yet to look at: no
\* step leaves a nearer record behind (coord_query_kdtree.c:150-208).
NoneLeftBehind ==
  stage = "lookup" /\ todo = <<>> =>
    /\ IF best = NoRecord THEN closest = Infinity
                          ELSE closest = Distance(best, QueryLon, QueryLat)
    /\ \A slot \in Ids :
         Nearer(Distance(coords[slot], QueryLon, QueryLat)) =>
           \E k \in DOMAIN calls : slot \in Pending(calls[k])

==============================================================================
