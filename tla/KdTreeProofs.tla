----------------------------- MODULE KdTreeProofs -----------------------------
(***************************************************************************)
(* Theorems about KdTree, for files of any length, any coordinates and any *)
(* sequence of queries: the tree splits and holds all records, the search  *)
(* leaves no nearer record behind, and every answer is one that CoordQuery *)
(* allows.                                                                 *)
(***************************************************************************)
EXTENDS KdTree, SequenceTheorems, FiniteSetTheorems, TLAPS

-----------------------------------------------------------------------------
(* The parts of the array                                                  *)

Inside(t, u) == Slots(t) \subseteq Slots(u)
Apart(t, u)  == Slots(t) \cap Slots(u) = {}

\* Nothing that happens inside t moves a record across the node of u or replaces
\* the one it points to.
Clear(t, u) == Apart(t, u) \/ Inside(t, Left(u)) \/ Inside(t, Right(u))

\* A part of the array consists of the two halves and the middle.
LEMMA Halves ==
  ASSUME NEW t \in Subtrees, t.size > 0
  PROVE  /\ Left(t) \in Subtrees /\ Right(t) \in Subtrees
         /\ Point(t) \in Slots(t)
         /\ Inside(Left(t), t) /\ Inside(Right(t), t)
         /\ Apart(Left(t), Right(t))
         /\ Point(t) \notin Slots(Left(t)) /\ Point(t) \notin Slots(Right(t))
         /\ Slots(t) = Slots(Left(t)) \cup {Point(t)} \cup Slots(Right(t))
         /\ t.size = 1 => Left(t).size = 0 /\ Right(t).size = 0
<1> USE DEF Subtrees, Left, Right, Subtree, Mid, Point, Slots
<1>1. t.lo \in Nat /\ t.size \in Nat /\ t.dim \in {0, 1}
  OBVIOUS
<1>2. t.size \div 2 \in Nat /\ t.size \div 2 < t.size /\ (t.size = 1 => t.size \div 2 = 0)
  BY <1>1
<1>3. (t.dim + 1) % 2 \in {0, 1}
  BY <1>1
<1>4. Left(t) \in Subtrees
  BY <1>1, <1>2, <1>3
<1>5. Right(t) \in Subtrees
  <2>1. t.size - (t.size \div 2 + 1) \in Nat /\ t.lo + t.size \div 2 + 1 \in Nat
    BY <1>1, <1>2
  <2> QED  BY <2>1, <1>3
<1>6. /\ Left(t).lo = t.lo /\ Left(t).size = t.size \div 2
      /\ Right(t).lo = t.lo + t.size \div 2 + 1
      /\ Right(t).size = t.size - (t.size \div 2 + 1)
  OBVIOUS
<1> HIDE DEF Subtrees, Left, Right, Subtree
<1> DEFINE mid == t.lo + t.size \div 2   last == t.lo + t.size - 1
<1>7. /\ mid \in Int /\ last \in Int /\ t.lo <= mid /\ mid <= last
      /\ Point(t) = mid /\ Slots(t) = t.lo .. last
  BY <1>1, <1>2
<1>8. Slots(Left(t)) = t.lo .. mid - 1 /\ Slots(Right(t)) = mid + 1 .. last
  <2> DEFINE half == t.size \div 2
  <2>1. half \in Nat
    BY <1>2
  <2>2. /\ Left(t).lo = t.lo /\ Left(t).size = half /\ Right(t).lo = t.lo + half + 1
        /\ Right(t).size = t.size - (half + 1) /\ mid = t.lo + half
    BY <1>6
  <2> HIDE DEF half, mid
  <2>3. t.lo + half - 1 = mid - 1
    BY <1>1, <2>1, <2>2
  <2>4. t.lo + half + 1 = mid + 1 /\ t.lo + half + 1 + (t.size - (half + 1)) - 1 = last
    BY <1>1, <2>1, <2>2
  <2>5. Slots(Left(t)) = t.lo .. mid - 1
    BY <2>2, <2>3 DEF Slots
  <2>6. Slots(Right(t)) = mid + 1 .. last
    BY <2>2, <2>4 DEF Slots
  <2> QED  BY <2>5, <2>6
<1>9. t.size = 1 => Left(t).size = 0 /\ Right(t).size = 0
  BY <1>2, <1>6
<1> HIDE DEF Slots, Point, mid, last
<1>10. Slots(t) = Slots(Left(t)) \cup {Point(t)} \cup Slots(Right(t))
  BY <1>1, <1>7, <1>8
<1>11. Apart(Left(t), Right(t)) /\ Point(t) \notin Slots(Left(t)) /\ Point(t) \notin Slots(Right(t))
  BY <1>1, <1>7, <1>8 DEF Apart
<1> QED  BY <1>4, <1>5, <1>9, <1>10, <1>11 DEF Inside

-----------------------------------------------------------------------------
(* The stacks                                                              *)

LEMMA Pop ==
  ASSUME NEW S, NEW s \in Seq(S), s # <<>>
  PROVE  /\ Head(s) \in S /\ Head(s) = s[1] /\ 1 \in DOMAIN s
         /\ Tail(s) \in Seq(S)
         /\ \A k \in DOMAIN Tail(s) : k + 1 \in DOMAIN s /\ Tail(s)[k] = s[k + 1]
         /\ \A k \in DOMAIN s : k # 1 => k - 1 \in DOMAIN Tail(s) /\ Tail(s)[k - 1] = s[k]
  OBVIOUS

LEMMA ReplaceTop ==
  ASSUME NEW S, NEW s \in Seq(S), s # <<>>, NEW a \in S
  PROVE  LET r == <<a>> \o Tail(s) IN
         /\ r \in Seq(S)
         /\ 1 \in DOMAIN r /\ r[1] = a
         /\ \A k \in DOMAIN r : k # 1 => k \in DOMAIN s /\ r[k] = s[k]
         /\ \A k \in DOMAIN s : k # 1 => k \in DOMAIN r /\ r[k] = s[k]
  OBVIOUS

LEMMA PushTwo ==
  ASSUME NEW S, NEW s \in Seq(S), s # <<>>, NEW a \in S, NEW b \in S
  PROVE  LET r == <<a, b>> \o Tail(s) IN
         /\ r \in Seq(S)
         /\ 1 \in DOMAIN r /\ r[1] = a
         /\ 2 \in DOMAIN r /\ r[2] = b
         /\ \A k \in DOMAIN r : k \notin {1, 2} => k - 1 \in DOMAIN s /\ k - 1 # 1 /\ r[k] = s[k - 1]
         /\ \A k \in DOMAIN s : k # 1 => k + 1 \in DOMAIN r /\ r[k + 1] = s[k]
  OBVIOUS

-----------------------------------------------------------------------------
(* Building the tree                                                       *)

\* No record is lost from the array.
AllThere == \A r \in Ids : \E slot \in Ids : coords[slot] = r

\* create_tree was called for t and has made its node, if it has one; or the
\* call is still to come.
Built(t)    == t.size = 0 \/ t \in nodes
Expected(t) == Built(t) \/ \E k \in DOMAIN todo : todo[k] = t

InArray ==
  /\ \A k \in DOMAIN todo : Slots(todo[k]) \subseteq Ids
  /\ \A u \in nodes : u.size > 0 /\ Slots(u) \subseteq Ids

\* The calls still to come work on parts of the array of their own, and disturb
\* no node.
TodoApart == \A j, k \in DOMAIN todo : j # k => Apart(todo[j], todo[k])
TodoClear == \A k \in DOMAIN todo : \A u \in nodes : Clear(todo[k], u)

AllExpected ==
  /\ Expected(Whole)
  /\ \A u \in nodes : Expected(Left(u)) /\ Expected(Right(u))

TreeParts ==
  /\ AllThere
  /\ InArray
  /\ TodoApart
  /\ TodoClear
  /\ AllExpected
  /\ TreeSplits

\* A search starts when the tree is built and a query is read, and the calls on
\* its stack are calls on subtrees of the tree.
BuiltFirst == stage # "start" => todo = <<>>
QueryRead  == stage = "lookup" => lon # Unset /\ lat # Unset
CallsInTree ==
  /\ calls # <<>> => stage = "lookup"
  /\ \A k \in DOMAIN calls :
       /\ Built(calls[k].sub)
       /\ calls[k].at = "back from first" => calls[k].sub.size > 0

KInv ==
  /\ KTypeOK
  /\ TreeParts
  /\ BuiltFirst
  /\ QueryRead
  /\ CallsInTree

\* What Sort does, and what it leaves alone.
LEMMA SortEffect ==
  ASSUME KTypeOK, AllThere, NEW t \in Subtrees, Slots(t) \subseteq Ids, Sort(t)
  PROVE  /\ coords' \in [Ids -> Ids]
         /\ \A slot \in Ids : slot \notin Slots(t) => coords'[slot] = coords[slot]
         /\ \A slot \in Slots(t) : \E s \in Slots(t) : coords'[slot] = coords[s]
         /\ \A s1, s2 \in Slots(t) :
              s1 <= s2 => Key(coords'[s1], t.dim) <= Key(coords'[s2], t.dim)
         /\ \A r \in Ids : \E slot \in Ids : coords'[slot] = r
<1>1. coords \in [Ids -> Ids]
  BY DEF KTypeOK
<1>2. PICK from \in Bijection(Slots(t), Slots(t)) :
        /\ coords' = [slot \in Ids |->
                        IF slot \in Slots(t) THEN coords[from[slot]] ELSE coords[slot]]
        /\ \A s1, s2 \in Slots(t) :
             s1 <= s2 => Key(coords'[s1], t.dim) <= Key(coords'[s2], t.dim)
  BY Zenon DEF Sort
<1>3. /\ from \in [Slots(t) -> Slots(t)]
      /\ \A s \in Slots(t) : \E slot \in Slots(t) : from[slot] = s
  BY <1>2 DEF Bijection, Injection, Surjection, IsInjective
<1>4. \A slot \in Slots(t) : coords'[slot] = coords[from[slot]]
  BY <1>2
<1>5. \A slot \in Ids : slot \notin Slots(t) => coords'[slot] = coords[slot]
  BY <1>2
<1>6. coords' \in [Ids -> Ids]
  BY <1>1, <1>2, <1>3
<1>7. ASSUME NEW r \in Ids
      PROVE  \E slot \in Ids : coords'[slot] = r
  <2>1. PICK slot \in Ids : coords[slot] = r
    BY DEF AllThere
  <2>2. CASE slot \notin Slots(t)
    BY <2>1, <2>2, <1>5
  <2>3. CASE slot \in Slots(t)
    <3>1. PICK source \in Slots(t) : from[source] = slot
      BY <2>3, <1>3
    <3> QED  BY <3>1, <2>1, <1>4
  <2> QED  BY <2>2, <2>3
<1> QED  BY <1>2, <1>3, <1>4, <1>5, <1>6, <1>7

\* A sort inside a part that is clear of u's node leaves that node in order.
LEMMA SplitsStays ==
  ASSUME KTypeOK, AllThere, NEW t \in Subtrees, Slots(t) \subseteq Ids, Sort(t),
         UNCHANGED <<rs, n>>,
         NEW u \in Subtrees, u.size > 0, Slots(u) \subseteq Ids, Splits(u), Clear(t, u)
  PROVE  Splits(u)'
<1>1. /\ Inside(Left(u), u) /\ Inside(Right(u), u) /\ Point(u) \in Slots(u)
      /\ Apart(Left(u), Right(u))
      /\ Point(u) \notin Slots(Left(u)) /\ Point(u) \notin Slots(Right(u))
  BY Halves
<1>2. Point(u) \notin Slots(t)
  BY <1>1 DEF Clear, Apart, Inside
<1>3. coords'[Point(u)] = coords[Point(u)]
  BY <1>1, <1>2, SortEffect
<1>4. ASSUME NEW half, half \in {Left(u), Right(u)}, NEW slot \in Slots(half)
      PROVE  \E s \in Slots(half) : coords'[slot] = coords[s]
  <2>1. slot \in Ids
    BY <1>1, <1>4 DEF Inside
  <2>2. CASE slot \notin Slots(t)
    BY <2>1, <2>2, SortEffect
  <2>3. CASE slot \in Slots(t)
    <3>1. Inside(t, half)
      BY <1>1, <1>4, <2>3 DEF Clear, Apart, Inside
    <3> QED  BY <2>3, <3>1, SortEffect DEF Inside
  <2> QED  BY <2>2, <2>3
<1>5. /\ \A s \in Slots(Left(u))  : Key(coords[s], u.dim) <= Key(Middle(u), u.dim)
      /\ \A s \in Slots(Right(u)) : Key(Middle(u), u.dim) <= Key(coords[s], u.dim)
  BY DEF Splits
<1>6. /\ \A s \in Slots(Left(u))  : Key(coords'[s], u.dim) <= Key(Middle(u), u.dim)
      /\ \A s \in Slots(Right(u)) : Key(Middle(u), u.dim) <= Key(coords'[s], u.dim)
  BY <1>4, <1>5
<1>7. Middle(u)' = Middle(u)
  BY <1>3 DEF Middle
<1> QED  BY <1>6, <1>7 DEF Splits, Key, Left, Right, Slots, Subtree, Mid

LEMMA TreeUntouched ==
  ASSUME TreeParts, UNCHANGED <<rs, n, treeVars>>
  PROVE  TreeParts'
BY DEF TreeParts, AllThere, InArray, TodoApart, TodoClear, AllExpected, Expected,
       Built, Whole, TreeSplits, Splits, Clear, Apart, Inside, Slots, Left, Right,
       Subtree, Mid, Middle, Point, Key, Ids, treeVars

\* What is expected stays expected when the call on top of the stack is answered.
LEMMA ExpectedStays ==
  ASSUME NEW t, t = todo[1], Built(t)', nodes \subseteq nodes',
         \A k \in DOMAIN todo : k # 1 => \E j \in DOMAIN todo' : todo'[j] = todo[k],
         NEW c, Expected(c)
  PROVE  Expected(c)'
<1>1. CASE Built(c)
  BY <1>1 DEF Expected, Built
<1>2. CASE \E k \in DOMAIN todo : todo[k] = c
  <2>1. PICK k \in DOMAIN todo : todo[k] = c
    BY <1>2
  <2>2. CASE k = 1
    BY <2>1, <2>2 DEF Expected, Built
  <2>3. CASE k # 1
    BY <2>1, <2>3 DEF Expected
  <2> QED  BY <2>2, <2>3
<1> QED  BY <1>1, <1>2 DEF Expected

\* create_tree on nothing or on a single coordinate.
LEMMA LeafTree ==
  ASSUME KInv, CreateNone \/ CreateLeaf, NEW t, t = Head(todo)
  PROVE  TreeParts'
<1> USE DEF KInv, TreeParts
<1>1. /\ todo # <<>> /\ todo \in Seq(Subtrees) /\ nodes \subseteq Subtrees
      /\ UNCHANGED <<rs, n, coords>> /\ todo' = Tail(todo)
      /\ \/ t.size = 0 /\ nodes' = nodes
         \/ t.size = 1 /\ nodes' = nodes \cup {t}
  BY DEF CreateNone, CreateLeaf, KTypeOK, loopVars
<1>2. /\ t \in Subtrees /\ t = todo[1] /\ 1 \in DOMAIN todo
      /\ \A k \in DOMAIN todo' : k + 1 \in DOMAIN todo /\ k + 1 # 1 /\ todo'[k] = todo[k + 1]
      /\ \A k \in DOMAIN todo : k # 1 => k - 1 \in DOMAIN todo' /\ todo'[k - 1] = todo[k]
  <2>1. \A k \in DOMAIN Tail(todo) : k + 1 # 1
    BY <1>1
  <2> QED  BY <1>1, <2>1, Pop
<1>3. AllThere'
  BY <1>1 DEF AllThere, Ids
<1>4. InArray'
  BY <1>1, <1>2 DEF InArray, Ids, Slots
<1>5. TodoApart'
  <2>1. \A j, k \in DOMAIN todo' : j # k => Apart(todo'[j], todo'[k])
    <3> TAKE j, k \in DOMAIN todo'
    <3> HAVE j # k
    <3>1. j + 1 # k + 1
      BY <1>1
    <3>2. Apart(todo[j + 1], todo[k + 1])
      BY <1>2, <3>1 DEF TodoApart
    <3> QED  BY <1>2, <3>2
  <2> QED  BY <2>1 DEF TodoApart, Apart, Slots
<1>6. \A k \in DOMAIN todo' : Apart(todo'[k], t)
  BY <1>2 DEF TodoApart, Apart
<1>7. TodoClear'
  <2>1. \A k \in DOMAIN todo' : \A u \in nodes' : Clear(todo'[k], u)
    BY <1>1, <1>2, <1>6 DEF TodoClear, Clear
  <2> QED  BY <2>1 DEF TodoClear, Clear, Apart, Inside, Slots, Left, Right, Subtree, Mid
<1>8. t.size = 1 => Left(t).size = 0 /\ Right(t).size = 0
  BY <1>2, Halves
<1>9. AllExpected'
  <2>1. \A c : Expected(c) => Expected(c)'
    <3>1. Built(t)' /\ nodes \subseteq nodes'
      BY <1>1 DEF Built
    <3> QED  BY <1>1, <1>2, <3>1, ExpectedStays
  <2>2. Expected(Whole)'
    BY <1>1, <2>1 DEF AllExpected, Whole, Expected, Built
  <2>3. \A u \in nodes' : Expected(Left(u))' /\ Expected(Right(u))'
    <3>1. CASE t.size = 1
      <4>1. Expected(Left(t))' /\ Expected(Right(t))'
        BY <1>8, <3>1 DEF Expected, Built, Left, Right, Subtree, Mid
      <4> QED  BY <1>1, <2>1, <3>1, <4>1 DEF AllExpected
    <3>2. CASE t.size = 0
      BY <1>1, <2>1, <3>2 DEF AllExpected
    <3> QED  BY <1>1, <3>1, <3>2
  <2> QED  BY <2>2, <2>3 DEF AllExpected, Expected, Built, Left, Right, Subtree, Mid
<1>10. TreeSplits'
  <2>1. \A u : Splits(u) => Splits(u)'
    BY <1>1 DEF Splits, Key, Middle, Point, Slots, Left, Right, Subtree, Mid
  <2>2. t.size = 1 => Splits(t)
    <3> SUFFICES ASSUME t.size = 1 PROVE Splits(t)
      OBVIOUS
    <3>1. Slots(Left(t)) = {} /\ Slots(Right(t)) = {}
      BY <1>2, <1>8, Halves DEF Slots, Subtrees
    <3> QED  BY <3>1 DEF Splits
  <2> QED  BY <1>1, <2>1, <2>2 DEF TreeSplits
<1> QED  BY <1>3, <1>4, <1>5, <1>7, <1>9, <1>10

\* create_tree on two coordinates or more.
LEMMA NodeTree ==
  ASSUME KInv, CreateNode, NEW t, t = Head(todo)
  PROVE  TreeParts'
<1> USE DEF KInv, TreeParts
<1>1. /\ todo # <<>> /\ todo \in Seq(Subtrees) /\ nodes \subseteq Subtrees
      /\ t.size > 1 /\ Sort(t)
      /\ UNCHANGED <<rs, n>>
      /\ nodes' = nodes \cup {t}
      /\ todo' = <<Left(t), Right(t)>> \o Tail(todo)
  BY DEF CreateNode, KTypeOK, loopVars
<1>2. t \in Subtrees /\ t = todo[1] /\ 1 \in DOMAIN todo
  BY <1>1, Pop
<1>3. /\ Left(t) \in Subtrees /\ Right(t) \in Subtrees
      /\ Point(t) \in Slots(t)
      /\ Inside(Left(t), t) /\ Inside(Right(t), t)
      /\ Apart(Left(t), Right(t))
  <2>1. t.size > 0
    BY <1>1, <1>2 DEF Subtrees
  <2> QED  BY <1>2, <2>1, Halves
<1>4. /\ 1 \in DOMAIN todo' /\ todo'[1] = Left(t)
      /\ 2 \in DOMAIN todo' /\ todo'[2] = Right(t)
      /\ \A k \in DOMAIN todo' :
           k \notin {1, 2} => k - 1 \in DOMAIN todo /\ k - 1 # 1 /\ todo'[k] = todo[k - 1]
      /\ \A k \in DOMAIN todo : k # 1 => k + 1 \in DOMAIN todo' /\ todo'[k + 1] = todo[k]
      /\ \A k \in DOMAIN todo' : k \in Int
  <2> DEFINE r == <<Left(t), Right(t)>> \o Tail(todo)
  <2>1. /\ r \in Seq(Subtrees)
        /\ 1 \in DOMAIN r /\ r[1] = Left(t)
        /\ 2 \in DOMAIN r /\ r[2] = Right(t)
        /\ \A k \in DOMAIN r :
             k \notin {1, 2} => k - 1 \in DOMAIN todo /\ k - 1 # 1 /\ r[k] = todo[k - 1]
        /\ \A k \in DOMAIN todo : k # 1 => k + 1 \in DOMAIN r /\ r[k + 1] = todo[k]
    BY <1>1, <1>3, PushTwo
  <2>2. todo' = r
    BY <1>1
  <2> HIDE DEF r
  <2>3. \A k \in DOMAIN r : k \in Int
    BY <2>1
  <2> QED  BY <2>1, <2>2, <2>3
<1>5. Slots(t) \subseteq Ids
  BY <1>2 DEF InArray
<1>6. AllThere'
  BY <1>1, <1>2, <1>5, SortEffect DEF AllThere, Ids
<1>7. InArray'
  <2>1. \A k \in DOMAIN todo' : Slots(todo'[k]) \subseteq Ids
    <3> TAKE k \in DOMAIN todo'
    <3>1. CASE k \in {1, 2}
      BY <3>1, <1>3, <1>4, <1>5 DEF Inside
    <3>2. CASE k \notin {1, 2}
      BY <3>2, <1>4 DEF InArray
    <3> QED  BY <3>1, <3>2
  <2>2. t.size > 0
    BY <1>1, <1>2 DEF Subtrees
  <2> QED  BY <1>1, <1>5, <2>2, <2>1 DEF InArray, Ids, Slots
<1>8. \A k \in DOMAIN todo' : k \notin {1, 2} => Apart(todo'[k], t)
  BY <1>2, <1>4 DEF TodoApart, Apart
<1>9. TodoApart'
  <2>1. \A j, k \in DOMAIN todo' : j # k => Apart(todo'[j], todo'[k])
    <3> TAKE j, k \in DOMAIN todo'
    <3> HAVE j # k
    <3>1. CASE j \in {1, 2} /\ k \in {1, 2}
      BY <3>1, <1>3, <1>4 DEF Apart
    <3>2. CASE j \in {1, 2} /\ k \notin {1, 2}
      BY <3>2, <1>3, <1>4, <1>8 DEF Apart, Inside
    <3>3. CASE j \notin {1, 2} /\ k \in {1, 2}
      BY <3>3, <1>3, <1>4, <1>8 DEF Apart, Inside
    <3>4. CASE j \notin {1, 2} /\ k \notin {1, 2}
      <4>1. j - 1 # k - 1
        BY <1>4
      <4> QED  BY <3>4, <4>1, <1>4 DEF TodoApart
    <3> QED  BY <3>1, <3>2, <3>3, <3>4
  <2> QED  BY <2>1 DEF TodoApart, Apart, Slots
<1>10. TodoClear'
  <2>1. \A k \in DOMAIN todo' : \A u \in nodes : Clear(todo'[k], u)
    <3> TAKE k \in DOMAIN todo'
    <3> TAKE u \in nodes
    <3>1. CASE k \in {1, 2}
      <4>1. Clear(t, u)
        BY <1>2 DEF TodoClear
      <4> QED  BY <3>1, <4>1, <1>3, <1>4 DEF Clear, Apart, Inside
    <3>2. CASE k \notin {1, 2}
      BY <3>2, <1>4 DEF TodoClear
    <3> QED  BY <3>1, <3>2
  <2>2. \A k \in DOMAIN todo' : Clear(todo'[k], t)
    <3> TAKE k \in DOMAIN todo'
    <3>1. CASE k \in {1, 2}
      BY <3>1, <1>4 DEF Clear, Inside
    <3>2. CASE k \notin {1, 2}
      BY <3>2, <1>8 DEF Clear
    <3> QED  BY <3>1, <3>2
  <2>3. \A k \in DOMAIN todo' : \A u \in nodes' : Clear(todo'[k], u)
    BY <1>1, <2>1, <2>2
  <2> QED
    BY <2>3 DEF TodoClear, Clear, Apart, Inside, Slots, Left, Right, Subtree, Mid
<1>11. AllExpected'
  <2>1. \A c : Expected(c) => Expected(c)'
    <3>1. Built(t)' /\ nodes \subseteq nodes'
      BY <1>1 DEF Built
    <3> QED  BY <1>2, <1>4, <3>1, ExpectedStays
  <2>2. Expected(Whole)'
    BY <1>1, <2>1 DEF AllExpected, Whole, Expected, Built
  <2>3. \A c \in {Left(t), Right(t)} : Expected(c)'
    BY <1>4 DEF Expected
  <2>4. \A u \in nodes' : Expected(Left(u))' /\ Expected(Right(u))'
    <3> TAKE u \in nodes'
    <3>1. CASE u = t
      BY <2>3, <3>1 DEF Expected, Built, Left, Right, Subtree, Mid
    <3>2. CASE u \in nodes
      BY <2>1, <3>2 DEF AllExpected
    <3> QED  BY <1>1, <3>1, <3>2
  <2> QED  BY <2>2, <2>4 DEF AllExpected, Expected, Built, Left, Right, Subtree, Mid
<1>12. TreeSplits'
  <2>1. \A u \in nodes : Splits(u)'
    <3> TAKE u \in nodes
    <3>1. u \in Subtrees /\ u.size > 0 /\ Slots(u) \subseteq Ids /\ Splits(u) /\ Clear(t, u)
      BY <1>1, <1>2 DEF InArray, TreeSplits, TodoClear
    <3> QED  BY <1>1, <1>2, <1>5, <3>1, SplitsStays
  <2>2. Splits(t)'
    <3>1. \A s1, s2 \in Slots(t) :
            s1 <= s2 => Key(coords'[s1], t.dim) <= Key(coords'[s2], t.dim)
      BY <1>1, <1>2, <1>5, SortEffect
    <3>2. /\ \A s \in Slots(Left(t))  : s <= Point(t)
          /\ \A s \in Slots(Right(t)) : Point(t) <= s
      BY <1>2 DEF Slots, Point, Left, Right, Subtree, Mid, Subtrees
    <3>3. Middle(t)' = coords'[Point(t)]
      BY DEF Middle
    <3>4. /\ \A s \in Slots(Left(t))  : Key(coords'[s], t.dim) <= Key(coords'[Point(t)], t.dim)
          /\ \A s \in Slots(Right(t)) : Key(coords'[Point(t)], t.dim) <= Key(coords'[s], t.dim)
      BY <1>3, <3>1, <3>2 DEF Inside
    <3> QED
      BY <1>1, <3>3, <3>4 DEF Splits, Key, Slots, Left, Right, Subtree, Mid
  <2> QED  BY <1>1, <2>1, <2>2 DEF TreeSplits
<1> QED  BY <1>6, <1>7, <1>9, <1>10, <1>11, <1>12

-----------------------------------------------------------------------------
(* The invariant                                                           *)

\* Coordinates and distances are integers once a query was read.
LEMMA Coordinates ==
  ASSUME KTypeOK, lon # Unset, lat # Unset
  PROVE  /\ QueryLon \in Int /\ QueryLat \in Int
         /\ \A r \in Ids : rs[r].lon \in Int /\ rs[r].lat \in Int
         /\ \A r \in Ids : Distance(r, QueryLon, QueryLat) \in Nat
<1>1. lon \in Int /\ lat \in Int
  BY CoordAssumption DEF KTypeOK
<1>2. QueryLon \in Int /\ QueryLat \in Int
  BY <1>1, CoordAssumption DEF QueryLon, QueryLat, Clamp
<1>3. \A r \in Ids : rs[r].lon \in Int /\ rs[r].lat \in Int
  BY CoordAssumption DEF KTypeOK
<1>4. \A v \in Int : Square(v) \in Nat
  BY DEF Square
<1>5. ASSUME NEW r \in Ids
      PROVE  Distance(r, QueryLon, QueryLat) \in Nat
  <2>1. QueryLon - rs[r].lon \in Int /\ QueryLat - rs[r].lat \in Int
    BY <1>2, <1>3
  <2>2. /\ Square(QueryLon - rs[r].lon) \in Nat
        /\ Square(QueryLat - rs[r].lat) \in Nat
    BY <1>4, <2>1
  <2> QED  BY <2>2 DEF Distance
<1> QED  BY <1>2, <1>3, <1>5

\* A node of the finished tree: its children are in the tree, and the call goes
\* to one and then to the other.
LEMMA InTree ==
  ASSUME KInv, todo = <<>>, NEW t \in nodes
  PROVE  /\ t \in Subtrees /\ t.size > 0 /\ Slots(t) \subseteq Ids /\ Splits(t)
         /\ Point(t) \in Slots(t) /\ Middle(t) \in Ids
         /\ Built(First(t)) /\ Built(Second(t))
         /\ First(t) \in Subtrees /\ Second(t) \in Subtrees
         /\ Slots(t) = Slots(First(t)) \cup {Point(t)} \cup Slots(Second(t))
         /\ Slots(Second(t)) \subseteq Slots(t)
<1> USE DEF KInv, TreeParts
<1>1. t \in Subtrees /\ t.size > 0 /\ Slots(t) \subseteq Ids /\ Splits(t)
  BY DEF KTypeOK, InArray, TreeSplits
<1>2. /\ Left(t) \in Subtrees /\ Right(t) \in Subtrees /\ Point(t) \in Slots(t)
      /\ Slots(t) = Slots(Left(t)) \cup {Point(t)} \cup Slots(Right(t))
  BY <1>1, Halves
<1>3. Middle(t) \in Ids
  BY <1>1, <1>2 DEF Middle, KTypeOK
<1>4. Built(Left(t)) /\ Built(Right(t))
  BY DEF AllExpected, Expected
<1>5. \/ First(t) = Left(t) /\ Second(t) = Right(t)
      \/ First(t) = Right(t) /\ Second(t) = Left(t)
  BY DEF First, Second
<1> QED  BY <1>1, <1>2, <1>3, <1>4, <1>5

LEMMA InvInit == KInit => KInv
<1> SUFFICES ASSUME KInit PROVE KInv
  OBVIOUS
<1> USE DEF KInit, CInit
<1>1. n \in Nat /\ Whole \in Subtrees /\ Slots(Whole) = Ids /\ todo = <<Whole>>
  BY CoordAssumption DEF Whole, Subtree, Subtrees, Slots, Ids
<1>2. KTypeOK
  BY <1>1 DEF KTypeOK
<1>3. DOMAIN todo = {1} /\ todo[1] = Whole
  BY <1>1
<1>4. TreeParts
  BY <1>1, <1>3
     DEF TreeParts, AllThere, InArray, TodoApart, TodoClear, AllExpected, Expected,
         TreeSplits
<1> QED  BY <1>2, <1>4 DEF KInv, BuiltFirst, QueryRead, CallsInTree

LEMMA InvStep == KInv /\ [KNext]_kvars => KInv'
<1> SUFFICES ASSUME KInv, [KNext]_kvars PROVE KInv'
  OBVIOUS
<1> USE DEF KInv
<1>1. todo # <<>> => stage = "start" /\ calls = <<>>
  BY DEF BuiltFirst, CallsInTree
<1>2. CASE CreateNone \/ CreateLeaf
  <2>1. /\ todo # <<>> /\ todo \in Seq(Subtrees)
        /\ UNCHANGED <<coords, searchVars, loopVars>>
        /\ todo' = Tail(todo)
        /\ nodes' \subseteq nodes \cup {Head(todo)}
    BY <1>2 DEF CreateNone, CreateLeaf, KTypeOK
  <2>2. Head(todo) \in Subtrees /\ Tail(todo) \in Seq(Subtrees)
    BY <2>1, Pop
  <2>3. KTypeOK'
    BY <2>1, <2>2 DEF KTypeOK, Ids, loopVars, searchVars
  <2>4. TreeParts'
    BY <1>2, LeafTree
  <2> QED
    BY <1>1, <2>1, <2>3, <2>4
       DEF BuiltFirst, QueryRead, CallsInTree, loopVars, searchVars
<1>3. CASE CreateNode
  <2> DEFINE t == Head(todo)
  <2>1. /\ todo # <<>> /\ todo \in Seq(Subtrees) /\ t.size > 1 /\ Sort(t)
        /\ UNCHANGED <<searchVars, loopVars>>
        /\ todo' = <<Left(t), Right(t)>> \o Tail(todo)
        /\ nodes' = nodes \cup {t}
    BY <1>3 DEF CreateNode, KTypeOK
  <2>2. t \in Subtrees /\ t = todo[1] /\ 1 \in DOMAIN todo
    BY <2>1, Pop
  <2>3. t.size > 0 /\ Slots(t) \subseteq Ids
    BY <2>1, <2>2 DEF TreeParts, InArray, Subtrees
  <2>4. Left(t) \in Subtrees /\ Right(t) \in Subtrees
    BY <2>2, <2>3, Halves
  <2>5. <<Left(t), Right(t)>> \o Tail(todo) \in Seq(Subtrees)
    BY <2>1, <2>4, PushTwo
  <2>6. coords' \in [Ids -> Ids]
    BY <2>1, <2>2, <2>3, SortEffect DEF TreeParts
  <2>7. KTypeOK'
    BY <2>1, <2>2, <2>5, <2>6 DEF KTypeOK, Ids, loopVars, searchVars
  <2>8. TreeParts'
    BY <1>3, NodeTree
  <2> QED
    BY <1>1, <2>1, <2>7, <2>8
       DEF BuiltFirst, QueryRead, CallsInTree, loopVars, searchVars
<1>4. CASE TreeDone
  <2> USE <1>4 DEF TreeDone, MkIndex
  <2>1. TreeParts'
    BY TreeUntouched
  <2>2. KTypeOK'
    BY DEF KTypeOK, Ids, treeVars, searchVars
  <2>3. calls' = <<>> /\ DOMAIN calls' = {}
    <3>1. calls = <<>>
      BY DEF CallsInTree
    <3> QED  BY <3>1 DEF searchVars
  <2> QED
    BY <2>1, <2>2, <2>3 DEF BuiltFirst, QueryRead, CallsInTree, treeVars
<1>5. CASE KReadLine
  <2> USE <1>5 DEF KReadLine, ReadLine
  <2>1. TreeParts' /\ todo = <<>> /\ UNCHANGED <<treeVars, n, rs>>
    BY TreeUntouched DEF BuiltFirst
  <2>2. /\ lon' \in Lons /\ lat' \in Lats /\ stage' = "lookup"
        /\ lon' # Unset /\ lat' # Unset
    BY CoordAssumption DEF KTypeOK, Kept
  <2>3. /\ Enter(Whole) \in Calls /\ Enter(Whole).sub = Whole
        /\ Enter(Whole).at = "entry"
    <3>1. n \in Nat
      BY CoordAssumption DEF KTypeOK
    <3> QED  BY <3>1 DEF Enter, Calls, Whole, Subtree, Subtrees
  <2>4. Built(Whole)
    BY <2>1 DEF TreeParts, AllExpected, Expected
  <2>5. KTypeOK'
    BY <2>1, <2>2, <2>3 DEF KTypeOK, Ids, treeVars
  <2>6. CallsInTree'
    <3>1. DOMAIN calls' = {1} /\ calls'[1] = Enter(Whole)
      OBVIOUS
    <3>2. Built(Enter(Whole).sub)' /\ Whole' = Whole
      BY <2>1, <2>3, <2>4 DEF Built, Whole, Enter, treeVars
    <3>3. \A k \in DOMAIN calls' : calls'[k].sub = Whole /\ calls'[k].at = "entry"
      BY <2>3, <3>1
    <3> QED  BY <2>1, <2>2, <2>4, <3>3 DEF CallsInTree, Built, treeVars
  <2> QED
    BY <2>1, <2>2, <2>5, <2>6 DEF BuiltFirst, QueryRead, treeVars
<1>6. CASE VisitNone \/ SkipSecond
  <2>1. /\ calls # <<>> /\ calls' = Tail(calls) /\ calls \in Seq(Calls)
        /\ UNCHANGED <<treeVars, closest, best, loopVars>>
    BY <1>6 DEF VisitNone, SkipSecond, KTypeOK
  <2>2. /\ Tail(calls) \in Seq(Calls)
        /\ \A k \in DOMAIN Tail(calls) :
             k + 1 \in DOMAIN calls /\ Tail(calls)[k] = calls[k + 1]
    BY <2>1, Pop
  <2>3. KTypeOK'
    BY <2>1, <2>2 DEF KTypeOK, Ids, treeVars, loopVars
  <2>4. TreeParts'
    BY <2>1, TreeUntouched DEF loopVars
  <2>5. CallsInTree'
    BY <2>1, <2>2 DEF CallsInTree, Built, treeVars, loopVars
  <2> QED
    BY <2>1, <2>3, <2>4, <2>5 DEF BuiltFirst, QueryRead, treeVars, loopVars
<1>7. CASE Visit
  <2> DEFINE t == Top.sub
             d == Distance(Middle(t), QueryLon, QueryLat)
  <2>1. /\ calls # <<>> /\ t.size > 0
        /\ \/ closest' = d /\ best' = Middle(t)
           \/ UNCHANGED <<closest, best>>
        /\ calls' = <<Enter(First(t)), Resume(t)>> \o Tail(calls)
        /\ UNCHANGED <<treeVars, loopVars>>
    BY <1>7 DEF Visit
  <2>2. /\ calls \in Seq(Calls) /\ Top = calls[1] /\ 1 \in DOMAIN calls
        /\ stage = "lookup" /\ todo = <<>>
    BY <2>1, Pop DEF Top, KTypeOK, CallsInTree, BuiltFirst
  <2>3. t \in nodes
    <3>1. calls[1] \in Calls /\ t = calls[1].sub
      BY <2>2
    <3>2. /\ Built(calls[1].sub)
          /\ calls[1].at = "back from first" => calls[1].sub.size > 0
      BY <2>2 DEF CallsInTree
    <3>3. calls[1].sub.size > 0
      BY <2>1, <2>2, <3>2
    <3>4. calls[1].sub.size # 0
      BY <3>3
    <3>5. calls[1].sub \in nodes
      BY <3>2, <3>4 DEF Built
    <3> QED  BY <3>1, <3>5
  <2>4. /\ t \in Subtrees /\ First(t) \in Subtrees /\ Middle(t) \in Ids
        /\ Built(First(t))
    BY <2>2, <2>3, InTree
  <2>5. d \in Nat
    BY <2>2, <2>4, Coordinates DEF QueryRead
  <2>6. /\ Enter(First(t)) \in Calls /\ Resume(t) \in Calls
        /\ Enter(First(t)).sub = First(t) /\ Enter(First(t)).at = "entry"
        /\ Resume(t).sub = t
    BY <2>4 DEF Enter, Resume, Calls
  <2> DEFINE r == <<Enter(First(t)), Resume(t)>> \o Tail(calls)
  <2>7. /\ r \in Seq(Calls)
        /\ r[1] = Enter(First(t)) /\ r[2] = Resume(t)
        /\ \A k \in DOMAIN r :
             k \notin {1, 2} => k - 1 \in DOMAIN calls /\ r[k] = calls[k - 1]
    BY <2>1, <2>2, <2>6, PushTwo
  <2> HIDE DEF r
  <2>8. calls' = r
    BY <2>1 DEF r
  <2> HIDE DEF t, d
  <2>9. KTypeOK'
    BY <2>1, <2>4, <2>5, <2>7, <2>8 DEF KTypeOK, Ids, treeVars, loopVars
  <2>10. TreeParts'
    BY <2>1, TreeUntouched DEF loopVars
  <2>11. \A k \in DOMAIN r :
           /\ Built(r[k].sub)
           /\ r[k].at = "back from first" => r[k].sub.size > 0
    <3> TAKE k \in DOMAIN r
    <3>1. CASE k = 1
      BY <3>1, <2>4, <2>6, <2>7
    <3>2. CASE k = 2
      BY <3>2, <2>1, <2>3, <2>6, <2>7 DEF Built
    <3>3. CASE k \notin {1, 2}
      BY <3>3, <2>7 DEF CallsInTree
    <3> QED  BY <3>1, <3>2, <3>3
  <2>12. CallsInTree'
    BY <2>1, <2>2, <2>8, <2>11 DEF CallsInTree, Built, treeVars, loopVars
  <2> QED
    BY <2>1, <2>9, <2>10, <2>12 DEF BuiltFirst, QueryRead, treeVars, loopVars
<1>8. CASE VisitSecond
  <2> DEFINE t == Top.sub
  <2>1. /\ calls # <<>> /\ Top.at = "back from first"
        /\ calls' = <<Enter(Second(t))>> \o Tail(calls)
        /\ UNCHANGED <<treeVars, closest, best, loopVars>>
    BY <1>8 DEF VisitSecond
  <2>2. /\ calls \in Seq(Calls) /\ Top = calls[1] /\ 1 \in DOMAIN calls
        /\ stage = "lookup" /\ todo = <<>>
    BY <2>1, Pop DEF Top, KTypeOK, CallsInTree, BuiltFirst
  <2>3. t \in nodes
    <3>1. calls[1] \in Calls /\ t = calls[1].sub
      BY <2>2
    <3>2. /\ Built(calls[1].sub)
          /\ calls[1].at = "back from first" => calls[1].sub.size > 0
      BY <2>2 DEF CallsInTree
    <3>3. calls[1].sub.size > 0
      BY <2>1, <2>2, <3>2
    <3>4. calls[1].sub.size # 0
      BY <3>3
    <3>5. calls[1].sub \in nodes
      BY <3>2, <3>4 DEF Built
    <3> QED  BY <3>1, <3>5
  <2>4. Second(t) \in Subtrees /\ Built(Second(t))
    BY <2>2, <2>3, InTree
  <2>5. /\ Enter(Second(t)) \in Calls
        /\ Enter(Second(t)).sub = Second(t) /\ Enter(Second(t)).at = "entry"
    BY <2>4 DEF Enter, Calls
  <2> DEFINE r == <<Enter(Second(t))>> \o Tail(calls)
  <2>6. /\ r \in Seq(Calls)
        /\ r[1] = Enter(Second(t))
        /\ \A k \in DOMAIN r : k # 1 => k \in DOMAIN calls /\ r[k] = calls[k]
    <3> HIDE DEF t
    <3> DEFINE a == Enter(Second(t))
    <3>1. a \in Calls /\ calls # <<>> /\ calls \in Seq(Calls)
      BY <2>1, <2>2, <2>5
    <3> HIDE DEF a
    <3>2. LET q == <<a>> \o Tail(calls) IN
          /\ q \in Seq(Calls)
          /\ q[1] = a
          /\ \A k \in DOMAIN q : k # 1 => k \in DOMAIN calls /\ q[k] = calls[k]
      BY <3>1, ReplaceTop
    <3> QED  BY <3>2 DEF a
  <2> HIDE DEF r
  <2>7. calls' = r
    BY <2>1 DEF r
  <2> HIDE DEF t
  <2>8. KTypeOK'
    BY <2>1, <2>6, <2>7 DEF KTypeOK, Ids, treeVars, loopVars
  <2>9. TreeParts'
    BY <2>1, TreeUntouched DEF loopVars
  <2>10. \A k \in DOMAIN r :
           /\ Built(r[k].sub)
           /\ r[k].at = "back from first" => r[k].sub.size > 0
    BY <2>4, <2>5, <2>6 DEF CallsInTree
  <2>11. CallsInTree'
    BY <2>1, <2>2, <2>7, <2>10 DEF CallsInTree, Built, treeVars, loopVars
  <2> QED
    BY <2>1, <2>8, <2>9, <2>11 DEF BuiltFirst, QueryRead, treeVars, loopVars
<1>9. CASE Found
  <2> USE <1>9 DEF Found, Answer
  <2>1. TreeParts'
    BY TreeUntouched
  <2>2. KTypeOK'
    BY DEF KTypeOK, Ids, treeVars, searchVars
  <2> QED
    BY <2>1, <2>2 DEF BuiltFirst, QueryRead, CallsInTree, treeVars, searchVars
<1>10. CASE KEndOfQueries
  <2> USE <1>10 DEF KEndOfQueries, EndOfQueries
  <2>1. TreeParts' /\ calls = <<>>
    BY TreeUntouched DEF CallsInTree
  <2>2. KTypeOK'
    BY DEF KTypeOK, Ids, treeVars, searchVars
  <2> QED
    BY <2>1, <2>2 DEF BuiltFirst, QueryRead, CallsInTree, treeVars, searchVars
<1>11. CASE UNCHANGED kvars
  <2>1. TreeParts'
    BY <1>11, TreeUntouched DEF kvars, loopVars
  <2>2. KTypeOK'
    BY <1>11 DEF KTypeOK, Ids, Calls, Subtrees, kvars, loopVars, treeVars, searchVars
  <2> QED
    BY <1>11, <2>1, <2>2
       DEF BuiltFirst, QueryRead, CallsInTree, Built, kvars, loopVars, treeVars, searchVars
<1> QED
  BY <1>2, <1>3, <1>4, <1>5, <1>6, <1>7, <1>8, <1>9, <1>10, <1>11 DEF KNext

\* Every node splits its part of the array, while the tree is built and ever
\* after: what create_tree still sorts lies within one half of a node or apart
\* from it (coord_query_kdtree.c:71-104).
THEOREM TreeSplitsHolds == KSpec => []TreeSplits
<1>1. KInv => TreeSplits
  BY DEF KInv, TreeParts
<1> QED  BY <1>1, InvInit, InvStep, PTL DEF KSpec

\* Types of the tree's and the search's variables; in particular node->p never
\* leaves the array (coord_query_kdtree.c:71-104, 150-208).
THEOREM KTypeCorrect == KSpec => []KTypeOK
<1>1. KInv => KTypeOK
  BY DEF KInv
<1> QED  BY <1>1, InvInit, InvStep, PTL DEF KSpec

-----------------------------------------------------------------------------
(* The tree holds all records                                              *)

\* No record is in the array twice.
OnceInArray == \A s1, s2 \in Ids : coords[s1] = coords[s2] => s1 = s2

\* Every slot has a node, or is in a part that create_tree has still to work on;
\* no two nodes point to one slot.
SlotsPlaced ==
  \A slot \in Ids : \/ \E u \in nodes : Point(u) = slot
                    \/ \E k \in DOMAIN todo : slot \in Slots(todo[k])
PointsApart == \A t, u \in nodes : Point(t) = Point(u) => t = u

Complete == OnceInArray /\ SlotsPlaced /\ PointsApart

LEMMA CompleteInit == KInit => Complete
<1> SUFFICES ASSUME KInit PROVE Complete
  OBVIOUS
<1> USE DEF KInit, CInit
<1>1. n \in Nat /\ todo = <<Whole>> /\ Slots(Whole) = Ids
  BY CoordAssumption DEF Whole, Subtree, Slots, Ids
<1>2. 1 \in DOMAIN todo /\ todo[1] = Whole
  BY <1>1
<1> QED  BY <1>1, <1>2 DEF Complete, OnceInArray, SlotsPlaced, PointsApart

\* The order of a part changes, what the array holds does not.
LEMMA SortOnce ==
  ASSUME KTypeOK, OnceInArray, NEW t \in Subtrees, Slots(t) \subseteq Ids, Sort(t), n' = n
  PROVE  OnceInArray'
<1>1. PICK from \in Bijection(Slots(t), Slots(t)) :
        coords' = [slot \in Ids |->
                     IF slot \in Slots(t) THEN coords[from[slot]] ELSE coords[slot]]
  BY Zenon DEF Sort
<1>2. /\ from \in [Slots(t) -> Slots(t)]
      /\ \A a, b \in Slots(t) : from[a] = from[b] => a = b
  BY <1>1 DEF Bijection, Injection, IsInjective
<1> DEFINE origin(slot) == IF slot \in Slots(t) THEN from[slot] ELSE slot
<1>3. \A slot \in Ids : origin(slot) \in Ids /\ coords'[slot] = coords[origin(slot)]
  BY <1>1, <1>2
<1>4. \A s1, s2 \in Ids : origin(s1) = origin(s2) => s1 = s2
  BY <1>2
<1> HIDE DEF origin
<1>5. \A s1, s2 \in Ids : coords'[s1] = coords'[s2] => s1 = s2
  BY <1>3, <1>4 DEF OnceInArray
<1> QED  BY <1>5 DEF OnceInArray, Ids

\* The slot of a node is in no part that is still to be worked on.
LEMMA PointOutside ==
  ASSUME KInv, NEW k \in DOMAIN todo, NEW u \in nodes
  PROVE  Point(u) \notin Slots(todo[k])
<1>1. u \in Subtrees /\ u.size > 0 /\ Clear(todo[k], u)
  BY DEF KInv, KTypeOK, TreeParts, InArray, TodoClear
<1>2. /\ Point(u) \in Slots(u)
      /\ Point(u) \notin Slots(Left(u)) /\ Point(u) \notin Slots(Right(u))
  BY <1>1, Halves
<1> QED  BY <1>1, <1>2 DEF Clear, Apart, Inside

\* The halves replace their whole on the stack.
LEMMA NodePushed ==
  ASSUME KInv, CreateNode, NEW t \in Subtrees, t = Head(todo)
  PROVE  /\ \A k \in DOMAIN todo : k # 1 => \E j \in DOMAIN todo' : todo'[j] = todo[k]
         /\ \E k \in DOMAIN todo' : todo'[k] = Left(t)
         /\ \E k \in DOMAIN todo' : todo'[k] = Right(t)
<1>1. /\ todo # <<>> /\ todo \in Seq(Subtrees) /\ t.size > 0
      /\ todo' = <<Left(t), Right(t)>> \o Tail(todo)
  <2>1. t.size > 1 => t.size > 0
    BY DEF Subtrees
  <2> QED  BY <2>1 DEF CreateNode, KInv, KTypeOK
<1>2. Left(t) \in Subtrees /\ Right(t) \in Subtrees
  BY <1>1, Halves
<1> DEFINE r == <<Left(t), Right(t)>> \o Tail(todo)
<1>3. /\ 1 \in DOMAIN r /\ r[1] = Left(t)
      /\ 2 \in DOMAIN r /\ r[2] = Right(t)
      /\ \A k \in DOMAIN todo : k # 1 => k + 1 \in DOMAIN r /\ r[k + 1] = todo[k]
  BY <1>1, <1>2, PushTwo
<1> QED  BY <1>1, <1>3

LEMMA CompleteStep == KInv /\ Complete /\ [KNext]_kvars => Complete'
<1> SUFFICES ASSUME KInv, Complete, [KNext]_kvars
             PROVE  Complete'
  OBVIOUS
<1> USE DEF Complete
<1>1. CASE CreateNone \/ CreateLeaf \/ CreateNode
  <2> DEFINE t == Head(todo)
  <2>1. /\ todo # <<>> /\ todo \in Seq(Subtrees)
        /\ UNCHANGED <<rs, n>>
    BY <1>1 DEF CreateNone, CreateLeaf, CreateNode, KInv, KTypeOK, loopVars
  <2>2. /\ t \in Subtrees /\ t = todo[1] /\ 1 \in DOMAIN todo /\ Slots(t) \subseteq Ids
    <3>1. t \in Subtrees /\ t = todo[1] /\ 1 \in DOMAIN todo
      BY <2>1, Pop
    <3> QED  BY <3>1 DEF KInv, TreeParts, InArray
  <2>3. OnceInArray'
    <3>1. UNCHANGED coords \/ Sort(t)
      BY <1>1 DEF CreateNone, CreateLeaf, CreateNode
    <3>2. CASE UNCHANGED coords
      BY <2>1, <3>2 DEF OnceInArray, Ids
    <3>3. CASE Sort(t)
      BY <2>1, <2>2, <3>3, SortOnce DEF KInv
    <3> QED  BY <3>1, <3>2, <3>3
  <2>4. /\ nodes' = nodes \/ (nodes' = nodes \cup {t} /\ t.size > 0)
        /\ t.size = 0 => nodes' = nodes
        /\ t.size > 0 => t \in nodes'
    <3>1. t.size = 0 => ~(t.size > 0) /\ ~(t.size > 1) /\ t.size # 1
      OBVIOUS
    <3>2. t.size > 1 => t.size > 0
      BY <2>2 DEF Subtrees
    <3> HIDE DEF t
    <3>3. CASE CreateNone
      BY <3>1, <3>3 DEF CreateNone, t
    <3>4. CASE CreateLeaf
      BY <3>1, <3>4 DEF CreateLeaf, t
    <3>5. CASE CreateNode
      BY <3>1, <3>2, <3>5 DEF CreateNode, t
    <3> QED  BY <1>1, <3>3, <3>4, <3>5
  <2>5. PointsApart'
    <3>1. CASE nodes' = nodes
      BY <3>1 DEF PointsApart, Point, Mid
    <3>2. CASE nodes' = nodes \cup {t} /\ t.size > 0
      <4>1. Point(t) \in Slots(t)
        BY <2>2, <3>2, Halves
      <4>2. \A u \in nodes : Point(u) # Point(t)
        BY <2>2, <4>1, PointOutside
      <4>3. \A u, v \in nodes' : Point(u) = Point(v) => u = v
        BY <3>2, <4>2 DEF PointsApart
      <4> QED  BY <4>3 DEF PointsApart, Point, Mid
    <3> QED  BY <2>4, <3>1, <3>2
  <2>6. \A k \in DOMAIN todo : k # 1 => \E j \in DOMAIN todo' : todo'[j] = todo[k]
    <3>1. CASE CreateNone \/ CreateLeaf
      <4>1. todo' = Tail(todo)
        BY <3>1 DEF CreateNone, CreateLeaf
      <4> QED  BY <2>1, <4>1, Pop
    <3>2. CASE CreateNode
      BY <2>1, <2>2, <3>2, NodePushed
    <3> QED  BY <1>1, <3>1, <3>2
  <2>7. \A slot \in Slots(t) : \/ \E u \in nodes' : Point(u) = slot
                               \/ \E k \in DOMAIN todo' : slot \in Slots(todo'[k])
    <3> TAKE slot \in Slots(t)
    <3>1. CASE t.size = 0
      BY <2>2, <3>1 DEF Slots, Subtrees
    <3>2. CASE t.size = 1
      <4>1. /\ Slots(t) = Slots(Left(t)) \cup {Point(t)} \cup Slots(Right(t))
            /\ Left(t).size = 0 /\ Right(t).size = 0
            /\ Left(t) \in Subtrees /\ Right(t) \in Subtrees
        BY <2>2, <3>2, Halves
      <4>2. Slots(Left(t)) = {} /\ Slots(Right(t)) = {}
        BY <4>1 DEF Slots, Subtrees
      <4>3. t \in nodes'
        BY <2>4, <3>2
      <4> QED  BY <4>1, <4>2, <4>3
    <3>3. CASE t.size > 1
      <4>1. t.size > 0
        BY <2>2, <3>3 DEF Subtrees
      <4>2. /\ Slots(t) = Slots(Left(t)) \cup {Point(t)} \cup Slots(Right(t))
            /\ t \in nodes'
        BY <2>2, <2>4, <4>1, Halves
      <4>3. CreateNode
        BY <1>1, <3>3 DEF CreateNone, CreateLeaf
      <4>4. /\ \E k \in DOMAIN todo' : todo'[k] = Left(t)
            /\ \E k \in DOMAIN todo' : todo'[k] = Right(t)
        BY <2>1, <2>2, <4>3, NodePushed
      <4> QED  BY <4>2, <4>4
    <3> QED  BY <2>2, <3>1, <3>2, <3>3 DEF Subtrees
  <2>8. SlotsPlaced'
    <3>1. \A slot \in Ids : \/ \E u \in nodes' : Point(u) = slot
                            \/ \E k \in DOMAIN todo' : slot \in Slots(todo'[k])
      <4> TAKE slot \in Ids
      <4>1. CASE \E u \in nodes : Point(u) = slot
        BY <2>4, <4>1
      <4>2. CASE \E k \in DOMAIN todo : slot \in Slots(todo[k])
        <5>1. PICK k \in DOMAIN todo : slot \in Slots(todo[k])
          BY <4>2
        <5>2. CASE k = 1
          BY <2>2, <2>7, <5>1, <5>2
        <5>3. CASE k # 1
          BY <2>6, <5>1, <5>3
        <5> QED  BY <5>2, <5>3
      <4> QED  BY <4>1, <4>2 DEF SlotsPlaced
    <3> QED  BY <2>1, <3>1 DEF SlotsPlaced, Point, Mid, Slots, Ids
  <2> QED  BY <2>3, <2>5, <2>8
<1>2. CASE UNCHANGED <<rs, n, treeVars>>
  BY <1>2 DEF OnceInArray, SlotsPlaced, PointsApart, Point, Mid, Slots, Ids, treeVars
<1>3. \/ CreateNone \/ CreateLeaf \/ CreateNode
      \/ UNCHANGED <<rs, n, treeVars>>
  BY DEF KNext, kvars, loopVars, TreeDone, MkIndex, KReadLine, ReadLine, VisitNone, Visit,
         VisitSecond, SkipSecond, Found, Answer, KEndOfQueries, EndOfQueries
<1> QED  BY <1>1, <1>2, <1>3

\* A tree that is built holds every record once.
LEMMA BuiltHoldsAll ==
  ASSUME KInv, Complete
  PROVE  TreeHoldsAll
<1> SUFFICES ASSUME todo = <<>>
             PROVE  /\ coords \in Bijection(Ids, Ids)
                    /\ Cardinality(nodes) = n
                    /\ {Point(t) : t \in nodes} = Ids
  BY DEF TreeHoldsAll
<1>1. coords \in Bijection(Ids, Ids)
  BY DEF KInv, KTypeOK, TreeParts, AllThere, Complete, OnceInArray,
         Bijection, Injection, Surjection, IsInjective
<1>2. \A t \in nodes : Point(t) \in Ids
  BY InTree
<1>3. \A slot \in Ids : \E t \in nodes : Point(t) = slot
  <2>1. DOMAIN todo = {}
    OBVIOUS
  <2> QED  BY <2>1 DEF Complete, SlotsPlaced
<1>4. Cardinality(nodes) = n
  <2>1. IsFiniteSet(Ids) /\ Cardinality(Ids) = n
    <3>1. n \in Nat
      BY CoordAssumption DEF KInv, KTypeOK
    <3> QED  BY <3>1, FS_Interval DEF Ids
  <2> DEFINE node == [slot \in Ids |-> CHOOSE t \in nodes : Point(t) = slot]
  <2>2. \A slot \in Ids : node[slot] \in nodes /\ Point(node[slot]) = slot
    BY <1>3
  <2> HIDE DEF node
  <2>3. node \in [Ids -> nodes]
    BY <2>2 DEF node
  <2>4. \A a, b \in Ids : node[a] = node[b] => a = b
    BY <2>2
  <2>5. \A t \in nodes : \E slot \in Ids : node[slot] = t
    BY <1>2, <2>2 DEF Complete, PointsApart
  <2>6. node \in Bijection(Ids, nodes)
    BY <2>3, <2>4, <2>5 DEF Bijection, Injection, Surjection, IsInjective
  <2> QED  BY <2>1, <2>6, FS_Bijection DEF ExistsBijection
<1> QED  BY <1>1, <1>2, <1>3, <1>4

\* When the tree is built, no record was lost from the array or is there twice,
\* and every slot has exactly one node that points to it
\* (coord_query_kdtree.c:71-104).
THEOREM TreeHoldsAllHolds == KSpec => []TreeHoldsAll
BY InvInit, InvStep, CompleteInit, CompleteStep, BuiltHoldsAll, PTL DEF KSpec

-----------------------------------------------------------------------------
(* Searching the tree                                                      *)

LEMMA SquareGrows ==
  ASSUME NEW a \in Int, NEW b \in Int, (0 <= a /\ a <= b) \/ (b <= a /\ a <= 0)
  PROVE  Square(a) <= Square(b)
<1>1. CASE 0 <= a /\ a <= b
  <2>1. a * a <= a * b
    BY <1>1
  <2>2. a * b <= b * b
    BY <1>1
  <2> QED  BY <2>1, <2>2 DEF Square
<1>2. CASE b <= a /\ a <= 0
  <2>1. a * a <= a * b
    BY <1>2
  <2>2. a * b <= b * b
    BY <1>2
  <2> QED  BY <2>1, <2>2 DEF Square
<1> QED  BY <1>1, <1>2

\* A record on the side away from the query is at least as far from it as the
\* node's split.
LEMMA FarSide ==
  ASSUME KInv, stage = "lookup", NEW t \in nodes, NEW slot \in Slots(Second(t))
  PROVE  /\ Diff(t) \in Int
         /\ Square(Diff(t)) <= Distance(coords[slot], QueryLon, QueryLat)
<1> DEFINE r == coords[slot]
           q == IF t.dim = 0 THEN QueryLon ELSE QueryLat
           m == Key(Middle(t), t.dim)
           k == Key(r, t.dim)
<1>1. /\ todo = <<>> /\ lon # Unset /\ lat # Unset /\ KTypeOK
  BY DEF KInv, BuiltFirst, QueryRead
<1>2. /\ t \in Subtrees /\ t.size > 0 /\ Splits(t) /\ Middle(t) \in Ids
      /\ slot \in Ids
  BY <1>1, InTree
<1>3. r \in Ids
  BY <1>1, <1>2 DEF KTypeOK
<1>4. q \in Int /\ m \in Int /\ k \in Int
  BY <1>1, <1>2, <1>3, Coordinates DEF Key
<1>5. Diff(t) = q - m
  BY DEF Diff
<1>6. \/ q - m < 0 /\ m <= k
      \/ q - m >= 0 /\ k <= m
  <2>1. CASE Diff(t) < 0
    <3>1. slot \in Slots(Right(t))
      BY <2>1 DEF Second
    <3> QED  BY <1>2, <1>5, <2>1, <3>1 DEF Splits
  <2>2. CASE ~(Diff(t) < 0)
    <3>1. slot \in Slots(Left(t))
      BY <2>2 DEF Second
    <3>2. q - m >= 0
      BY <1>4, <1>5, <2>2
    <3> QED  BY <1>2, <3>1, <3>2 DEF Splits
  <2> QED  BY <2>1, <2>2
<1>7. Square(q - m) <= Square(q - k)
  <2> HIDE DEF q, m, k
  <2>1. (0 <= q - m /\ q - m <= q - k) \/ (q - k <= q - m /\ q - m <= 0)
    BY <1>4, <1>6
  <2>2. q - m \in Int /\ q - k \in Int
    BY <1>4
  <2> QED  BY <2>1, <2>2, SquareGrows
<1>8. Square(q - k) <= Distance(r, QueryLon, QueryLat)
  <2>1. /\ QueryLon - rs[r].lon \in Int /\ QueryLat - rs[r].lat \in Int
    BY <1>1, <1>3, Coordinates
  <2>2. \A v \in Int : Square(v) \in Nat
    BY DEF Square
  <2>3. q - k = QueryLon - rs[r].lon \/ q - k = QueryLat - rs[r].lat
    BY DEF Key
  <2>4. Distance(r, QueryLon, QueryLat)
          = Square(QueryLon - rs[r].lon) + Square(QueryLat - rs[r].lat)
    BY DEF Distance
  <2> HIDE DEF q, k, r
  <2>5. /\ Square(QueryLon - rs[r].lon) \in Nat
        /\ Square(QueryLat - rs[r].lat) \in Nat
    BY <2>1, <2>2
  <2>6. \/ Square(q - k) = Square(QueryLon - rs[r].lon)
        \/ Square(q - k) = Square(QueryLat - rs[r].lat)
    BY <2>3
  <2> QED  BY <2>4, <2>5, <2>6
<1>9. Square(q - m) \in Int /\ Square(q - k) \in Int /\ Distance(r, QueryLon, QueryLat) \in Int
  <2>1. Distance(r, QueryLon, QueryLat) \in Nat
    BY <1>1, <1>3, Coordinates
  <2> QED  BY <1>4, <2>1 DEF Square
<1> HIDE DEF q, m, k
<1> QED  BY <1>4, <1>5, <1>7, <1>8, <1>9

\* A step that changes neither the tree nor the query changes no distance and
\* nothing that a call has to look at.
LEMMA SameQuery ==
  ASSUME UNCHANGED <<rs, coords, lon, lat>>
  PROVE  /\ QueryLon' = QueryLon /\ QueryLat' = QueryLat
         /\ \A r : Distance(r, QueryLon, QueryLat)' = Distance(r, QueryLon, QueryLat)
         /\ \A call : Pending(call)' = Pending(call)
BY DEF QueryLon, QueryLat, Clamp, Distance, Square, Pending, Second, Diff, Key,
       Middle, Point, Mid, Left, Right, Subtree, Slots

\* Whether the record in a slot is nearer than the best so far.
Near(slot) == Nearer(Distance(coords[slot], QueryLon, QueryLat))

\* A step of a search is right if what it leaves pending covers what it found
\* pending, up to records that are not nearer.
LEMMA SearchStep ==
  ASSUME KInv, NoneLeftBehind, stage = "lookup", UNCHANGED <<loopVars, treeVars>>,
         \/ UNCHANGED <<closest, best>>
         \/ \E r \in Ids :
              /\ Nearer(Distance(r, QueryLon, QueryLat))
              /\ closest' = Distance(r, QueryLon, QueryLat) /\ best' = r,
         \A slot \in Ids :
           (\E k \in DOMAIN calls : slot \in Pending(calls[k])) /\ Near(slot)'
             => \E k \in DOMAIN calls' : slot \in Pending(calls'[k])
  PROVE  NoneLeftBehind'
<1>1. /\ todo = <<>> /\ lon # Unset /\ lat # Unset /\ KTypeOK
  BY DEF KInv, BuiltFirst, QueryRead
<1>2. UNCHANGED <<rs, n, stage, lon, lat, coords, todo>>
  BY DEF loopVars, treeVars
<1>3. /\ \A r : Distance(r, QueryLon, QueryLat)' = Distance(r, QueryLon, QueryLat)
      /\ \A call : Pending(call)' = Pending(call)
  BY <1>2, SameQuery
<1>4. \A r \in Ids : Distance(r, QueryLon, QueryLat) \in Nat
  BY <1>1, Coordinates
<1>5. /\ best = NoRecord => closest = Infinity
      /\ best # NoRecord => closest = Distance(best, QueryLon, QueryLat)
      /\ best \in Ids \cup {NoRecord}
      /\ \A slot \in Ids :
           Near(slot) => \E k \in DOMAIN calls : slot \in Pending(calls[k])
  BY <1>1 DEF NoneLeftBehind, Near, KTypeOK
<1>6. /\ best' = NoRecord => closest' = Infinity
      /\ best' # NoRecord => closest' = Distance(best', QueryLon, QueryLat)
  <2>1. \A r \in Ids : r # NoRecord
    BY <1>1, CoordAssumption DEF Ids, KTypeOK
  <2> QED  BY <1>5, <2>1
<1>7. ASSUME NEW slot \in Ids, Near(slot)'
      PROVE  Near(slot)
  <2> DEFINE d == Distance(coords[slot], QueryLon, QueryLat)
  <2>1. d \in Nat
    BY <1>1, <1>4 DEF KTypeOK
  <2>2. closest' = Infinity \/ d < closest'
    BY <1>2, <1>3, <1>7 DEF Near, Nearer
  <2>3. CASE UNCHANGED <<closest, best>>
    BY <2>2, <2>3 DEF Near, Nearer
  <2>4. CASE \E r \in Ids :
               /\ Nearer(Distance(r, QueryLon, QueryLat))
               /\ closest' = Distance(r, QueryLon, QueryLat) /\ best' = r
    <3>1. PICK r \in Ids : /\ Nearer(Distance(r, QueryLon, QueryLat))
                           /\ closest' = Distance(r, QueryLon, QueryLat)
      BY <2>4
    <3>2. closest' \in Nat /\ closest' # Infinity
      BY <1>4, <3>1, CoordAssumption
    <3>3. closest = Infinity \/ closest' < closest
      BY <3>1 DEF Nearer
    <3>4. closest \in Nat \cup {Infinity}
      BY <1>1 DEF KTypeOK
    <3> HIDE DEF d
    <3>5. closest = Infinity \/ d < closest
      BY <2>1, <2>2, <3>2, <3>3, <3>4
    <3> QED  BY <3>5 DEF Near, Nearer, d
  <2> QED  BY <2>3, <2>4
<1>8. \A slot \in Ids :
        Near(slot)' => \E k \in DOMAIN calls' : slot \in Pending(calls'[k])
  BY <1>5, <1>7
<1>9. Distance(best, QueryLon, QueryLat)' = Distance(best', QueryLon, QueryLat)
  BY <1>2 DEF QueryLon, QueryLat, Clamp, Distance
<1>10. \A k : Pending(calls[k])' = Pending(calls'[k])
  BY <1>2 DEF Pending, Second, Diff, QueryLon, QueryLat, Clamp, Key, Middle
<1>11. IF best' = NoRecord THEN closest' = Infinity
                           ELSE closest' = Distance(best, QueryLon, QueryLat)'
  BY <1>6, <1>9
<1>12. \A slot \in Ids' :
         Near(slot)' => \E k \in DOMAIN calls' : slot \in Pending(calls[k])'
  BY <1>2, <1>8, <1>10 DEF Ids
<1> QED  BY <1>11, <1>12 DEF NoneLeftBehind, Near

LEMMA NotEmpty ==
  ASSUME NEW t \in Subtrees, t.size > 0
  PROVE  t.size # 0
BY DEF Subtrees

LEMMA CallTypes ==
  ASSUME KTypeOK
  PROVE  \A k \in DOMAIN calls : calls[k] \in Calls /\ calls[k].sub \in Subtrees
<1>1. calls \in Seq(Calls)
  BY DEF KTypeOK
<1>2. \A k \in DOMAIN calls : calls[k] \in Calls
  BY <1>1
<1>3. \A c \in Calls : c.sub \in Subtrees
  BY DEF Calls
<1> QED  BY <1>2, <1>3

\* A call on the stack, unless it is on no node, is on a node of the tree.
LEMMA TopInTree ==
  ASSUME KInv, NEW k \in DOMAIN calls, NEW t, t = calls[k].sub,
         t.size > 0 \/ calls[k].at = "back from first"
  PROVE  t \in nodes
<1>1. t.size > 0 /\ Built(t)
  BY DEF KInv, CallsInTree
<1>2. t \in Subtrees
  BY CallTypes DEF KInv
<1>3. t.size # 0
  BY <1>1, <1>2, NotEmpty
<1> QED  BY <1>1, <1>3 DEF Built

\* A call on no node leaves.
LEMMA VisitNoneStep ==
  ASSUME KInv, NoneLeftBehind, VisitNone
  PROVE  NoneLeftBehind'
<1>1. /\ calls # <<>> /\ calls \in Seq(Calls) /\ stage = "lookup"
      /\ Top.at = "entry" /\ Top.sub.size = 0
      /\ calls' = Tail(calls)
      /\ UNCHANGED <<treeVars, closest, best, loopVars>>
  BY DEF VisitNone, KInv, KTypeOK, CallsInTree
<1>2. /\ Top = calls[1] /\ Top \in Calls
      /\ \A k \in DOMAIN calls : k # 1 => k - 1 \in DOMAIN calls' /\ calls'[k - 1] = calls[k]
  BY <1>1, Pop DEF Top
<1>3. Pending(calls[1]) = {}
  <2>1. Pending(calls[1]) = Slots(Top.sub) /\ Top.sub.lo \in Nat
    BY <1>1, <1>2 DEF Pending, Calls, Subtrees
  <2> QED  BY <1>1, <2>1 DEF Slots
<1>4. ASSUME NEW slot \in Ids, NEW k \in DOMAIN calls, slot \in Pending(calls[k])
      PROVE  \E j \in DOMAIN calls' : slot \in Pending(calls'[j])
  <2>1. k # 1
    BY <1>3, <1>4
  <2> QED  BY <1>2, <1>4, <2>1
<1> QED  BY <1>1, <1>4, SearchStep

\* A call passes the other side by: it is as far away as the split at least.
LEMMA SkipSecondStep ==
  ASSUME KInv, NoneLeftBehind, SkipSecond, NEW t, t = Top.sub
  PROVE  NoneLeftBehind'
<1>1. /\ calls # <<>> /\ calls \in Seq(Calls) /\ stage = "lookup"
      /\ Top.at = "back from first" /\ ~Worthwhile(t)
      /\ calls' = Tail(calls)
      /\ UNCHANGED <<treeVars, closest, best, loopVars>>
  BY DEF SkipSecond, KInv, KTypeOK, CallsInTree
<1>2. /\ Top = calls[1] /\ 1 \in DOMAIN calls
      /\ \A k \in DOMAIN calls : k # 1 => k - 1 \in DOMAIN calls' /\ calls'[k - 1] = calls[k]
  BY <1>1, Pop DEF Top
<1>3. t \in nodes
  BY <1>1, <1>2, TopInTree
<1>4. Pending(calls[1]) = Slots(Second(t))
  BY <1>1, <1>2 DEF Pending
<1>5. ASSUME NEW slot \in Slots(Second(t))
      PROVE  ~Near(slot)
  <2> DEFINE s == Square(Diff(t))
             d == Distance(coords[slot], QueryLon, QueryLat)
  <2>1. s <= d /\ s \in Int
    <3>1. s <= d /\ Diff(t) \in Int
      BY <1>1, <1>3, <1>5, FarSide
    <3> QED  BY <3>1 DEF Square
  <2>2. d \in Nat
    <3>1. /\ todo = <<>> /\ lon # Unset /\ lat # Unset /\ KTypeOK
      BY <1>1 DEF KInv, BuiltFirst, QueryRead
    <3>2. coords[slot] \in Ids
      BY <1>3, <1>5, <3>1, InTree DEF KTypeOK
    <3> QED  BY <3>1, <3>2, Coordinates
  <2>3. closest # Infinity /\ ~(s < closest)
    BY <1>1 DEF Worthwhile, Nearer
  <2>4. closest \in Nat
    BY <2>3 DEF KInv, KTypeOK
  <2> HIDE DEF s, d
  <2>5. ~(d < closest)
    BY <2>1, <2>2, <2>3, <2>4
  <2> QED  BY <2>3, <2>5 DEF Near, Nearer, d
<1>6. ASSUME NEW slot \in Ids, NEW k \in DOMAIN calls, slot \in Pending(calls[k]), Near(slot)'
      PROVE  \E j \in DOMAIN calls' : slot \in Pending(calls'[j])
  <2>1. Near(slot)
    <3>1. UNCHANGED <<rs, coords, lon, lat, closest>>
      BY <1>1 DEF loopVars, treeVars
    <3>2. Distance(coords[slot], QueryLon, QueryLat)' = Distance(coords[slot], QueryLon, QueryLat)
      BY <3>1 DEF Distance, QueryLon, QueryLat, Clamp
    <3> QED  BY <1>6, <3>1, <3>2 DEF Near, Nearer
  <2>2. k # 1
    BY <1>4, <1>5, <1>6, <2>1
  <2> QED  BY <1>2, <1>6, <2>2
<1> QED  BY <1>1, <1>6, SearchStep

\* A call turns to the other side.
LEMMA VisitSecondStep ==
  ASSUME KInv, NoneLeftBehind, VisitSecond, NEW t, t = Top.sub
  PROVE  NoneLeftBehind'
<1> DEFINE r == <<Enter(Second(t))>> \o Tail(calls)
<1>1. /\ calls # <<>> /\ calls \in Seq(Calls) /\ stage = "lookup" /\ todo = <<>>
      /\ Top.at = "back from first"
      /\ calls' = r
      /\ UNCHANGED <<treeVars, closest, best, loopVars>>
  BY DEF VisitSecond, KInv, KTypeOK, CallsInTree, BuiltFirst
<1>2. Top = calls[1] /\ 1 \in DOMAIN calls
  BY <1>1, Pop DEF Top
<1>3. t \in nodes
  BY <1>1, <1>2, TopInTree
<1>4. Enter(Second(t)) \in Calls
  BY <1>1, <1>3, InTree DEF Enter, Calls
<1>5. /\ 1 \in DOMAIN r /\ r[1] = Enter(Second(t))
      /\ \A k \in DOMAIN calls : k # 1 => k \in DOMAIN r /\ r[k] = calls[k]
  <2> DEFINE a == Enter(Second(t))
  <2>1. a \in Calls
    BY <1>4
  <2> HIDE DEF a
  <2>2. LET q == <<a>> \o Tail(calls) IN
        /\ 1 \in DOMAIN q /\ q[1] = a
        /\ \A k \in DOMAIN calls : k # 1 => k \in DOMAIN q /\ q[k] = calls[k]
    <3>1. calls # <<>> /\ calls \in Seq(Calls)
      BY <1>1
    <3> HIDE DEF r
    <3> QED  BY <2>1, <3>1, ReplaceTop
  <2> QED  BY <2>2 DEF a
<1> HIDE DEF r
<1>6. Pending(calls[1]) = Slots(Second(t)) /\ Pending(r[1]) = Slots(Second(t))
  <2>1. calls[1].at = "back from first" /\ calls[1].sub = t
    BY <1>1, <1>2
  <2>2. r[1].at = "entry" /\ r[1].sub = Second(t)
    BY <1>5 DEF Enter
  <2> QED  BY <2>1, <2>2 DEF Pending
<1>7. ASSUME NEW slot \in Ids, NEW k \in DOMAIN calls, slot \in Pending(calls[k])
      PROVE  \E j \in DOMAIN calls' : slot \in Pending(calls'[j])
  <2>1. \E j \in DOMAIN r : slot \in Pending(r[j])
    BY <1>5, <1>6, <1>7
  <2> QED  BY <1>1, <2>1
<1> QED  BY <1>1, <1>7, SearchStep

\* A call compares the record of its node and turns to the side of the query.
LEMMA VisitStep ==
  ASSUME KInv, NoneLeftBehind, Visit, NEW t, t = Top.sub
  PROVE  NoneLeftBehind'
<1> DEFINE d == Distance(Middle(t), QueryLon, QueryLat)
           r == <<Enter(First(t)), Resume(t)>> \o Tail(calls)
<1>1. /\ calls # <<>> /\ calls \in Seq(Calls) /\ stage = "lookup" /\ todo = <<>>
      /\ Top.at = "entry" /\ t.size > 0
      /\ \/ Nearer(d) /\ closest' = d /\ best' = Middle(t)
         \/ ~Nearer(d) /\ UNCHANGED <<closest, best>>
      /\ calls' = r
      /\ UNCHANGED <<treeVars, loopVars>>
  BY DEF Visit, KInv, KTypeOK, CallsInTree, BuiltFirst
<1>2. Top = calls[1] /\ 1 \in DOMAIN calls
  BY <1>1, Pop DEF Top
<1>3. t \in nodes
  BY <1>1, <1>2, TopInTree
<1>4. /\ Middle(t) \in Ids
      /\ Slots(t) = Slots(First(t)) \cup {Point(t)} \cup Slots(Second(t))
  BY <1>1, <1>3, InTree
<1>5. Enter(First(t)) \in Calls /\ Resume(t) \in Calls
  BY <1>1, <1>3, InTree DEF Enter, Resume, Calls
<1>6. /\ 1 \in DOMAIN r /\ r[1] = Enter(First(t))
      /\ 2 \in DOMAIN r /\ r[2] = Resume(t)
      /\ \A k \in DOMAIN calls : k # 1 => k + 1 \in DOMAIN r /\ r[k + 1] = calls[k]
  <2> DEFINE a == Enter(First(t))
             b == Resume(t)
  <2>1. a \in Calls /\ b \in Calls
    BY <1>5
  <2> HIDE DEF a, b
  <2>2. LET q == <<a, b>> \o Tail(calls) IN
        /\ 1 \in DOMAIN q /\ q[1] = a
        /\ 2 \in DOMAIN q /\ q[2] = b
        /\ \A k \in DOMAIN calls : k # 1 => k + 1 \in DOMAIN q /\ q[k + 1] = calls[k]
    BY <1>1, <2>1, PushTwo
  <2> QED  BY <2>2 DEF a, b
<1> HIDE DEF r
<1>7. /\ Pending(calls[1]) = Slots(t)
      /\ Pending(r[1]) = Slots(First(t)) /\ Pending(r[2]) = Slots(Second(t))
  <2>1. calls[1].at = "entry" /\ calls[1].sub = t
    BY <1>1, <1>2
  <2>2. r[1].at = "entry" /\ r[1].sub = First(t)
    BY <1>6 DEF Enter
  <2>3. r[2].at = "back from first" /\ r[2].sub = t
    <3>1. Resume(t).at = "back from first" /\ Resume(t).sub = t
      BY DEF Resume
    <3> QED  BY <1>6, <3>1
  <2> QED  BY <2>1, <2>2, <2>3 DEF Pending
<1>8. d \in Nat
  BY <1>1, <1>4, Coordinates DEF KInv, QueryRead
<1>9. ~Near(Point(t))'
  <2>1. Near(Point(t))' <=> (closest' = Infinity \/ d < closest')
    <3>1. UNCHANGED <<rs, coords, lon, lat>>
      BY <1>1 DEF loopVars, treeVars
    <3>2. \A slot : Near(slot)' <=> \/ closest' = Infinity
                                    \/ Distance(coords[slot], QueryLon, QueryLat) < closest'
      BY <3>1 DEF Near, Nearer, Distance, QueryLon, QueryLat, Clamp
    <3>3. d = Distance(coords[Point(t)], QueryLon, QueryLat)
      BY DEF Middle
    <3> QED  BY <3>2, <3>3
  <2>2. closest \in Nat \cup {Infinity}
    BY DEF KInv, KTypeOK
  <2> HIDE DEF d
  <2>3. closest' # Infinity /\ ~(d < closest')
    BY <1>1, <1>8, <2>2, CoordAssumption DEF Nearer
  <2> QED  BY <2>1, <2>3
<1> HIDE DEF d
<1>10. ASSUME NEW slot \in Ids, NEW k \in DOMAIN calls, slot \in Pending(calls[k]), Near(slot)'
       PROVE  \E j \in DOMAIN calls' : slot \in Pending(calls'[j])
  <2>1. \E j \in DOMAIN r : slot \in Pending(r[j])
    <3>1. CASE k = 1
      <4>1. slot # Point(t)
        BY <1>9, <1>10
      <4> QED  BY <1>4, <1>6, <1>7, <1>10, <3>1, <4>1
    <3>2. CASE k # 1
      BY <1>6, <1>10, <3>2
    <3> QED  BY <3>1, <3>2
  <2> QED  BY <1>1, <2>1
<1>11. \/ UNCHANGED <<closest, best>>
       \/ \E x \in Ids :
            /\ Nearer(Distance(x, QueryLon, QueryLat))
            /\ closest' = Distance(x, QueryLon, QueryLat) /\ best' = x
  BY <1>1, <1>4 DEF d
<1> QED  BY <1>1, <1>10, <1>11, SearchStep

\* The call of lookup_kdtree enters the root, which has all slots.
LEMMA ReadLineStep ==
  ASSUME KInv, KReadLine
  PROVE  NoneLeftBehind'
<1>1. /\ calls' = <<Enter(Whole)>> /\ closest' = Infinity /\ best' = NoRecord
      /\ n' = n /\ n \in Nat
  BY CoordAssumption DEF KReadLine, ReadLine, KInv, KTypeOK
<1>2. 1 \in DOMAIN calls' /\ calls'[1] = Enter(Whole)
  BY <1>1
<1>3. Pending(Enter(Whole))' = Ids'
  <2>1. \A call : call.at = "entry" => Pending(call)' = Slots(call.sub)
    BY DEF Pending, Slots
  <2>2. Enter(Whole)' = Enter(Whole) /\ Enter(Whole).at = "entry" /\ Enter(Whole).sub = Whole
    BY <1>1 DEF Enter, Whole, Subtree
  <2>3. Slots(Whole) = Ids /\ Ids' = Ids
    BY <1>1 DEF Slots, Whole, Subtree, Ids
  <2> QED  BY <2>1, <2>2, <2>3
<1>4. \A slot \in Ids' : \E k \in DOMAIN calls' : slot \in Pending(calls[k])'
  <2>1. Pending(calls[1])' = Pending(Enter(Whole))'
    <3>1. Enter(Whole)' = Enter(Whole)
      BY <1>1 DEF Enter, Whole, Subtree
    <3> QED  BY <1>2, <3>1 DEF Pending, Second, Diff, Middle
  <2> QED  BY <1>2, <1>3, <2>1
<1> QED  BY <1>1, <1>4 DEF NoneLeftBehind

LEMMA NoneLeftBehindInit == KInit => NoneLeftBehind
BY DEF KInit, CInit, NoneLeftBehind

LEMMA NoneLeftBehindStep == KInv /\ NoneLeftBehind /\ [KNext]_kvars => NoneLeftBehind'
<1> SUFFICES ASSUME KInv, NoneLeftBehind, [KNext]_kvars
             PROVE  NoneLeftBehind'
  OBVIOUS
<1>1. CASE CreateNone \/ CreateLeaf \/ CreateNode
  <2>1. todo # <<>> /\ stage' = stage
    BY <1>1 DEF CreateNone, CreateLeaf, CreateNode, loopVars
  <2>2. stage = "start"
    BY <2>1 DEF KInv, BuiltFirst
  <2> QED  BY <2>1, <2>2 DEF NoneLeftBehind
<1>2. CASE TreeDone \/ Found \/ KEndOfQueries
  <2>1. stage' # "lookup"
    BY <1>2 DEF TreeDone, MkIndex, Found, Answer, KEndOfQueries, EndOfQueries
  <2> QED  BY <2>1 DEF NoneLeftBehind
<1>3. CASE KReadLine
  BY <1>3, ReadLineStep
<1>4. CASE VisitNone
  BY <1>4, VisitNoneStep
<1>5. CASE Visit
  BY <1>5, VisitStep
<1>6. CASE VisitSecond
  BY <1>6, VisitSecondStep
<1>7. CASE SkipSecond
  BY <1>7, SkipSecondStep
<1>8. CASE UNCHANGED kvars
  <2>1. UNCHANGED <<loopVars, treeVars, calls, closest, best>>
    BY <1>8 DEF kvars, searchVars
  <2>2. CASE stage = "lookup"
    <3>1. UNCHANGED <<rs, coords, lon, lat>>
      BY <2>1 DEF loopVars, treeVars
    <3> QED  BY <2>1, <2>2, <3>1, SearchStep
  <2>3. CASE stage # "lookup"
    BY <2>1, <2>3 DEF loopVars, NoneLeftBehind
  <2> QED  BY <2>2, <2>3
<1> QED
  BY <1>1, <1>2, <1>3, <1>4, <1>5, <1>6, <1>7, <1>8 DEF KNext

\* At any time of a search, whatever is nearer than the best so far is in a
\* subtree that a call on the stack has yet to look at
\* (coord_query_kdtree.c:150-208).
THEOREM NoneLeftBehindHolds == KSpec => []NoneLeftBehind
BY InvInit, InvStep, NoneLeftBehindInit, NoneLeftBehindStep, PTL DEF KSpec

-----------------------------------------------------------------------------
(* The answers                                                             *)

\* When the stack is empty the best so far is nearest: every record is in some
\* slot, and no slot is left.
LEMMA BestIsNearest ==
  ASSUME KInv, NoneLeftBehind, stage = "lookup", calls = <<>>
  PROVE  best \in NearestTo(QueryLon, QueryLat)
<1> DEFINE D(r) == Distance(r, QueryLon, QueryLat)
<1>1. /\ todo = <<>> /\ KTypeOK /\ AllThere
      /\ n \in Nat /\ coords \in [Ids -> Ids] /\ best \in Ids \cup {NoRecord}
  BY CoordAssumption DEF KInv, BuiltFirst, KTypeOK, TreeParts
<1>2. \A r \in Ids : D(r) \in Nat
  BY <1>1, Coordinates DEF KInv, QueryRead
<1>3. DOMAIN calls = {}
  OBVIOUS
<1>4. /\ best = NoRecord => closest = Infinity
      /\ best # NoRecord => closest = D(best)
      /\ \A slot \in Ids : ~Nearer(D(coords[slot]))
  BY <1>1, <1>3 DEF NoneLeftBehind
<1> HIDE DEF D
<1>5. \A r \in Ids : ~Nearer(D(r))
  BY <1>1, <1>4 DEF AllThere
<1>6. CASE n = 0
  <2>1. Ids = {}
    BY <1>6 DEF Ids
  <2> QED  BY <1>1, <1>6, <2>1 DEF NearestTo
<1>7. CASE n # 0
  <2>1. 0 \in Ids
    BY <1>1, <1>7 DEF Ids
  <2>2. closest # Infinity
    BY <1>5, <2>1 DEF Nearer
  <2>3. best \in Ids /\ closest = D(best)
    BY <1>1, <1>4, <2>2
  <2>4. \A r \in Ids : D(best) <= D(r)
    BY <1>2, <1>5, <2>3 DEF Nearer
  <2> QED  BY <1>7, <2>3, <2>4 DEF NearestTo, D
<1> QED  BY <1>6, <1>7

LEMMA KStepsAllowed == KInv /\ NoneLeftBehind /\ [KNext]_kvars => [CNext]_loopVars
<1> SUFFICES ASSUME KInv, NoneLeftBehind, [KNext]_kvars
             PROVE  CNext \/ UNCHANGED loopVars
  OBVIOUS
<1>1. CASE TreeDone
  BY <1>1 DEF TreeDone, CNext
<1>2. CASE KReadLine
  BY <1>2 DEF KReadLine, CNext
<1>3. CASE KEndOfQueries
  BY <1>3 DEF KEndOfQueries, CNext
<1>4. CASE Found
  <2>1. calls = <<>> /\ Answer(best) /\ stage = "lookup"
    BY <1>4 DEF Found, Answer
  <2>2. best \in NearestTo(QueryLon, QueryLat)
    BY <2>1, BestIsNearest
  <2> QED  BY <2>1, <2>2 DEF CNext, Lookup
<1>5. CASE CreateNone \/ CreateLeaf \/ CreateNode
  BY <1>5 DEF CreateNone, CreateLeaf, CreateNode
<1>6. CASE VisitNone \/ Visit \/ VisitSecond \/ SkipSecond
  BY <1>6 DEF VisitNone, Visit, VisitSecond, SkipSecond
<1>7. CASE UNCHANGED kvars
  BY <1>7 DEF kvars
<1> QED
  BY <1>1, <1>2, <1>3, <1>4, <1>5, <1>6, <1>7 DEF KNext

\* coord_query_kdtree implements the abstract CoordQuery: each of its answers is a
\* record nearest to the clamped query, and NULL only if there is no record
\* (coord_query_kdtree.c:211-225, coord_query.c:34-58).
THEOREM KdTreeImplementsCoordQuery == KSpec => CSpec
<1>1. KInit => CInit
  BY DEF KInit
<1> QED
  BY <1>1, InvInit, InvStep, NoneLeftBehindInit, NoneLeftBehindStep, KStepsAllowed, PTL
     DEF KSpec, CSpec

==============================================================================
