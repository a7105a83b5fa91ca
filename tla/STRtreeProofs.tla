----------------------------- MODULE STRtreeProofs ----------------------------
(***************************************************************************)
(* What the packing arithmetic of STRPacking guarantees for every number   *)
(* of nodes, the properties of STRtreeLazyBuild for every number of        *)
(* threads, items and calls and every legal node capacity, and those of    *)
(* STRtreeDistance for any two trees and any item distance that respects   *)
(* their bounds.                                                           *)
(*                                                                         *)
(* The inductive invariant of the build says, besides the types, who is    *)
(* inside build(), how far the builder is (its position is that of the     *)
(* loop in treeSize(), which the first part knows all about) and that      *)
(* nobody leaves build() with the tree unbuilt.                            *)
(*                                                                         *)
(* The invariant of a search says where each pair of items is: below a     *)
(* queued pair of nodes, or beaten.  A step that takes a pair off the      *)
(* queue puts all pairs of its children there (ExpansionCovers) or drops   *)
(* some that are no nearer than the best pair (BelowIsFarther).            *)
(***************************************************************************)
EXTENDS STRtreeLazyBuild, STRtreeDistance, Integers, WellFoundedInduction, TLAPS

------------------------------------------------------------------------------
(***************************************************************************)
(* The packing.                                                            *)
(***************************************************************************)

\* Every non-empty set of natural numbers has a least element.
LEMMA LeastElement ==
  ASSUME NEW T \in SUBSET Nat, T # {}
  PROVE  \E x \in T : \A y \in T : x <= y
<1> DEFINE Before == {ss \in Nat \X Nat : ss[1] < ss[2]}
<1>1. IsWellFoundedOn(Before, Nat)
  BY NatLessThanWellFounded, Zenon DEF OpToRel
<1>2. \E x \in T : \A y \in T : ~(<<y, x>> \in Before)
  <2> HIDE DEF Before
  <2> QED
    BY <1>1, WFMin, Zenon
<1>3. PICK x \in T : \A y \in T : ~(<<y, x>> \in Before)
  BY <1>2
<1>4. ASSUME NEW y \in T
      PROVE  x <= y
  <2>1. ~(y < x)
    BY <1>3
  <2> QED
    BY <2>1
<1>5. QED
  BY <1>4

\* Rounding up: a / b parts of size b hold a, and no smaller number of them does.
LEMMA CeilDivBounds ==
  ASSUME NEW a \in Nat, NEW b \in Nat, b > 0
  PROVE  /\ CeilDiv(a, b) \in Nat
         /\ a <= b * CeilDiv(a, b)
         /\ b * CeilDiv(a, b) < a + b
         /\ a > 0 => CeilDiv(a, b) > 0
         /\ CeilDiv(a, b) <= a
<1> DEFINE q == (a + b - 1) \div b
<1>1. /\ q \in Int
      /\ b * q <= a + b - 1
      /\ a + b - 1 < b * (q + 1)
  BY SMT
<1>2. b * (q + 1) = b * q + b
  BY <1>1
<1>3. q \in Nat
  BY <1>1, <1>2
<1>4. a > 0 => q > 0
  BY <1>1, <1>2, <1>3
<1>5. q <= a
  BY <1>1, <1>3, SMT
<1> QED
  BY <1>1, <1>2, <1>3, <1>4, <1>5 DEF CeilDiv

\* CeilSqrt(n) exists and is what its name says.
LEMMA CeilSqrtBounds ==
  ASSUME NEW n \in Nat
  PROVE  /\ CeilSqrt(n) \in 0 .. n
         /\ CeilSqrt(n) * CeilSqrt(n) >= n
<1> DEFINE T == {k \in 0 .. n : k * k >= n}
<1>1. T # {}
  <2>1. n * n >= n
    BY SMT
  <2> QED
    BY <2>1
<1>2. T \in SUBSET Nat
  OBVIOUS
<1>3. \E x \in T : \A y \in T : x <= y
  <2> HIDE DEF T
  <2> QED BY <1>1, <1>2, LeastElement
<1>4. PICK x \in T : \A y \in T : x <= y
  BY <1>3
<1>5. \A j \in 0 .. n : j * j >= n => x <= j
  BY <1>4
<1> QED
  BY <1>4, <1>5 DEF CeilSqrt

\* A level of n > 0 nodes is cut into at least one slice, and the slices are
\* large enough to hold the level.
LEMMA SlicesCoverLevel ==
  ASSUME NEW n \in Nat, n > 0
  PROVE  /\ sliceCount(n) \in Nat
         /\ sliceCount(n) > 0
         /\ sliceCapacity(n, sliceCount(n)) \in Nat
         /\ sliceCapacity(n, sliceCount(n)) > 0
         /\ n <= sliceCount(n) * sliceCapacity(n, sliceCount(n))
<1> DEFINE m == CeilDiv(n, nodeCapacity)
           k == CeilSqrt(m)
<1>1. m \in Nat /\ m > 0
  BY CeilDivBounds, NodeCapacityAssumption
<1>2. k \in Nat /\ k * k >= m
  BY <1>1, CeilSqrtBounds
<1>3. k > 0
  <2>1. k # 0
    <3> SUFFICES ASSUME k = 0 PROVE FALSE
      OBVIOUS
    <3>1. k * k = 0
      OBVIOUS
    <3> QED
      BY <3>1, <1>1, <1>2
  <2> QED
    BY <2>1, <1>2
<1>4. sliceCount(n) = k
  BY DEF sliceCount
<1> HIDE DEF k
<1> QED
  BY <1>2, <1>3, <1>4, CeilDivBounds DEF sliceCapacity

\* A level of at least two nodes has slices of at least two.
LEMMA SlicesHoldTwo ==
  ASSUME NEW n \in Nat, n >= 2
  PROVE  sliceCapacity(n, sliceCount(n)) >= 2
<1> DEFINE m == CeilDiv(n, nodeCapacity)
           k == CeilSqrt(m)
           c == CeilDiv(n, k)
<1>1. m \in Nat /\ nodeCapacity * m < n + nodeCapacity
  BY CeilDivBounds, NodeCapacityAssumption
<1>2. m < n
  <2> SUFFICES ASSUME m >= n PROVE FALSE
    BY <1>1
  <2> HIDE DEF m
  <2> DEFINE d == nodeCapacity - 1
  <2>1. d \in Nat /\ d >= 1 /\ nodeCapacity = d + 1
    BY NodeCapacityAssumption
  <2> HIDE DEF d
  <2>2. (d + 1) * m = d * m + m
    BY <1>1, <2>1
  <2>3. d * m < d + 1
    BY <1>1, <2>1, <2>2
  <2>4. d * m >= d * 2
    BY <1>1, <2>1, SMT
  <2> QED
    BY <1>1, <2>1, <2>3, <2>4
<1>3. k \in 0 .. m
  BY <1>1, CeilSqrtBounds
<1>4. sliceCount(n) = k /\ k > 0
  BY SlicesCoverLevel DEF sliceCount
<1>5. c \in Nat /\ n <= k * c
  BY <1>3, <1>4, <1>1, CeilDivBounds
<1>6. c # 0 /\ c # 1
  <2> HIDE DEF c, k
  <2> QED BY <1>1, <1>2, <1>3, <1>4, <1>5
<1> QED
  BY <1>4, <1>5, <1>6 DEF sliceCapacity

\* A slice gets a parent unless it is empty, never more parents than nodes, and
\* fewer when it holds two nodes or more.
LEMMA SliceShrinks ==
  ASSUME NEW n \in Nat
  PROVE  /\ ParentsOfSlice(n) \in Nat
         /\ ParentsOfSlice(n) <= n
         /\ n > 0 => ParentsOfSlice(n) > 0
         /\ n >= 2 => ParentsOfSlice(n) < n
<1> DEFINE q == CeilDiv(n, nodeCapacity)
<1>1. /\ q \in Nat
      /\ n > 0 => q > 0
      /\ q <= n
      /\ nodeCapacity * q < n + nodeCapacity
  BY CeilDivBounds, NodeCapacityAssumption
<1>2. ASSUME n >= 2 PROVE q < n
  <2> SUFFICES ASSUME q = n PROVE FALSE
    BY <1>1
  <2> HIDE DEF q
  <2> DEFINE d == nodeCapacity - 1
  <2>1. d \in Nat /\ d >= 1 /\ nodeCapacity = d + 1
    BY NodeCapacityAssumption
  <2> HIDE DEF d
  <2>2. (d + 1) * n = d * n + n
    BY <2>1
  <2>3. d * n < d + 1
    BY <1>1, <2>1, <2>2
  <2>4. d * n >= d * 2
    BY <1>2, <2>1, SMT
  <2> QED
    BY <2>1, <2>3, <2>4
<1> QED
  BY <1>1, <1>2 DEF ParentsOfSlice

-------------------------------------------------------------------------------
\* g[j] is what j applications of step make of start, for j up to N.
Iterates(g, start, step, N) == /\ g[0] = start
                               /\ \A j \in 1 .. N : g[j] = step[g[j - 1]]

\* A step function on S can be iterated any number of times.
LEMMA IterationExists ==
  ASSUME NEW S, NEW start \in S, NEW step \in [S -> S], NEW N \in Nat
  PROVE  \E g \in [0 .. N -> S] : Iterates(g, start, step, N)
<1> USE DEF Iterates
<1> DEFINE Runs(k) == \E g \in [0 .. k -> S] : Iterates(g, start, step, k)
           Stuck == {k \in Nat : ~Runs(k)}
<1>1. SUFFICES ASSUME Stuck # {} PROVE FALSE
  OBVIOUS
<1>2. PICK k \in Stuck : \A i \in Stuck : k <= i
  <2>1. Stuck \in SUBSET Nat
    OBVIOUS
  <2> HIDE DEF Stuck
  <2> QED
    BY <1>1, <2>1, LeastElement
<1>3. k # 0
  <2> DEFINE z == [j \in 0 .. 0 |-> start]
  <2>1. z \in [0 .. 0 -> S] /\ z[0] = start /\ 1 .. 0 = {}
    OBVIOUS
  <2>2. Runs(0)
    <3> HIDE DEF z
    <3> QED BY <2>1
  <2> HIDE DEF Runs
  <2> QED
    BY <2>2
<1>4. k \in Nat /\ k - 1 \in Nat /\ k - 1 \notin Stuck
  <2>1. k \in Nat
    OBVIOUS
  <2>2. k - 1 \in Nat /\ ~(k <= k - 1)
    BY <2>1, <1>3
  <2> HIDE DEF Stuck
  <2> QED BY <1>2, <2>1, <2>2
<1>5. Runs(k - 1)
  BY <1>4
<1>6. PICK g \in [0 .. (k - 1) -> S] :
        /\ g[0] = start
        /\ \A j \in 1 .. (k - 1) : g[j] = step[g[j - 1]]
  BY <1>5
<1> DEFINE h == [j \in 0 .. k |-> IF j = k THEN step[g[k - 1]] ELSE g[j]]
<1>7. h \in [0 .. k -> S]
  <2>1. k - 1 \in 0 .. (k - 1)
    BY <1>4
  <2>2. g[k - 1] \in S
    BY <1>6, <2>1
  <2>3. ASSUME NEW j \in 0 .. k, j # k
        PROVE  g[j] \in S
    <3>1. j \in 0 .. (k - 1)
      BY <1>4, <2>3
    <3> QED
      BY <1>6, <3>1
  <2> QED
    BY <2>2, <2>3
<1>8. h[0] = start
  BY <1>3, <1>4, <1>6
<1>9. ASSUME NEW j \in 1 .. k
      PROVE  h[j] = step[h[j - 1]]
  <2>1. CASE j = k
    BY <2>1, <1>4
  <2>2. CASE j # k
    BY <2>2, <1>4, <1>6
  <2> QED
    BY <2>1, <2>2
<1>10. Runs(k)
  <2> HIDE DEF h
  <2> QED
    BY <1>7, <1>8, <1>9
<1> QED
  BY <1>10, <1>2

\* The loop of treeSize() over the slices of a level of n nodes: SliceLoop(n)[j]
\* is what it has left and has added after j slices.
Loop == [left : Nat, added : Nat]

SliceStep(n, before) ==
  LET inSlice == Least(before.left, sliceCapacity(n, sliceCount(n)))
  IN  [left  |-> before.left - inSlice,
       added |-> before.added + ParentsOfSlice(inSlice)]

IsSliceLoop(h, n) ==
  h = [j \in 0 .. sliceCount(n) |->
         IF j = 0 THEN [left |-> n, added |-> 0] ELSE SliceStep(n, h[j - 1])]

SliceLoop(n) == CHOOSE h : IsSliceLoop(h, n)

\* A turn of the loop takes a slice and adds its parents.
LEMMA SliceStepType ==
  ASSUME NEW n \in Nat, n > 0, NEW before \in Loop
  PROVE  SliceStep(n, before) \in Loop
<1> DEFINE c == sliceCapacity(n, sliceCount(n))
           inSlice == Least(before.left, c)
<1>1. c \in Nat
  BY SlicesCoverLevel
<1>2. before.left \in Nat /\ before.added \in Nat
  BY DEF Loop
<1>3. inSlice \in Nat /\ inSlice <= before.left
  BY <1>1, <1>2 DEF Least
<1>4. ParentsOfSlice(inSlice) \in Nat
  <2> HIDE DEF inSlice
  <2> QED BY <1>3, SliceShrinks
<1>5. before.left - inSlice \in Nat
  BY <1>2, <1>3
<1>6. before.added + ParentsOfSlice(inSlice) \in Nat
  BY <1>2, <1>4
<1> QED
  BY <1>5, <1>6 DEF SliceStep, Loop

\* The loop of treeSize() ends with the value of ParentsAdded.
LEMMA SliceLoopExists ==
  ASSUME NEW n \in Nat, n > 0
  PROVE  /\ SliceLoop(n) \in [0 .. sliceCount(n) -> Loop]
         /\ SliceLoop(n)[0] = [left |-> n, added |-> 0]
         /\ \A j \in 1 .. sliceCount(n) :
              SliceLoop(n)[j] = SliceStep(n, SliceLoop(n)[j - 1])
         /\ ParentsAdded(n) = SliceLoop(n)[sliceCount(n)].added
<1> DEFINE step == [r \in Loop |-> SliceStep(n, r)]
           start == [left |-> n, added |-> 0]
           N == sliceCount(n)
<1>1. N \in Nat
  BY SlicesCoverLevel
<1>2. start \in Loop
  BY DEF Loop
<1>3. step \in [Loop -> Loop]
  BY SliceStepType
<1>4. PICK g \in [0 .. N -> Loop] :
        /\ g[0] = start
        /\ \A j \in 1 .. N : g[j] = step[g[j - 1]]
  <2> HIDE DEF step, start, N
  <2>1. \E g \in [0 .. N -> Loop] : Iterates(g, start, step, N)
    BY <1>1, <1>2, <1>3, IterationExists
  <2> QED BY <2>1 DEF Iterates
<1>5. IsSliceLoop(g, n)
  <2>1. ASSUME NEW j \in 0 .. N
        PROVE  g[j] = IF j = 0 THEN start ELSE SliceStep(n, g[j - 1])
    <3>1. CASE j = 0
      BY <3>1, <1>4
    <3>2. CASE j # 0
      <4>1. j \in 1 .. N /\ j - 1 \in 0 .. N
        BY <3>2, <1>1
      <4>2. g[j - 1] \in Loop
        BY <4>1, <1>4
      <4>3. g[j] = step[g[j - 1]]
        BY <4>1, <1>4
      <4> QED
        BY <3>2, <4>2, <4>3
    <3> QED
      BY <3>1, <3>2
  <2> QED
    BY <2>1, <1>4 DEF IsSliceLoop
<1>6. IsSliceLoop(SliceLoop(n), n)
  BY <1>5 DEF SliceLoop
<1>7. /\ SliceLoop(n)[0] = start
      /\ \A j \in 1 .. N : SliceLoop(n)[j] = SliceStep(n, SliceLoop(n)[j - 1])
      /\ DOMAIN SliceLoop(n) = 0 .. N
      /\ SliceLoop(n) = [j \in 0 .. N |-> SliceLoop(n)[j]]
  <2> DEFINE h == SliceLoop(n)
  <2>1. h = [j \in 0 .. N |-> IF j = 0 THEN start ELSE SliceStep(n, h[j - 1])]
    BY <1>6 DEF IsSliceLoop
  <2> HIDE DEF h, start
  <2>2. /\ h[0] = start
        /\ DOMAIN h = 0 .. N
        /\ h = [j \in 0 .. N |-> h[j]]
    BY <2>1, <1>1
  <2>3. \A j \in 1 .. N : h[j] = SliceStep(n, h[j - 1])
    BY <2>1, <1>1
  <2> QED
    BY <2>2, <2>3 DEF h
<1> DEFINE Typed(j) == SliceLoop(n)[j] \in Loop
           Bad == {j \in 0 .. N : ~Typed(j)}
<1>8. Bad = {}
  <2> SUFFICES ASSUME Bad # {} PROVE FALSE
    OBVIOUS
  <2>1. PICK j \in Bad : \A i \in Bad : j <= i
    <3>1. Bad \in SUBSET Nat
      BY <1>1
    <3> HIDE DEF Bad
    <3> QED
      BY <3>1, LeastElement
  <2>2. j # 0
    BY <1>7, <1>2
  <2>3. j - 1 \in 0 .. N /\ j \in 1 .. N /\ j - 1 \notin Bad
    BY <2>1, <2>2, <1>1
  <2>4. SliceLoop(n)[j - 1] \in Loop
    BY <2>3
  <2>5. SliceLoop(n)[j] \in Loop
    BY <2>3, <2>4, <1>7, SliceStepType
  <2> QED
    BY <2>1, <2>5
<1>9. SliceLoop(n) \in [0 .. N -> Loop]
  BY <1>7, <1>8
<1>10. ParentsAdded(n) = SliceLoop(n)[N].added
  BY Zenon DEF ParentsAdded, SliceLoop, IsSliceLoop, SliceStep
<1> QED
  BY <1>7, <1>9, <1>10

\* How far the loop is after j slices: full slices are taken until the level is
\* used up, and what has been added is less than what has been taken.
LoopAt(n, j) ==
  LET c == sliceCapacity(n, sliceCount(n))
      at == SliceLoop(n)[j]
  IN  /\ at.left = IF j * c <= n THEN n - j * c ELSE 0
      /\ at.added <= n - at.left
      /\ j > 0 => at.added > 0
      /\ j > 0 /\ n >= 2 => at.added < n - at.left
      /\ \A i \in 0 .. j : SliceLoop(n)[i].added <= at.added

\* One turn of the loop keeps these bounds.
LEMMA LoopTurn ==
  ASSUME NEW n \in Nat, n > 0, NEW j \in 1 .. sliceCount(n), LoopAt(n, j - 1)
  PROVE  LoopAt(n, j)
<1> DEFINE c == sliceCapacity(n, sliceCount(n))
           old == SliceLoop(n)[j - 1]
           new == SliceLoop(n)[j]
           inSlice == Least(old.left, c)
<1>1. sliceCount(n) \in Nat /\ c \in Nat /\ c > 0 /\ (n >= 2 => c >= 2)
  BY SlicesCoverLevel, SlicesHoldTwo
<1>2. j \in Nat /\ j > 0 /\ j - 1 \in Nat /\ j \in 0 .. sliceCount(n)
      /\ j - 1 \in 0 .. sliceCount(n)
  BY <1>1
<1>3. old \in Loop /\ new \in Loop /\ new = SliceStep(n, old)
  BY <1>2, SliceLoopExists
<1>4. /\ old.left \in Nat /\ old.added \in Nat
      /\ new.left \in Nat /\ new.added \in Nat
  BY <1>3 DEF Loop
<1>5. inSlice \in Nat
  BY <1>1, <1>4 DEF Least
<1>6. /\ new.left = old.left - inSlice
      /\ new.added = old.added + ParentsOfSlice(inSlice)
  BY <1>3 DEF SliceStep
<1>7. /\ ParentsOfSlice(inSlice) \in Nat
      /\ ParentsOfSlice(inSlice) <= inSlice
      /\ inSlice > 0 => ParentsOfSlice(inSlice) > 0
      /\ inSlice >= 2 => ParentsOfSlice(inSlice) < inSlice
  <2> HIDE DEF inSlice
  <2> QED BY <1>5, SliceShrinks
<1>8. /\ old.left = IF (j - 1) * c <= n THEN n - (j - 1) * c ELSE 0
      /\ old.added <= n - old.left
      /\ j - 1 > 0 => old.added > 0
      /\ j - 1 > 0 /\ n >= 2 => old.added < n - old.left
      /\ \A i \in 0 .. (j - 1) : SliceLoop(n)[i].added <= old.added
  BY DEF LoopAt
<1>9. (j - 1) * c = j * c - c /\ j * c \in Nat /\ (j - 1) * c \in Nat
  BY <1>1, <1>2
<1>10. j = 1 => old.left = n /\ (j - 1) * c = 0
  <2> SUFFICES ASSUME j = 1 PROVE old.left = n /\ (j - 1) * c = 0
    OBVIOUS
  <2>1. (j - 1) * c = 0
    BY <1>1
  <2> QED
    BY <2>1, <1>8
<1>11. new.left = IF j * c <= n THEN n - j * c ELSE 0
  <2> HIDE DEF c, old, new
  <2> QED BY <1>1, <1>4, <1>6, <1>8, <1>9 DEF Least
<1>12. j = 1 => inSlice > 0 /\ (n >= 2 => inSlice >= 2)
  <2> HIDE DEF c, old
  <2> QED BY <1>1, <1>10 DEF Least
<1>13. /\ new.added <= n - new.left
       /\ new.added > 0
       /\ n >= 2 => new.added < n - new.left
  <2> HIDE DEF c, old, new, inSlice
  <2>1. CASE j = 1
    BY <2>1, <1>4, <1>5, <1>6, <1>7, <1>8, <1>12
  <2>2. CASE j # 1
    BY <2>2, <1>2, <1>4, <1>5, <1>6, <1>7, <1>8
  <2> QED
    BY <2>1, <2>2
<1>14. ASSUME NEW i \in 0 .. j
       PROVE  SliceLoop(n)[i].added <= new.added
  <2>1. CASE i = j
    BY <2>1, <1>4
  <2>2. CASE i # j
    <3>1. i \in 0 .. (j - 1) /\ i \in 0 .. sliceCount(n)
      BY <2>2, <1>1, <1>2
    <3>2. SliceLoop(n)[i].added <= old.added
      BY <3>1, <1>8
    <3>3. SliceLoop(n)[i].added \in Nat
      BY <3>1, SliceLoopExists DEF Loop
    <3> HIDE DEF old, new, inSlice
    <3> QED
      BY <3>2, <3>3, <1>4, <1>6, <1>7
  <2> QED
    BY <2>1, <2>2
<1> QED
  BY <1>2, <1>11, <1>13, <1>14 DEF LoopAt

\* The bounds hold in every turn of the loop.
LEMMA LoopBounds ==
  ASSUME NEW n \in Nat, n > 0, NEW j \in 0 .. sliceCount(n)
  PROVE  LoopAt(n, j)
<1> DEFINE N == sliceCount(n)
           Bad == {i \in 0 .. N : ~LoopAt(n, i)}
<1>1. N \in Nat
  BY SlicesCoverLevel
<1>2. LoopAt(n, 0)
  <2>1. SliceLoop(n)[0] = [left |-> n, added |-> 0]
    BY SliceLoopExists
  <2>2. 0 * sliceCapacity(n, sliceCount(n)) = 0
    BY SlicesCoverLevel
  <2>3. \A i \in 0 .. 0 : i = 0
    OBVIOUS
  <2> QED
    BY <2>1, <2>2, <2>3 DEF LoopAt
<1>3. SUFFICES ASSUME Bad # {} PROVE FALSE
  BY <1>3
<1>4. PICK k \in Bad : \A i \in Bad : k <= i
  <2>1. Bad \in SUBSET Nat
    BY <1>1
  <2> HIDE DEF Bad
  <2> QED BY <1>3, <2>1, LeastElement
<1>5. k \in 0 .. N /\ k # 0
  BY <1>2
<1>6. k \in 1 .. N /\ k - 1 \in 0 .. N /\ ~(k <= k - 1)
  BY <1>1, <1>5
<1>7. LoopAt(n, k - 1)
  BY <1>4, <1>6
<1>8. LoopAt(n, k)
  BY <1>6, <1>7, LoopTurn
<1> QED
  BY <1>8

\* A level of two nodes or more gets at least one parent and fewer parents than
\* it has nodes: build() reaches a single root.
THEOREM LevelShrinks ==
  ASSUME NEW n \in Nat, n >= 2
  PROVE  /\ ParentsAdded(n) \in Nat
         /\ 0 < ParentsAdded(n)
         /\ ParentsAdded(n) < n
<1> DEFINE N == sliceCount(n)
           last == SliceLoop(n)[N]
<1>0. n > 0
  OBVIOUS
<1>1. N \in Nat /\ N > 0
  BY <1>0, SlicesCoverLevel
<1>2. last \in Loop
  <2>1. SliceLoop(n) \in [0 .. N -> Loop]
    BY <1>0, SliceLoopExists
  <2>2. N \in 0 .. N
    BY <1>1
  <2> QED
    BY <2>1, <2>2
<1>3. ParentsAdded(n) = last.added
  BY <1>0, SliceLoopExists
<1>4. last.added > 0 /\ last.added < n - last.left
  BY <1>1, LoopBounds DEF LoopAt
<1>5. last.left \in Nat /\ last.added \in Nat
  BY <1>2 DEF Loop
<1> HIDE DEF last
<1> QED
  BY <1>3, <1>4, <1>5

-------------------------------------------------------------------------------
\* g counts, for every number of nodes up to N, the nodes of the levels above.
IsAbove(g, N) ==
  g = [n \in 0 .. N |->
         IF n <= 1 THEN 0 ELSE ParentsAdded(n) + g[ParentsAdded(n)]]

\* The recursion in treeSize() has a solution, since levels shrink.
LEMMA AboveExists ==
  ASSUME NEW N \in Nat
  PROVE  \E g \in [0 .. N -> Nat] : IsAbove(g, N)
<1> DEFINE Bad == {k \in Nat : ~\E g \in [0 .. k -> Nat] : IsAbove(g, k)}
<1>1. SUFFICES ASSUME Bad # {} PROVE FALSE
  OBVIOUS
<1>2. PICK k \in Bad : \A i \in Bad : k <= i
  <2>1. Bad \in SUBSET Nat
    OBVIOUS
  <2> HIDE DEF Bad
  <2> QED BY <1>1, <2>1, LeastElement
<1>3. k \in Nat
  OBVIOUS
<1>4. k # 0
  <2> DEFINE z == [n \in 0 .. 0 |-> 0]
  <2>1. z \in [0 .. 0 -> Nat]
    OBVIOUS
  <2>2. \A n \in 0 .. 0 : n <= 1
    OBVIOUS
  <2>3. IsAbove(z, 0)
    BY <2>2 DEF IsAbove
  <2>4. 0 \notin Bad
    <3> HIDE DEF z
    <3> QED BY <2>1, <2>3
  <2> QED
    BY <2>4
<1>5. k - 1 \in Nat /\ k - 1 \notin Bad
  <2>1. k - 1 \in Nat /\ ~(k <= k - 1)
    BY <1>3, <1>4
  <2> HIDE DEF Bad
  <2> QED BY <1>2, <2>1
<1>6. PICK g \in [0 .. (k - 1) -> Nat] : IsAbove(g, k - 1)
  BY <1>5
<1> DEFINE top == IF k <= 1 THEN 0 ELSE ParentsAdded(k) + g[ParentsAdded(k)]
           h == [n \in 0 .. k |-> IF n = k THEN top ELSE g[n]]
<1>7. \A n \in 0 .. k : n >= 2 => /\ ParentsAdded(n) \in Nat
                                 /\ ParentsAdded(n) \in 0 .. (k - 1)
                                 /\ ParentsAdded(n) < n
  <2> SUFFICES ASSUME NEW n \in 0 .. k, n >= 2
               PROVE  /\ ParentsAdded(n) \in Nat
                      /\ ParentsAdded(n) \in 0 .. (k - 1)
                      /\ ParentsAdded(n) < n
    OBVIOUS
  <2>1. ParentsAdded(n) \in Nat /\ ParentsAdded(n) < n
    BY <1>3, LevelShrinks
  <2> QED
    BY <2>1, <1>3
<1>8. top \in Nat
  <2>1. CASE k <= 1
    BY <2>1
  <2>2. CASE ~(k <= 1)
    <3>1. ParentsAdded(k) \in 0 .. (k - 1) /\ ParentsAdded(k) \in Nat
      BY <2>2, <1>3, <1>7
    <3>2. g[ParentsAdded(k)] \in Nat
      BY <3>1
    <3> QED
      BY <2>2, <3>1, <3>2
  <2> QED
    BY <2>1, <2>2
<1>9. \A n \in 0 .. k : n # k => n \in 0 .. (k - 1)
  BY <1>3
<1>10. h \in [0 .. k -> Nat]
  <2> HIDE DEF top
  <2> QED BY <1>8, <1>9
<1>11. \A n \in 0 .. (k - 1) :
         g[n] = IF n <= 1 THEN 0 ELSE ParentsAdded(n) + g[ParentsAdded(n)]
  BY <1>6 DEF IsAbove
<1>12. ASSUME NEW n \in 0 .. k
       PROVE  h[n] = IF n <= 1 THEN 0 ELSE ParentsAdded(n) + h[ParentsAdded(n)]
  <2>1. CASE n <= 1
    <3>1. CASE n = k
      BY <2>1, <3>1
    <3>2. CASE n # k
      BY <2>1, <3>2, <1>9, <1>11
    <3> QED
      BY <3>1, <3>2
  <2>2. CASE ~(n <= 1)
    <3>1. n >= 2
      BY <2>2, <1>3
    <3>2. /\ ParentsAdded(n) \in 0 .. (k - 1)
          /\ ParentsAdded(n) \in 0 .. k
          /\ ParentsAdded(n) # k
      BY <3>1, <1>3, <1>7
    <3>3. h[ParentsAdded(n)] = g[ParentsAdded(n)]
      BY <3>2
    <3>4. CASE n = k
      BY <2>2, <3>3, <3>4
    <3>5. CASE n # k
      BY <2>2, <3>3, <3>5, <1>9, <1>11
    <3> QED
      BY <3>4, <3>5
  <2> QED
    BY <2>1, <2>2
<1>13. IsAbove(h, k)
  <2>1. h = [n \in 0 .. k |-> h[n]]
    OBVIOUS
  <2> HIDE DEF h
  <2> QED
    BY <2>1, <1>12 DEF IsAbove
<1>14. k \notin Bad
  <2> HIDE DEF h
  <2> QED BY <1>10, <1>13
<1> QED
  BY <1>14

\* The recursion has one solution, whatever number of nodes it is started for.
LEMMA AboveUnique ==
  ASSUME NEW N \in Nat, NEW g, IsAbove(g, N),
         NEW M \in Nat, NEW h, IsAbove(h, M),
         NEW k \in Nat, k <= N, k <= M
  PROVE  g[k] = h[k]
<1> DEFINE Bad == {i \in Nat : i <= N /\ i <= M /\ g[i] # h[i]}
<1>1. SUFFICES ASSUME Bad # {} PROVE FALSE
  OBVIOUS
<1>2. PICK i \in Bad : \A j \in Bad : i <= j
  <2>1. Bad \in SUBSET Nat
    OBVIOUS
  <2> HIDE DEF Bad
  <2> QED BY <1>1, <2>1, LeastElement
<1>3. i \in 0 .. N /\ i \in 0 .. M /\ i \in Nat /\ g[i] # h[i]
  OBVIOUS
<1>4. /\ g[i] = IF i <= 1 THEN 0 ELSE ParentsAdded(i) + g[ParentsAdded(i)]
      /\ h[i] = IF i <= 1 THEN 0 ELSE ParentsAdded(i) + h[ParentsAdded(i)]
  BY <1>3 DEF IsAbove
<1>5. i >= 2
  BY <1>3, <1>4
<1>6. ParentsAdded(i) \in Nat /\ ParentsAdded(i) < i
  BY <1>3, <1>5, LevelShrinks
<1>7. ParentsAdded(i) \notin Bad
  <2>1. ~(i <= ParentsAdded(i))
    BY <1>3, <1>6
  <2> HIDE DEF Bad
  <2> QED BY <1>2, <2>1
<1>8. g[ParentsAdded(i)] = h[ParentsAdded(i)]
  BY <1>3, <1>6, <1>7
<1> QED
  BY <1>3, <1>4, <1>5, <1>8

\* treeSize() adds up the levels: the nodes of a level and the size of a tree
\* over its parents.
THEOREM TreeSizeRecursion ==
  ASSUME NEW n \in Nat
  PROVE  /\ treeSize(n) \in Nat
         /\ n <= 1 => treeSize(n) = n
         /\ n >= 2 => treeSize(n) = n + treeSize(ParentsAdded(n))
<1>1. ASSUME NEW N \in Nat
      PROVE  \E g \in [0 .. N -> Nat] : IsAbove(g, N) /\ treeSize(N) = N + g[N]
  <2> DEFINE f == CHOOSE g : IsAbove(g, N)
  <2>1. PICK g \in [0 .. N -> Nat] : IsAbove(g, N)
    BY AboveExists
  <2>2. IsAbove(f, N)
    BY <2>1
  <2>3. treeSize(N) = N + f[N]
    BY Zenon DEF treeSize, IsAbove
  <2> HIDE DEF f
  <2>4. f[N] = g[N]
    BY <2>1, <2>2, AboveUnique
  <2> QED
    BY <2>1, <2>3, <2>4
<1>2. PICK g \in [0 .. n -> Nat] : IsAbove(g, n) /\ treeSize(n) = n + g[n]
  BY <1>1
<1>3. n \in 0 .. n
  OBVIOUS
<1>4. g[n] \in Nat
  BY <1>2, <1>3
<1>5. g[n] = IF n <= 1 THEN 0 ELSE ParentsAdded(n) + g[ParentsAdded(n)]
  BY <1>2, <1>3 DEF IsAbove
<1>6. ASSUME n >= 2
      PROVE  treeSize(n) = n + treeSize(ParentsAdded(n))
  <2>1. ParentsAdded(n) \in Nat /\ ParentsAdded(n) < n
    BY <1>6, LevelShrinks
  <2>2. PICK h \in [0 .. ParentsAdded(n) -> Nat] :
          /\ IsAbove(h, ParentsAdded(n))
          /\ treeSize(ParentsAdded(n)) = ParentsAdded(n) + h[ParentsAdded(n)]
    BY <1>1, <2>1
  <2>3. h[ParentsAdded(n)] = g[ParentsAdded(n)]
    BY <1>2, <2>1, <2>2, AboveUnique
  <2> QED
    BY <1>2, <1>5, <1>6, <2>1, <2>2, <2>3
<1> QED
  BY <1>2, <1>4, <1>5, <1>6

------------------------------------------------------------------------------
(***************************************************************************)
(* The build.                                                              *)
(***************************************************************************)

InBuild(t) == pc[t] \in {"enter", "level", "slice", "unlock"}

\* lock_ is held by the thread that is inside build(), and by no other.
LockHeldInBuild == \A t \in Thread : InBuild(t) <=> lock_ = t

\* Until a builder starts there are only the leaves.
OnlyLeaves == ~built /\ (\A t \in Thread : pc[t] \notin {"level", "slice"})
                => /\ size = inserted
                   /\ finalSize = 0
                   /\ sliceStart = 0

\* A builder works on an unbuilt, non-empty tree inside the reserved block.
Building == /\ ~built
            /\ numItems = inserted
            /\ inserted > 0
            /\ number > 0
            /\ finalSize = begin + treeSize(number)
            /\ finalSize <= capacity

\* Between two levels the nodes without a parent are the end of the vector.
AtLevel == \A t \in Thread : pc[t] = "level" => /\ Building
                                                /\ size = begin + number
                                                /\ sliceStart = begin

\* Within a level the builder is where the loop of treeSize() is.
AtSlice == \A t \in Thread : pc[t] = "slice" =>
             /\ Building
             /\ number > 1
             /\ slice <= sliceCount(number)
             /\ (begin + number) - sliceStart = SliceLoop(number)[slice].left
             /\ size = (begin + number) + SliceLoop(number)[slice].added

BuiltTree == built => /\ root = size
                      /\ numItems = inserted
                      /\ inserted > 0
                      /\ number = 1
                      /\ begin + 1 = size
                      /\ size = finalSize
                      /\ finalSize <= capacity

\* Nobody gets past build() while the tree is not built.
BuiltOrEmpty == \A t \in Thread :
                  pc[t] \in {"unlock", "read", "done"} => built \/ inserted = 0

\* Whoever leaves build() has synchronised with the builder.
Synchronised == \A t \in Thread :
                  /\ pc[t] = "enter" /\ built => synced[t]
                  /\ pc[t] = "unlock" => synced[t] \/ inserted = 0
                  /\ call[t] = "locked" =>
                       /\ pc[t] # "check"
                       /\ pc[t] = "read" => synced[t] \/ inserted = 0

\* The answers of ordered stores and of the calls that take the lock.
TrustedAnswers == \A t \in Thread :
                    StoresOrdered \/ call[t] = "locked" => SeesWholeTree(t)

IInv == /\ TypeOK
        /\ LockHeldInBuild
        /\ OnlyLeaves
        /\ AtLevel
        /\ AtSlice
        /\ BuiltTree
        /\ BuiltOrEmpty
        /\ Synchronised
        /\ TrustedAnswers

\* What a slice adds, seen from the builder and from the loop of treeSize().
LEMMA SliceAdvances ==
  ASSUME IInv, NEW t \in Thread, AddSlice(t)
  PROVE  LET inSlice == Least((begin + number) - sliceStart,
                              sliceCapacity(number, sliceCount(number)))
             at == SliceLoop(number)[slice + 1]
         IN  /\ slice + 1 \in 1 .. sliceCount(number)
             /\ inSlice \in Nat
             /\ ParentsOfSlice(inSlice) \in Nat
             /\ (begin + number) - (sliceStart + inSlice) = at.left
             /\ size + ParentsOfSlice(inSlice) = (begin + number) + at.added
             /\ at.added <= ParentsAdded(number)
             /\ ParentsAdded(number) \in Nat
             /\ at.added \in Nat
<1> DEFINE N == sliceCount(number)
           c == sliceCapacity(number, N)
           old == SliceLoop(number)[slice]
           at == SliceLoop(number)[slice + 1]
           last == SliceLoop(number)[N]
           inSlice == Least((begin + number) - sliceStart, c)
<1>1. /\ begin \in Nat /\ number \in Nat /\ slice \in Nat /\ sliceStart \in Nat
      /\ size \in Nat
  BY DEF IInv, TypeOK
<1>0. number > 1 /\ number > 0
  BY <1>1 DEF IInv, AtSlice, AddSlice, EndLevel, Goto
<1>2. /\ number > 1 /\ number > 0
      /\ (begin + number) - sliceStart = old.left
      /\ size = (begin + number) + old.added
      /\ slice < N
  <2>1. N \in Nat
    BY <1>1, <1>0, SlicesCoverLevel
  <2> QED
    BY <1>0, <1>1, <2>1 DEF IInv, AtSlice, AddSlice, Goto
<1>3. N \in Nat /\ c \in Nat
  BY <1>1, <1>2, SlicesCoverLevel
<1>4. slice + 1 \in 1 .. N /\ slice \in 0 .. N /\ slice + 1 \in 0 .. N
  BY <1>1, <1>2, <1>3
<1>5. old \in Loop /\ at \in Loop /\ last \in Loop
  <2>1. SliceLoop(number) \in [0 .. N -> Loop]
    BY <1>1, <1>2, SliceLoopExists
  <2>2. N \in 0 .. N
    BY <1>3
  <2> QED
    BY <2>1, <2>2, <1>4
<1>6. at = SliceStep(number, old)
  <2>1. \A j \in 1 .. N :
          SliceLoop(number)[j] = SliceStep(number, SliceLoop(number)[j - 1])
    BY <1>0, <1>1, SliceLoopExists
  <2>2. (slice + 1) - 1 = slice
    BY <1>1
  <2> QED
    BY <2>1, <2>2, <1>4
<1>7. /\ old.left \in Nat /\ old.added \in Nat /\ at.left \in Nat
      /\ at.added \in Nat /\ last.added \in Nat
  BY <1>5 DEF Loop
<1>8. inSlice \in Nat /\ inSlice = Least(old.left, c)
  BY <1>2, <1>3, <1>7 DEF Least
<1>9. at.left = old.left - inSlice /\ at.added = old.added + ParentsOfSlice(inSlice)
  BY <1>6, <1>8 DEF SliceStep
<1>10. ParentsOfSlice(inSlice) \in Nat
  <2> HIDE DEF inSlice
  <2> QED BY <1>8, SliceShrinks
<1>11. ParentsAdded(number) = last.added
  BY <1>1, <1>2, SliceLoopExists
<1>12. at.added <= last.added
  <2>1. LoopAt(number, N)
    BY <1>1, <1>2, <1>3, LoopBounds
  <2> QED
    BY <2>1, <1>4 DEF LoopAt
<1>13. (begin + number) - (sliceStart + inSlice) = at.left
  <2> HIDE DEF inSlice, old, at
  <2> QED BY <1>1, <1>2, <1>7, <1>8, <1>9
<1>14. size + ParentsOfSlice(inSlice) = (begin + number) + at.added
  <2> HIDE DEF inSlice, old, at
  <2> QED BY <1>1, <1>2, <1>7, <1>9, <1>10
<1> QED
  BY <1>4, <1>7, <1>8, <1>10, <1>11, <1>12, <1>13, <1>14

\* When the loop over the slices is done it has reached the end of the level.
LEMMA LevelComplete ==
  ASSUME IInv, NEW t \in Thread, EndLevel(t)
  PROVE  /\ sliceStart = begin + number
         /\ size = (begin + number) + ParentsAdded(number)
         /\ ParentsAdded(number) \in Nat
         /\ 0 < ParentsAdded(number)
         /\ ParentsAdded(number) < number
         /\ treeSize(number) = number + treeSize(ParentsAdded(number))
<1> DEFINE N == sliceCount(number)
           c == sliceCapacity(number, N)
           last == SliceLoop(number)[N]
<1>1. begin \in Nat /\ number \in Nat /\ sliceStart \in Nat
  BY DEF IInv, TypeOK
<1>0. number > 1 /\ number > 0
  BY <1>1 DEF IInv, AtSlice, AddSlice, EndLevel, Goto
<1>2. /\ number > 1 /\ number > 0
      /\ (begin + number) - sliceStart = last.left
      /\ size = (begin + number) + last.added
  BY <1>0 DEF IInv, AtSlice, EndLevel, Goto
<1>3. N \in Nat /\ c \in Nat /\ number <= N * c /\ N \in 0 .. N
  BY <1>1, <1>2, SlicesCoverLevel
<1>4. LoopAt(number, N)
  BY <1>1, <1>2, <1>3, LoopBounds
<1>5. last.left = 0
  <2>1. last.left = IF N * c <= number THEN number - N * c ELSE 0
    BY <1>4 DEF LoopAt
  <2>2. N * c \in Nat
    BY <1>3
  <2> QED
    BY <2>1, <2>2, <1>1, <1>3
<1>6. last.added = ParentsAdded(number)
  BY <1>1, <1>2, SliceLoopExists
<1>7. /\ ParentsAdded(number) \in Nat /\ 0 < ParentsAdded(number) /\ ParentsAdded(number) < number
      /\ treeSize(number) = number + treeSize(ParentsAdded(number))
  BY <1>1, <1>2, LevelShrinks, TreeSizeRecursion
<1>8. sliceStart = begin + number /\ size = begin + number + ParentsAdded(number)
  <2> HIDE DEF last
  <2> QED
    BY <1>1, <1>2, <1>5, <1>6
<1> QED
  BY <1>7, <1>8

\* The invariant holds before the first call.
LEMMA InitInvariant == Init => IInv
<1> SUFFICES ASSUME Init PROVE IInv
  OBVIOUS
<1> USE LazyBuildAssumption DEF Init, built
<1>1. TypeOK
  BY DEF TypeOK, Locations, Calls, Nothing
<1>2. LockHeldInBuild
  BY DEF LockHeldInBuild, InBuild
<1>3. OnlyLeaves /\ AtLevel /\ AtSlice /\ BuiltTree /\ BuiltOrEmpty
  BY DEF OnlyLeaves, AtLevel, AtSlice, BuiltTree, BuiltOrEmpty
<1>4. Synchronised /\ TrustedAnswers
  BY DEF Synchronised, TrustedAnswers, SeesWholeTree
<1> QED
  BY <1>1, <1>2, <1>3, <1>4 DEF IInv

\* Every step preserves it.
LEMMA StepInvariant == IInv /\ [Next]_vars => IInv'
<1> SUFFICES ASSUME IInv, [Next]_vars PROVE IInv'
  OBVIOUS
<1> USE LazyBuildAssumption DEF Goto, built, treeVars, buildVars
<1>a. /\ TypeOK /\ LockHeldInBuild /\ OnlyLeaves /\ AtLevel /\ AtSlice
      /\ BuiltTree /\ BuiltOrEmpty /\ Synchronised /\ TrustedAnswers
  BY DEF IInv
<1>1. ASSUME NEW t \in Thread, NEW c \in Calls, Invoke(t, c)
      PROVE  IInv'
  <2> USE <1>a, <1>1 DEF Invoke
  <2>1. TypeOK'
    BY DEF TypeOK, Locations, Calls
  <2>2. LockHeldInBuild'
    BY DEF TypeOK, LockHeldInBuild, InBuild
  <2>3. OnlyLeaves'
    BY DEF TypeOK, OnlyLeaves
  <2>4. AtLevel'
    BY DEF TypeOK, AtLevel, Building
  <2>5. AtSlice'
    BY DEF TypeOK, AtSlice, Building
  <2>6. BuiltTree'
    BY DEF TypeOK, BuiltTree
  <2>7. BuiltOrEmpty'
    BY DEF TypeOK, BuiltOrEmpty
  <2>8. Synchronised'
    BY DEF TypeOK, Synchronised
  <2>9. TrustedAnswers'
    BY DEF TypeOK, TrustedAnswers, SeesWholeTree
  <2> QED
    BY <2>1, <2>2, <2>3, <2>4, <2>5, <2>6, <2>7, <2>8, <2>9 DEF IInv
<1>2. ASSUME NEW t \in Thread, CheckBuilt(t)
      PROVE  IInv'
  <2> USE <1>a, <1>2 DEF CheckBuilt
  <2>1. TypeOK'
    BY DEF TypeOK, Locations, Calls
  <2>2. LockHeldInBuild'
    BY DEF TypeOK, LockHeldInBuild, InBuild
  <2>3. OnlyLeaves'
    BY DEF TypeOK, OnlyLeaves
  <2>4. AtLevel'
    BY DEF TypeOK, AtLevel, Building
  <2>5. AtSlice'
    BY DEF TypeOK, AtSlice, Building
  <2>6. BuiltTree'
    BY DEF TypeOK, BuiltTree
  <2>7. BuiltOrEmpty'
    BY DEF TypeOK, BuiltOrEmpty
  <2>8. Synchronised'
    BY DEF TypeOK, Synchronised
  <2>9. TrustedAnswers'
    BY DEF TypeOK, TrustedAnswers, SeesWholeTree
  <2> QED
    BY <2>1, <2>2, <2>3, <2>4, <2>5, <2>6, <2>7, <2>8, <2>9 DEF IInv
<1>3. ASSUME NEW t \in Thread, Lock(t)
      PROVE  IInv'
  <2> USE <1>a, <1>3 DEF Lock
  <2>1. TypeOK'
    BY DEF TypeOK, Locations, Calls
  <2>2. LockHeldInBuild'
    BY DEF TypeOK, LockHeldInBuild, InBuild
  <2>3. OnlyLeaves'
    BY DEF TypeOK, OnlyLeaves
  <2>4. AtLevel'
    BY DEF TypeOK, AtLevel, Building
  <2>5. AtSlice'
    BY DEF TypeOK, AtSlice, Building
  <2>6. BuiltTree'
    BY DEF TypeOK, BuiltTree
  <2>7. BuiltOrEmpty'
    BY DEF TypeOK, BuiltOrEmpty
  <2>8. Synchronised'
    BY DEF TypeOK, Synchronised
  <2>9. TrustedAnswers'
    BY DEF TypeOK, TrustedAnswers, SeesWholeTree
  <2> QED
    BY <2>1, <2>2, <2>3, <2>4, <2>5, <2>6, <2>7, <2>8, <2>9 DEF IInv
<1>4. ASSUME NEW t \in Thread, NothingToBuild(t)
      PROVE  IInv'
  <2> USE <1>a, <1>4 DEF NothingToBuild
  <2>a. \A u \in Thread : u # t => pc[u] \notin {"enter", "level", "slice", "unlock"}
    BY DEF TypeOK, LockHeldInBuild, InBuild
  <2>b. pc'[t] = "unlock" /\ \A u \in Thread : u # t => pc'[u] = pc[u]
    BY DEF TypeOK
  <2>c. built \/ inserted = 0
    BY <2>a DEF OnlyLeaves
  <2>1. TypeOK'
    BY DEF TypeOK, Locations, Calls
  <2>2. LockHeldInBuild'
    BY DEF TypeOK, LockHeldInBuild, InBuild
  <2>3. OnlyLeaves'
    BY DEF TypeOK, OnlyLeaves
  <2>4. AtLevel'
    BY DEF TypeOK, AtLevel, Building
  <2>5. AtSlice'
    BY DEF TypeOK, AtSlice, Building
  <2>6. BuiltTree'
    BY DEF TypeOK, BuiltTree
  <2>7. BuiltOrEmpty'
    BY <2>b, <2>c DEF BuiltOrEmpty
  <2>8. Synchronised'
    BY <2>a, <2>b, <2>c DEF Synchronised, TypeOK
  <2>9. TrustedAnswers'
    BY DEF TypeOK, TrustedAnswers, SeesWholeTree
  <2> QED
    BY <2>1, <2>2, <2>3, <2>4, <2>5, <2>6, <2>7, <2>8, <2>9 DEF IInv
<1>5. ASSUME NEW t \in Thread, StartBuild(t)
      PROVE  IInv'
  <2> USE <1>a, <1>5 DEF StartBuild
  <2>a. \A u \in Thread : u # t => pc[u] \notin {"enter", "level", "slice", "unlock"}
    BY DEF TypeOK, LockHeldInBuild, InBuild
  <2>b. pc'[t] = "level" /\ \A u \in Thread : u # t => pc'[u] = pc[u]
    BY DEF TypeOK
  <2>c. size = inserted /\ finalSize = 0 /\ sliceStart = 0
    BY <2>a DEF OnlyLeaves
  <2>d. treeSize(size) \in Nat
    BY TreeSizeRecursion DEF TypeOK
  <2>e. /\ capacity' \in Nat
        /\ size <= capacity'
        /\ treeSize(size) <= capacity'
    BY <2>d DEF TypeOK
  <2>1. TypeOK'
    BY <2>c, <2>d, <2>e DEF TypeOK, Locations, Calls
  <2>2. LockHeldInBuild'
    BY DEF TypeOK, LockHeldInBuild, InBuild
  <2>3. OnlyLeaves'
    BY DEF TypeOK, OnlyLeaves
  <2>4. AtLevel'
    <3>1. Building'
      BY <2>c, <2>d, <2>e DEF Building, TypeOK
    <3> QED
      BY <2>a, <2>b, <2>c, <3>1 DEF AtLevel, TypeOK
  <2>5. AtSlice'
    BY <2>a, <2>b DEF AtSlice
  <2>6. BuiltTree'
    BY DEF TypeOK, BuiltTree
  <2>7. BuiltOrEmpty'
    BY DEF TypeOK, BuiltOrEmpty
  <2>8. Synchronised'
    BY DEF TypeOK, Synchronised
  <2>9. TrustedAnswers'
    BY DEF TypeOK, TrustedAnswers, SeesWholeTree
  <2> QED
    BY <2>1, <2>2, <2>3, <2>4, <2>5, <2>6, <2>7, <2>8, <2>9 DEF IInv
<1>6. ASSUME NEW t \in Thread, StartLevel(t)
      PROVE  IInv'
  <2> USE <1>a, <1>6 DEF StartLevel
  <2>a. \A u \in Thread : u # t => pc[u] \notin {"enter", "level", "slice", "unlock"}
    BY DEF TypeOK, LockHeldInBuild, InBuild
  <2>b. pc'[t] = "slice" /\ \A u \in Thread : u # t => pc'[u] = pc[u]
    BY DEF TypeOK
  <2>c. Building /\ size = begin + number
    BY DEF AtLevel
  <2>d. Building'
    BY <2>c DEF Building
  <2>e. /\ sliceCount(number) \in Nat
        /\ SliceLoop(number)[0] = [left |-> number, added |-> 0]
    <3>1. number \in Nat /\ number > 0
      BY DEF TypeOK
    <3> QED
      BY <3>1, SlicesCoverLevel, SliceLoopExists
  <2>1. TypeOK'
    BY DEF TypeOK, Locations, Calls
  <2>2. LockHeldInBuild'
    BY DEF TypeOK, LockHeldInBuild, InBuild
  <2>3. OnlyLeaves'
    BY DEF TypeOK, OnlyLeaves
  <2>4. AtLevel'
    BY DEF TypeOK, AtLevel, Building
  <2>5. AtSlice'
    <3>1. /\ number' > 1
          /\ slice' <= sliceCount(number')
          /\ (begin' + number') - sliceStart' = SliceLoop(number')[slice'].left
          /\ size' = (begin' + number') + SliceLoop(number')[slice'].added
      BY <2>c, <2>e DEF TypeOK
    <3> QED
      BY <2>a, <2>b, <2>d, <3>1 DEF AtSlice
  <2>6. BuiltTree'
    BY DEF TypeOK, BuiltTree
  <2>7. BuiltOrEmpty'
    BY DEF TypeOK, BuiltOrEmpty
  <2>8. Synchronised'
    BY DEF TypeOK, Synchronised
  <2>9. TrustedAnswers'
    BY DEF TypeOK, TrustedAnswers, SeesWholeTree
  <2> QED
    BY <2>1, <2>2, <2>3, <2>4, <2>5, <2>6, <2>7, <2>8, <2>9 DEF IInv
<1>7. ASSUME NEW t \in Thread, AddSlice(t)
      PROVE  IInv'
  <2> USE <1>a, <1>7 DEF AddSlice
  <2>a. \A u \in Thread : u # t => pc[u] \notin {"enter", "level", "slice", "unlock"}
    BY DEF TypeOK, LockHeldInBuild, InBuild
  <2>b. pc'[t] = "slice" /\ \A u \in Thread : u # t => pc'[u] = pc[u]
    BY DEF TypeOK
  <2> DEFINE inSlice == Least((begin + number) - sliceStart,
                              sliceCapacity(number, sliceCount(number)))
             at == SliceLoop(number)[slice + 1]
  <2>c. /\ slice + 1 \in 1 .. sliceCount(number)
        /\ inSlice \in Nat
        /\ ParentsOfSlice(inSlice) \in Nat
        /\ (begin + number) - (sliceStart + inSlice) = at.left
        /\ size + ParentsOfSlice(inSlice) = (begin + number) + at.added
    BY SliceAdvances DEF IInv
  <2>d. /\ size' = size + ParentsOfSlice(inSlice)
        /\ capacity' = IF size' > capacity THEN size' ELSE capacity
        /\ sliceStart' = sliceStart + inSlice
        /\ slice' = slice + 1
    OBVIOUS
  <2>e. Building /\ number > 1
    BY DEF AtSlice
  <2> HIDE DEF inSlice, at
  <2>f. /\ size' \in Nat /\ size <= size'
        /\ capacity' \in Nat /\ size' <= capacity' /\ capacity <= capacity'
        /\ sliceStart' \in Nat /\ slice' \in Nat
    BY <2>c, <2>d DEF TypeOK
  <2>g. Building'
    <3>1. begin \in Nat /\ number \in Nat /\ treeSize(number) \in Nat
      BY TreeSizeRecursion DEF TypeOK
    <3> QED
      BY <2>e, <2>f, <3>1 DEF Building, TypeOK
  <2>1. TypeOK'
    <3>1. root' \in 0 .. size'
      BY <2>f DEF TypeOK
    <3>2. UNCHANGED << lock_, inserted, numItems, finalSize, begin, number, call,
                       synced, seen, calls >>
      OBVIOUS
    <3>3. pc' \in [Thread -> Locations]
      BY DEF TypeOK, Locations
    <3> QED
      BY <2>f, <3>1, <3>2, <3>3 DEF TypeOK
  <2>2. LockHeldInBuild'
    BY DEF TypeOK, LockHeldInBuild, InBuild
  <2>3. OnlyLeaves'
    BY DEF TypeOK, OnlyLeaves
  <2>4. AtLevel'
    BY <2>a, <2>b DEF AtLevel
  <2>5. AtSlice'
    <3>1. /\ slice' <= sliceCount(number')
          /\ (begin' + number') - sliceStart' = SliceLoop(number')[slice'].left
          /\ size' = (begin' + number') + SliceLoop(number')[slice'].added
      BY <2>c, <2>d DEF at
    <3> QED
      BY <2>a, <2>b, <2>e, <2>g, <3>1 DEF AtSlice
  <2>6. BuiltTree'
    BY <2>g DEF BuiltTree, Building
  <2>7. BuiltOrEmpty'
    BY DEF TypeOK, BuiltOrEmpty
  <2>8. Synchronised'
    BY DEF TypeOK, Synchronised
  <2>9. TrustedAnswers'
    BY DEF TypeOK, TrustedAnswers, SeesWholeTree
  <2> QED
    BY <2>1, <2>2, <2>3, <2>4, <2>5, <2>6, <2>7, <2>8, <2>9 DEF IInv
<1>8. ASSUME NEW t \in Thread, EndLevel(t)
      PROVE  IInv'
  <2> USE <1>a, <1>8 DEF EndLevel
  <2>a. \A u \in Thread : u # t => pc[u] \notin {"enter", "level", "slice", "unlock"}
    BY DEF TypeOK, LockHeldInBuild, InBuild
  <2>b. pc'[t] = "level" /\ \A u \in Thread : u # t => pc'[u] = pc[u]
    BY DEF TypeOK
  <2> DEFINE p == ParentsAdded(number)
  <2>c. /\ sliceStart = begin + number
        /\ size = (begin + number) + p
        /\ p \in Nat /\ 0 < p /\ p < number
        /\ treeSize(number) = number + treeSize(p)
        /\ treeSize(p) \in Nat
    BY LevelComplete, TreeSizeRecursion DEF IInv
  <2>d. Building
    BY DEF AtSlice
  <2> HIDE DEF p
  <2>e. begin' = begin + number /\ number' = p
    BY <2>c DEF TypeOK
  <2>f. Building'
    BY <2>c, <2>d, <2>e DEF Building, TypeOK
  <2>1. TypeOK'
    <3>1. begin' \in Nat /\ number' \in Nat
      BY <2>c, <2>e DEF TypeOK
    <3>2. UNCHANGED << lock_, inserted, root, size, capacity, numItems, finalSize,
                       slice, sliceStart, call, synced, seen, calls >>
      OBVIOUS
    <3>3. pc' \in [Thread -> Locations]
      BY DEF TypeOK, Locations
    <3> QED
      BY <3>1, <3>2, <3>3 DEF TypeOK
  <2>2. LockHeldInBuild'
    BY DEF TypeOK, LockHeldInBuild, InBuild
  <2>3. OnlyLeaves'
    BY DEF TypeOK, OnlyLeaves
  <2>4. AtLevel'
    <3>1. size' = begin' + number' /\ sliceStart' = begin'
      BY <2>c, <2>e DEF TypeOK
    <3> QED
      BY <2>a, <2>b, <2>f, <3>1 DEF AtLevel
  <2>5. AtSlice'
    BY <2>a, <2>b DEF AtSlice
  <2>6. BuiltTree'
    BY <2>f DEF BuiltTree, Building
  <2>7. BuiltOrEmpty'
    BY DEF TypeOK, BuiltOrEmpty
  <2>8. Synchronised'
    BY DEF TypeOK, Synchronised
  <2>9. TrustedAnswers'
    BY DEF TypeOK, TrustedAnswers, SeesWholeTree
  <2> QED
    BY <2>1, <2>2, <2>3, <2>4, <2>5, <2>6, <2>7, <2>8, <2>9 DEF IInv
<1>9. ASSUME NEW t \in Thread, Publish(t)
      PROVE  IInv'
  <2> USE <1>a, <1>9 DEF Publish
  <2>a. \A u \in Thread : u # t => pc[u] \notin {"enter", "level", "slice", "unlock"}
    BY DEF TypeOK, LockHeldInBuild, InBuild
  <2>b. pc'[t] = "unlock" /\ \A u \in Thread : u # t => pc'[u] = pc[u]
    BY DEF TypeOK
  <2>c. Building /\ size = begin + number
    BY DEF AtLevel
  <2>d. number = 1 /\ treeSize(number) = 1
    <3>1. number = 1
      BY <2>c DEF Building, TypeOK
    <3> QED
      BY <3>1, TreeSizeRecursion
  <2>e. /\ begin + 1 = size /\ size = finalSize /\ finalSize <= capacity
        /\ size > 0 /\ numItems = inserted /\ inserted > 0 /\ ~built
    BY <2>c, <2>d DEF Building, TypeOK
  <2>f. built'
    BY <2>e
  <2>1. TypeOK'
    BY <2>e DEF TypeOK, Locations, Calls
  <2>2. LockHeldInBuild'
    BY DEF TypeOK, LockHeldInBuild, InBuild
  <2>3. OnlyLeaves'
    BY <2>f DEF OnlyLeaves
  <2>4. AtLevel'
    BY <2>a, <2>b DEF AtLevel
  <2>5. AtSlice'
    BY <2>a, <2>b DEF AtSlice
  <2>6. BuiltTree'
    BY <2>d, <2>e DEF BuiltTree
  <2>7. BuiltOrEmpty'
    BY <2>f DEF BuiltOrEmpty
  <2>8. Synchronised'
    <3>1. synced'[t] = TRUE /\ \A u \in Thread : u # t => synced'[u] = synced[u]
      BY DEF TypeOK
    <3> QED
      BY <2>a, <2>b, <2>e, <3>1 DEF Synchronised
  <2>9. TrustedAnswers'
    <3>1. \A u \in Thread : pc'[u] # "done"
      BY <2>b, <2>e DEF BuiltOrEmpty
    <3> QED
      BY <3>1 DEF TrustedAnswers, SeesWholeTree
  <2> QED
    BY <2>1, <2>2, <2>3, <2>4, <2>5, <2>6, <2>7, <2>8, <2>9 DEF IInv
<1>10. ASSUME NEW t \in Thread, Unlock(t)
       PROVE  IInv'
  <2> USE <1>a, <1>10 DEF Unlock
  <2>1. TypeOK'
    BY DEF TypeOK, Locations, Calls
  <2>2. LockHeldInBuild'
    BY DEF TypeOK, LockHeldInBuild, InBuild
  <2>3. OnlyLeaves'
    BY DEF TypeOK, OnlyLeaves
  <2>4. AtLevel'
    BY DEF TypeOK, AtLevel, Building
  <2>5. AtSlice'
    BY DEF TypeOK, AtSlice, Building
  <2>6. BuiltTree'
    BY DEF TypeOK, BuiltTree
  <2>7. BuiltOrEmpty'
    BY DEF TypeOK, BuiltOrEmpty
  <2>8. Synchronised'
    BY DEF TypeOK, Synchronised
  <2>9. TrustedAnswers'
    BY DEF TypeOK, TrustedAnswers, SeesWholeTree
  <2> QED
    BY <2>1, <2>2, <2>3, <2>4, <2>5, <2>6, <2>7, <2>8, <2>9 DEF IInv
<1>11. ASSUME NEW t \in Thread, ReadTree(t)
       PROVE  IInv'
  <2> USE <1>a, <1>11 DEF ReadTree
  <2>b. pc'[t] = "done" /\ \A u \in Thread : u # t => pc'[u] = pc[u]
    BY DEF TypeOK
  <2>c. PICK v \in Views(t) : seen' = [seen EXCEPT ![t] = v]
    OBVIOUS
  <2>d. v \in [items : Nat, nodes : Nat]
    <3>1. numItems \in Nat /\ root \in Nat /\ inserted \in Nat
      BY DEF TypeOK
    <3> QED
      BY <2>c, <3>1 DEF Views
  <2>e. /\ seen'[t] = v
        /\ \A u \in Thread : u # t => seen'[u] = seen[u]
    BY <2>c DEF TypeOK
  <2>f. StoresOrdered \/ call[t] = "locked" =>
          v.items = inserted /\ v.nodes = root /\ (inserted > 0 => built)
    <3> SUFFICES ASSUME StoresOrdered \/ call[t] = "locked"
                 PROVE  v.items = inserted /\ v.nodes = root /\ (inserted > 0 => built)
      OBVIOUS
    <3>1. built \/ inserted = 0
      BY DEF BuiltOrEmpty
    <3>2. numItems = inserted
      BY <3>1 DEF BuiltTree, TypeOK
    <3>3. StoresOrdered \/ synced[t] \/ ~built
      BY DEF Synchronised, BuiltTree
    <3>4. v = [items |-> numItems, nodes |-> root]
      BY <2>c, <3>3 DEF Views
    <3> QED
      BY <3>1, <3>2, <3>4 DEF TypeOK
  <2>1. TypeOK'
    <3>1. seen' \in [Thread -> [items : Nat, nodes : Nat]]
      BY <2>c, <2>d DEF TypeOK
    <3>2. pc' \in [Thread -> Locations]
      BY DEF TypeOK, Locations
    <3>3. UNCHANGED << lock_, inserted, root, size, capacity, numItems, finalSize,
                       begin, number, slice, sliceStart, call, synced, calls >>
      OBVIOUS
    <3> QED
      BY <3>1, <3>2, <3>3 DEF TypeOK
  <2>2. LockHeldInBuild'
    BY DEF TypeOK, LockHeldInBuild, InBuild
  <2>3. OnlyLeaves'
    BY DEF TypeOK, OnlyLeaves
  <2>4. AtLevel'
    BY DEF TypeOK, AtLevel, Building
  <2>5. AtSlice'
    BY DEF TypeOK, AtSlice, Building
  <2>6. BuiltTree'
    BY DEF TypeOK, BuiltTree
  <2>7. BuiltOrEmpty'
    BY DEF TypeOK, BuiltOrEmpty
  <2>8. Synchronised'
    BY DEF TypeOK, Synchronised
  <2>9. TrustedAnswers'
    BY <2>b, <2>e, <2>f DEF TrustedAnswers, SeesWholeTree
  <2> QED
    BY <2>1, <2>2, <2>3, <2>4, <2>5, <2>6, <2>7, <2>8, <2>9 DEF IInv
<1>12. ASSUME NEW t \in Thread, Return(t)
       PROVE  IInv'
  <2> USE <1>a, <1>12 DEF Return
  <2>1. TypeOK'
    <3>1. Nothing \in [items : Nat, nodes : Nat]
      BY DEF Nothing
    <3>2. seen' \in [Thread -> [items : Nat, nodes : Nat]]
      BY <3>1 DEF TypeOK
    <3>3. pc' \in [Thread -> Locations]
      BY DEF TypeOK, Locations
    <3>4. UNCHANGED << lock_, inserted, root, size, capacity, numItems, finalSize,
                       begin, number, slice, sliceStart, call, synced, calls >>
      OBVIOUS
    <3> QED
      BY <3>2, <3>3, <3>4 DEF TypeOK
  <2>2. LockHeldInBuild'
    BY DEF TypeOK, LockHeldInBuild, InBuild
  <2>3. OnlyLeaves'
    BY DEF TypeOK, OnlyLeaves
  <2>4. AtLevel'
    BY DEF TypeOK, AtLevel, Building
  <2>5. AtSlice'
    BY DEF TypeOK, AtSlice, Building
  <2>6. BuiltTree'
    BY DEF TypeOK, BuiltTree
  <2>7. BuiltOrEmpty'
    BY DEF TypeOK, BuiltOrEmpty
  <2>8. Synchronised'
    BY DEF TypeOK, Synchronised
  <2>9. TrustedAnswers'
    BY DEF TypeOK, TrustedAnswers, SeesWholeTree
  <2> QED
    BY <2>1, <2>2, <2>3, <2>4, <2>5, <2>6, <2>7, <2>8, <2>9 DEF IInv
<1>13. CASE UNCHANGED vars
  BY <1>a, <1>13 DEF vars, threadVars, IInv, InBuild, Building, SeesWholeTree,
     TypeOK, LockHeldInBuild, OnlyLeaves, AtLevel, AtSlice, BuiltTree, BuiltOrEmpty, Synchronised, TrustedAnswers
<1> QED
  BY <1>1, <1>2, <1>3, <1>4, <1>5, <1>6, <1>7, <1>8, <1>9, <1>10, <1>11, <1>12, <1>13 DEF Next, Step

-------------------------------------------------------------------------------
\* The inductive invariant holds in every reachable state.
THEOREM Invariance == Spec => []IInv
<1> QED
  BY InitInvariant, StepInvariant, PTL DEF Spec

\* The members of the tree and the locals of build() keep their types, and
\* positions stay inside nodes.
THEOREM TypeCorrect == Spec => []TypeOK
<1>1. IInv => TypeOK
  BY DEF IInv
<1> QED
  BY <1>1, Invariance, PTL

\* query(), queryPairs() and every other call answer from the whole tree, however
\* the threads interleave, as long as the builder's stores are seen in order.
THEOREM EveryAnswerIsWhole ==
  ASSUME StoresOrdered = TRUE
  PROVE  Spec => []AnswersFromWholeTree
<1>1. IInv => AnswersFromWholeTree
  BY DEF IInv, TrustedAnswers, AnswersFromWholeTree
<1> QED
  BY <1>1, Invariance, PTL

\* getRoot(), items(), remove() and nearestNeighbour(), which always take the
\* lock, do so whether or not the stores are seen in order.
THEOREM LockedAnswersAreWhole == Spec => []LockedAnswersFromWholeTree
<1>1. IInv => LockedAnswersFromWholeTree
  BY DEF IInv, TrustedAnswers, LockedAnswersFromWholeTree
<1> QED
  BY <1>1, Invariance, PTL

\* build() gives every node but the root a parent.
THEOREM NothingIsOrphaned == Spec => []NoOrphans
<1>1. IInv => NoOrphans
  BY DEF IInv, AtLevel, BuiltTree, NoOrphans
<1> QED
  BY <1>1, Invariance, PTL

\* A tree is at least as large as its leaves.
LEMMA TreeHoldsItsLeaves ==
  ASSUME NEW n \in Nat
  PROVE  treeSize(n) \in Nat /\ n <= treeSize(n)
<1>1. CASE n <= 1
  BY <1>1, TreeSizeRecursion
<1>2. CASE n >= 2
  <2>1. ParentsAdded(n) \in Nat
    BY <1>2, LevelShrinks
  <2>2. treeSize(ParentsAdded(n)) \in Nat
    BY <2>1, TreeSizeRecursion
  <2> QED
    BY <1>2, <2>2, TreeSizeRecursion
<1> QED
  BY <1>1, <1>2

\* The block that build() reserves is never outgrown and is full at the end.
THEOREM ReservedBlockSuffices == Spec => []ReserveSuffices
<1>1. IInv => ReserveSuffices
  <2> SUFFICES ASSUME IInv, finalSize > 0
               PROVE  /\ size <= finalSize
                      /\ finalSize <= capacity
                      /\ built => size = finalSize
    BY DEF ReserveSuffices
  <2>1. begin \in Nat /\ number \in Nat /\ size \in Nat
    BY DEF IInv, TypeOK
  <2>2. CASE built
    BY <2>1, <2>2 DEF IInv, BuiltTree
  <2>3. CASE ~built
    <3>1. PICK t \in Thread : pc[t] \in {"level", "slice"}
      BY <2>3 DEF IInv, OnlyLeaves
    <3>2. CASE pc[t] = "level"
      <4>1. /\ size = begin + number
            /\ finalSize = begin + treeSize(number)
            /\ finalSize <= capacity
        BY <3>2 DEF IInv, AtLevel, Building
      <4>2. treeSize(number) \in Nat /\ number <= treeSize(number)
        BY <2>1, TreeHoldsItsLeaves
      <4> QED
        BY <2>1, <2>3, <4>1, <4>2
    <3>3. CASE pc[t] = "slice"
      <4> DEFINE N == sliceCount(number)
                 at == SliceLoop(number)[slice]
                 p == ParentsAdded(number)
      <4>1. /\ number > 1
            /\ slice <= N
            /\ size = (begin + number) + at.added
            /\ finalSize = begin + treeSize(number)
            /\ finalSize <= capacity
        BY <3>3 DEF IInv, AtSlice, Building
      <4>2. N \in Nat /\ slice \in 0 .. N /\ N \in 0 .. N
        <5>1. slice \in Nat
          BY DEF IInv, TypeOK
        <5>2. N \in Nat
          BY <2>1, <4>1, SlicesCoverLevel
        <5> QED
          BY <4>1, <5>1, <5>2
      <4>3. at.added <= p
        <5>1. number > 0
          BY <2>1, <4>1
        <5>2. LoopAt(number, N)
          BY <2>1, <4>2, <5>1, LoopBounds
        <5>3. p = SliceLoop(number)[N].added
          BY <2>1, <5>1, SliceLoopExists
        <5> QED
          BY <4>2, <5>2, <5>3 DEF LoopAt
      <4>4. at.added \in Nat
        <5>1. SliceLoop(number) \in [0 .. N -> Loop]
          <6>1. number > 0
            BY <2>1, <4>1
          <6> QED
            BY <2>1, <6>1, SliceLoopExists
        <5>2. at \in Loop
          BY <4>2, <5>1
        <5> QED
          BY <5>2 DEF Loop
      <4>5. p \in Nat /\ treeSize(number) = number + treeSize(p)
        BY <2>1, <4>1, LevelShrinks, TreeSizeRecursion
      <4>6. treeSize(p) \in Nat /\ p <= treeSize(p)
        BY <4>5, TreeHoldsItsLeaves
      <4> HIDE DEF at, p
      <4> QED
        BY <2>1, <2>3, <4>1, <4>3, <4>4, <4>5, <4>6
    <3> QED
      BY <3>1, <3>2, <3>3
  <2> QED
    BY <2>2, <2>3
<1> QED
  BY <1>1, Invariance, PTL

\* No call, whatever it meets in build(), changes a tree that is built.
THEOREM BuiltTreeStays == Spec => BuiltTreeIsFrozen
<1>1. IInv /\ [Next]_vars => [built => UNCHANGED treeVars]_vars
  <2> SUFFICES ASSUME IInv, Next, built
               PROVE  UNCHANGED treeVars
    BY DEF vars
  <2> USE DEF treeVars, Goto, IInv, AtLevel, AtSlice, Building
  <2>1. PICK t \in Thread : Step(t) \/ \E c \in Calls : Invoke(t, c)
    BY DEF Next
  <2>2. CASE CheckBuilt(t) \/ Lock(t) \/ NothingToBuild(t) \/ StartLevel(t)
             \/ Unlock(t) \/ ReadTree(t) \/ Return(t)
    BY <2>2 DEF CheckBuilt, Lock, NothingToBuild, StartLevel, Unlock, ReadTree, Return
  <2>3. CASE \E c \in Calls : Invoke(t, c)
    BY <2>3 DEF Invoke
  <2>4. CASE StartBuild(t)
    BY <2>4 DEF StartBuild
  <2>5. CASE AddSlice(t)
    BY <2>5 DEF AddSlice
  <2>6. CASE EndLevel(t)
    BY <2>6 DEF EndLevel
  <2>7. CASE Publish(t)
    BY <2>7 DEF Publish
  <2> QED
    BY <2>1, <2>2, <2>3, <2>4, <2>5, <2>6, <2>7 DEF Step
<1> QED
  BY <1>1, Invariance, PTL DEF Spec, BuiltTreeIsFrozen

\* Each round of build() leaves fewer nodes without a parent.
THEOREM RoundsShrink == Spec => LevelsShrink
<1>1. IInv /\ [Next]_vars => [begin' > begin => number' < number]_vars
  <2> SUFFICES ASSUME IInv, Next, begin' > begin
               PROVE  number' < number
    BY DEF vars
  <2>0. begin \in Nat /\ number \in Nat
    BY DEF IInv, TypeOK
  <2> USE DEF buildVars, Goto
  <2>1. PICK t \in Thread : Step(t) \/ \E c \in Calls : Invoke(t, c)
    BY DEF Next
  <2>2. CASE CheckBuilt(t) \/ Lock(t) \/ NothingToBuild(t) \/ StartLevel(t)
             \/ AddSlice(t) \/ Publish(t) \/ Unlock(t) \/ ReadTree(t) \/ Return(t)
    BY <2>0, <2>2 DEF CheckBuilt, Lock, NothingToBuild, StartLevel, AddSlice,
                      Publish, Unlock, ReadTree, Return
  <2>3. CASE \E c \in Calls : Invoke(t, c)
    BY <2>0, <2>3 DEF Invoke
  <2>4. CASE StartBuild(t)
    BY <2>0, <2>4 DEF StartBuild
  <2>5. CASE EndLevel(t)
    <3> DEFINE p == ParentsAdded(number)
    <3>1. size = (begin + number) + p /\ p \in Nat /\ p < number
      BY <2>5, LevelComplete
    <3>2. number' = size - (begin + number)
      BY <2>5 DEF EndLevel
    <3> HIDE DEF p
    <3> QED
      BY <2>0, <3>1, <3>2
  <2> QED
    BY <2>1, <2>2, <2>3, <2>4, <2>5 DEF Step
<1> QED
  BY <1>1, Invariance, PTL DEF Spec, LevelsShrink

\* What a thread reads is kept until its call returns, and no longer.
NothingReadYet == \A t \in Thread : pc[t] # "done" => seen[t] = Nothing

LEMMA NothingIsReadEarly == Spec => []NothingReadYet
<1>1. Init => NothingReadYet
  BY DEF Init, NothingReadYet
<1>2. IInv /\ NothingReadYet /\ [Next]_vars => NothingReadYet'
  <2> SUFFICES ASSUME IInv, NothingReadYet, [Next]_vars
               PROVE  NothingReadYet'
    OBVIOUS
  <2>0. /\ pc \in [Thread -> Locations]
        /\ seen \in [Thread -> [items : Nat, nodes : Nat]]
    BY DEF IInv, TypeOK
  <2>1. ASSUME NEW t \in Thread, ReadTree(t) PROVE NothingReadYet'
    BY <2>0, <2>1 DEF ReadTree, Goto, NothingReadYet
  <2>2. ASSUME NEW t \in Thread, Return(t) PROVE NothingReadYet'
    BY <2>0, <2>2 DEF Return, Goto, NothingReadYet
  <2>3. ASSUME NEW t \in Thread, NEW from \in Locations \ {"done"},
               NEW to \in Locations \ {"done"}, Goto(t, from, to), seen' = seen
        PROVE  NothingReadYet'
    BY <2>0, <2>3 DEF Goto, NothingReadYet
  <2>4. ASSUME NEW t \in Thread, NEW c \in Calls, Invoke(t, c) PROVE NothingReadYet'
    <3>1. \E to \in Locations \ {"done"} : Goto(t, "idle", to)
      BY <2>4 DEF Invoke, Locations
    <3>2. "idle" \in Locations \ {"done"} /\ seen' = seen
      BY <2>4 DEF Invoke, Locations
    <3> QED BY <2>3, <3>1, <3>2
  <2>5. ASSUME NEW t \in Thread,
               CheckBuilt(t) \/ Lock(t) \/ NothingToBuild(t) \/ StartBuild(t)
                 \/ StartLevel(t) \/ AddSlice(t) \/ EndLevel(t) \/ Publish(t)
                 \/ Unlock(t)
        PROVE  NothingReadYet'
    <3>1. seen' = seen
      BY <2>5 DEF CheckBuilt, Lock, NothingToBuild, StartBuild, StartLevel,
                  AddSlice, EndLevel, Publish, Unlock
    <3>2. \E from, to \in Locations \ {"done"} : Goto(t, from, to)
      BY <2>5 DEF CheckBuilt, Lock, NothingToBuild, StartBuild, StartLevel,
                  AddSlice, EndLevel, Publish, Unlock, Locations
    <3> QED
      BY <2>3, <3>1, <3>2
  <2>6. CASE UNCHANGED vars
    BY <2>6 DEF vars, threadVars, NothingReadYet
  <2> QED
    BY <2>1, <2>2, <2>4, <2>5, <2>6 DEF Next, Step
<1> QED
  BY <1>1, <1>2, Invariance, PTL DEF Spec

\* Seen from its callers the tree is an index that was filled from the start,
\* under any order of the stores: a call that is vouched for is an abstract call,
\* the reading of the tree its answer, and all that happens in build() invisible.
THEOREM LazyBuildImplementsIndex == Spec => LazyBuildIsInvisible
<1> DEFINE st == [t \in Thread |-> Told(t).status]
           an == [t \in Thread |-> Told(t).answer]
<1>1. Init => Promise!Init
  <2> SUFFICES ASSUME Init PROVE Promise!Init
    OBVIOUS
  <2>1. inserted \in Nat
    BY LazyBuildAssumption DEF Init
  <2>2. st = [t \in Thread |-> "idle"]
    BY DEF Init, Told
  <2>3. an = [t \in Thread |-> 0]
    BY DEF Init, Nothing, Told
  <2> QED
    BY <2>1, <2>2, <2>3 DEF Promise!Init
<1>2. IInv /\ IInv' /\ NothingReadYet /\ NothingReadYet' /\ [Next]_vars
        => [Promise!Next]_(Promise!vars)
  <2> SUFFICES ASSUME IInv, IInv', NothingReadYet, NothingReadYet', [Next]_vars
               PROVE  Promise!Next \/ UNCHANGED Promise!vars
    BY DEF Promise!vars
  <2>0. /\ pc \in [Thread -> Locations]
        /\ call \in [Thread -> Calls]
        /\ synced \in [Thread -> BOOLEAN]
        /\ seen \in [Thread -> [items : Nat, nodes : Nat]]
    BY DEF IInv, TypeOK
  \* A step of t changes at most what is told of t.
  <2>3. ASSUME NEW t \in Thread, \A u \in Thread \ {t} : Told(u)' = Told(u),
               inserted' = inserted, Told(t)' = Told(t)
        PROVE  UNCHANGED Promise!vars
    <3>1. \A u \in Thread : Told(u)' = Told(u)
      BY <2>3
    <3>2. st' = st /\ an' = an
      BY <3>1
    <3> QED BY <2>3, <3>2 DEF Promise!vars
  <2>4. ASSUME NEW t \in Thread, NEW to, NEW a,
               \A u \in Thread \ {t} : Told(u)' = Told(u),
               Told(t)'.status = to, Told(t)'.answer = a
        PROVE  st' = [st EXCEPT ![t] = to] /\ an' = [an EXCEPT ![t] = a]
    BY <2>4
  <2>5. ASSUME NEW t \in Thread, inserted' = inserted,
               \A u \in Thread \ {t} : Told(u)' = Told(u),
               Told(t).status = "idle",
               Told(t)'.status = "busy", Told(t)'.answer = Told(t).answer
        PROVE  Promise!Call(t)
    <3>1. st' = [st EXCEPT ![t] = "busy"] /\ an' = [an EXCEPT ![t] = Told(t).answer]
      BY <2>4, <2>5
    <3>2. an' = an
      BY <3>1
    <3>3. st[t] = "idle"
      BY <2>5
    <3> QED BY <2>5, <3>1, <3>2, <3>3 DEF Promise!Call
  <2>6. ASSUME NEW t \in Thread, NEW c \in Calls, Invoke(t, c)
        PROVE  Promise!Call(t) \/ UNCHANGED Promise!vars
    <3>1. /\ pc[t] = "idle" /\ pc'[t] \in {"check", "lock"}
          /\ seen' = seen /\ synced' = synced /\ inserted' = inserted
          /\ \A u \in Thread \ {t} : pc'[u] = pc[u] /\ call'[u] = call[u]
      BY <2>0, <2>6 DEF Invoke, Goto
    <3>2. \A u \in Thread \ {t} : Told(u)' = Told(u)
      BY <3>1 DEF Told, Vouched
    <3>3. seen[t].items = 0
      BY <3>1 DEF NothingReadYet, Nothing
    <3>4. Told(t) = [status |-> "idle", answer |-> 0]
      BY <3>1, <3>3 DEF Told
    <3>5. Told(t)' = [status |-> IF Vouched(t)' THEN "busy" ELSE "idle", answer |-> 0]
      BY <3>1, <3>3 DEF Told
    <3>6. CASE Vouched(t)'
      BY <2>5, <3>1, <3>2, <3>4, <3>5, <3>6
    <3>7. CASE ~Vouched(t)'
      BY <2>3, <3>1, <3>2, <3>4, <3>5, <3>7
    <3> QED BY <3>6, <3>7
  <2>7. ASSUME NEW t \in Thread, ReadTree(t)
        PROVE  Promise!Answer(t) \/ UNCHANGED Promise!vars
    <3>1. /\ pc[t] = "read" /\ pc'[t] = "done"
          /\ call' = call /\ synced' = synced /\ inserted' = inserted
          /\ \A u \in Thread \ {t} : pc'[u] = pc[u] /\ seen'[u] = seen[u]
      BY <2>0, <2>7 DEF ReadTree, Goto
    <3>2. \A u \in Thread \ {t} : Told(u)' = Told(u)
      BY <3>1 DEF Told, Vouched
    <3>3. CASE ~Vouched(t)
      BY <2>3, <3>1, <3>2, <3>3 DEF Told, Vouched
    <3>4. CASE Vouched(t)
      <4>1. seen'[t].items = inserted
        <5>1. CASE StoresOrdered \/ call[t] = "locked"
          BY <3>1, <5>1 DEF IInv, TrustedAnswers, SeesWholeTree
        <5>2. CASE synced[t]
          <6>1. numItems = inserted
            BY <3>1 DEF IInv, BuiltTree, BuiltOrEmpty, TypeOK
          <6>2. seen'[t].items = numItems
            BY <2>0, <2>7, <5>2 DEF ReadTree, Views
          <6> QED BY <6>1, <6>2
        <5> QED BY <3>4, <5>1, <5>2 DEF Vouched
      <4>2. Told(t).status = "busy" /\ Told(t)' = [status |-> "done", answer |-> inserted]
        BY <3>1, <3>4, <4>1 DEF Told, Vouched
      <4>3. st[t] = "busy"
        BY <4>2
      <4>4. Told(t)'.status = "done" /\ Told(t)'.answer = inserted
        BY <4>2
      <4>5. st' = [st EXCEPT ![t] = "done"] /\ an' = [an EXCEPT ![t] = inserted]
        BY <2>4, <3>2, <4>4
      <4> QED BY <3>1, <4>3, <4>5 DEF Promise!Answer
    <3> QED BY <3>3, <3>4
  <2>8. ASSUME NEW t \in Thread, Return(t)
        PROVE  Promise!Return(t) \/ UNCHANGED Promise!vars
    <3>1. /\ pc[t] = "done" /\ pc'[t] = "idle" /\ seen'[t].items = 0
          /\ call' = call /\ synced' = synced /\ inserted' = inserted
          /\ \A u \in Thread \ {t} : pc'[u] = pc[u] /\ seen'[u] = seen[u]
      BY <2>0, <2>8 DEF Return, Goto, Nothing
    <3>2. \A u \in Thread \ {t} : Told(u)' = Told(u)
      BY <3>1 DEF Told, Vouched
    <3>3. CASE ~Vouched(t)
      BY <2>3, <3>1, <3>2, <3>3 DEF Told, Vouched
    <3>4. CASE Vouched(t)
      <4>1. Told(t).status = "done" /\ Told(t)' = [status |-> "idle", answer |-> 0]
        BY <3>1, <3>4 DEF Told, Vouched
      <4>2. st[t] = "done"
        BY <4>1
      <4>3. Told(t)'.status = "idle" /\ Told(t)'.answer = 0
        BY <4>1
      <4>4. st' = [st EXCEPT ![t] = "idle"] /\ an' = [an EXCEPT ![t] = 0]
        BY <2>4, <3>2, <4>3
      <4> QED BY <3>1, <4>2, <4>4 DEF Promise!Return
    <3> QED BY <3>3, <3>4
  \* Inside a call: nothing is seen, but that taking the lock, or setting root,
  \* vouches for a call that was not.
  <2>9. ASSUME NEW t \in Thread, seen' = seen, call' = call, inserted' = inserted,
               \A u \in Thread \ {t} : pc'[u] = pc[u] /\ synced'[u] = synced[u],
               pc[t] \notin {"idle", "done"}, pc'[t] \notin {"idle", "done"},
               synced[t] => synced'[t]
        PROVE  Promise!Call(t) \/ UNCHANGED Promise!vars
    <3>1. \A u \in Thread \ {t} : Told(u)' = Told(u)
      BY <2>9 DEF Told, Vouched
    <3>2. seen[t].items = 0
      BY <2>9 DEF NothingReadYet, Nothing
    <3>3. /\ Told(t) = [status |-> IF Vouched(t) THEN "busy" ELSE "idle", answer |-> 0]
          /\ Told(t)' = [status |-> IF Vouched(t)' THEN "busy" ELSE "idle", answer |-> 0]
      BY <2>9, <3>2 DEF Told
    <3>4. Vouched(t) => Vouched(t)'
      BY <2>9 DEF Vouched
    <3>5. CASE Vouched(t) = Vouched(t)'
      BY <2>3, <2>9, <3>1, <3>3, <3>5
    <3>6. CASE ~Vouched(t) /\ Vouched(t)'
      BY <2>5, <2>9, <3>1, <3>3, <3>6
    <3>7. Vouched(t) \in BOOLEAN /\ Vouched(t)' \in BOOLEAN
      BY <2>0 DEF Vouched
    <3> QED BY <3>4, <3>5, <3>6, <3>7
  <2>10. ASSUME NEW t \in Thread,
                CheckBuilt(t) \/ Lock(t) \/ NothingToBuild(t) \/ StartBuild(t)
                  \/ StartLevel(t) \/ AddSlice(t) \/ EndLevel(t) \/ Publish(t)
                  \/ Unlock(t)
         PROVE  Promise!Call(t) \/ UNCHANGED Promise!vars
    <3>1. seen' = seen /\ call' = call /\ inserted' = inserted
      BY <2>10 DEF CheckBuilt, Lock, NothingToBuild, StartBuild, StartLevel,
                   AddSlice, EndLevel, Publish, Unlock
    <3>2. \E from, to \in Locations \ {"idle", "done"} : Goto(t, from, to)
      BY <2>10 DEF CheckBuilt, Lock, NothingToBuild, StartBuild, StartLevel,
                   AddSlice, EndLevel, Publish, Unlock, Locations
    <3>3. /\ pc[t] \notin {"idle", "done"} /\ pc'[t] \notin {"idle", "done"}
          /\ \A u \in Thread \ {t} : pc'[u] = pc[u]
      BY <2>0, <3>2 DEF Goto
    <3>4. /\ \A u \in Thread \ {t} : synced'[u] = synced[u]
          /\ synced[t] => synced'[t]
      BY <2>0, <2>10 DEF CheckBuilt, Lock, NothingToBuild, StartBuild, StartLevel,
                         AddSlice, EndLevel, Publish, Unlock
    <3> QED BY <2>9, <3>1, <3>3, <3>4
  <2>11. CASE UNCHANGED vars
    <3>1. \A u \in Thread : Told(u)' = Told(u)
      BY <2>11 DEF vars, threadVars, Told, Vouched
    <3>2. st' = st /\ an' = an
      BY <3>1
    <3> QED BY <2>11, <3>2 DEF Promise!vars, vars
  <2> QED
    BY <2>6, <2>7, <2>8, <2>10, <2>11 DEF Next, Step, Promise!Next
<1> QED
  BY <1>1, <1>2, Invariance, NothingIsReadEarly, PTL
     DEF Spec, Promise!Spec, LazyBuildIsInvisible

------------------------------------------------------------------------------
(***************************************************************************)
(* The searches.                                                           *)
(***************************************************************************)

\* The pairs a branch is replaced by have the same items below them.
LEMMA ExpansionCovers ==
  ASSUME NEW p \in Pair, ~isLeaves(p)
  PROVE  /\ Expansion(p) \subseteq Pair
         /\ \A l \in Below(p) : \E q \in Expansion(p) : l \in Below(q)
<1> USE TreeAssumption
<1>0. p[1] \in Node /\ p[2] \in Node /\ p = << p[1], p[2] >>
  BY DEF Pair
<1>1. CASE ExpandsFirst(p)
  <2>1. p[1] \in Node \ Leaf
    BY <1>0, <1>1 DEF ExpandsFirst
  <2>2. Expansion(p) = {<< c, p[2] >> : c \in Children[p[1]]}
    BY <1>1 DEF Expansion
  <2>3. Expansion(p) \subseteq Pair
    BY <1>0, <2>2 DEF Pair
  <2>4. ASSUME NEW l \in Below(p)
        PROVE  \E q \in Expansion(p) : l \in Below(q)
    <3>1. l[1] \in Items[p[1]] /\ l[2] \in Items[p[2]] /\ l = << l[1], l[2] >>
      BY DEF Below
    <3>2. PICK c \in Children[p[1]] : l[1] \in Items[c]
      BY <2>1, <3>1
    <3>3. << c, p[2] >> \in Expansion(p)
      BY <2>2
    <3>4. l \in Below(<< c, p[2] >>)
      BY <3>1, <3>2 DEF Below
    <3> QED BY <3>3, <3>4
  <2> QED BY <2>3, <2>4
<1>2. CASE ~ExpandsFirst(p)
  <2>1. p[2] \in Node \ Leaf
    BY <1>0, <1>2 DEF ExpandsFirst, isLeaves
  <2>2. Expansion(p) = {<< p[1], c >> : c \in Children[p[2]]}
    BY <1>2 DEF Expansion
  <2>3. Expansion(p) \subseteq Pair
    BY <1>0, <2>2 DEF Pair
  <2>4. ASSUME NEW l \in Below(p)
        PROVE  \E q \in Expansion(p) : l \in Below(q)
    <3>1. l[1] \in Items[p[1]] /\ l[2] \in Items[p[2]] /\ l = << l[1], l[2] >>
      BY DEF Below
    <3>2. PICK c \in Children[p[2]] : l[2] \in Items[c]
      BY <2>1, <3>1
    <3>3. << p[1], c >> \in Expansion(p)
      BY <2>2
    <3>4. l \in Below(<< p[1], c >>)
      BY <3>1, <3>2 DEF Below
    <3> QED BY <3>3, <3>4
  <2> QED BY <2>3, <2>4
<1> QED BY <1>1, <1>2

\* The only pair of items below a pair of leaves is that pair.
LEMMA BelowLeaves ==
  ASSUME NEW p \in Pair, isLeaves(p)
  PROVE  Below(p) = {p} /\ p \in Leaf \X Leaf
<1>1. p[1] \in Leaf /\ p[2] \in Leaf /\ p = << p[1], p[2] >>
  BY DEF Pair, isLeaves
<1>2. Items[p[1]] = {p[1]} /\ Items[p[2]] = {p[2]}
  BY <1>1, TreeAssumption
<1> QED BY <1>1, <1>2 DEF Below

LEMMA BelowPairs ==
  ASSUME NEW p \in Pair
  PROVE  Below(p) \subseteq Leaf \X Leaf
BY TreeAssumption DEF Pair, Below

\* The distances of pairs are natural numbers.
LEMMA DistanceType ==
  ASSUME itemDistance \in Metrics, NEW p \in Pair
  PROVE  distance(p) \in Nat /\ maximumDistance(p) \in Nat
<1>1. itemDistance \in [Leaf \X Leaf -> Nat]
  BY DistanceAssumption
<1>2. BoundsDistance[p] \in Nat /\ BoundsMaximum[p] \in Nat
  BY DistanceAssumption DEF Pair
<1>3. CASE isLeaves(p)
  <2>1. p \in Leaf \X Leaf
    BY <1>3, BelowLeaves
  <2> QED BY <1>1, <1>2, <1>3, <2>1 DEF distance, maximumDistance
<1>4. CASE ~isLeaves(p)
  BY <1>2, <1>4 DEF distance, maximumDistance
<1> QED BY <1>3, <1>4

\* No items below a pair are nearer than it, or farther than its reach.
LEMMA BelowIsFarther ==
  ASSUME WithinBounds, itemDistance \in Metrics, NEW p \in Pair, NEW l \in Below(p)
  PROVE  /\ itemDistance[l] \in Nat
         /\ distance(p) <= itemDistance[l]
         /\ itemDistance[l] <= maximumDistance(p)
<1>1. l \in Leaf \X Leaf
  BY BelowPairs
<1>2. itemDistance[l] \in Nat
  BY <1>1, DistanceAssumption
<1>3. /\ ~isLeaves(p) => BoundsDistance[p] <= itemDistance[l]
      /\ itemDistance[l] <= BoundsMaximum[p]
  BY DEF WithinBounds
<1>4. CASE isLeaves(p)
  <2>1. l = p
    BY <1>4, BelowLeaves
  <2> QED BY <1>2, <1>3, <1>4, <2>1 DEF distance, maximumDistance
<1>5. CASE ~isLeaves(p)
  BY <1>2, <1>3, <1>5 DEF distance, maximumDistance
<1> QED BY <1>4, <1>5

\* The pairs a branch is replaced by have no other items below them.
LEMMA ExpansionStays ==
  ASSUME NEW p \in Pair, ~isLeaves(p), NEW q \in Expansion(p)
  PROVE  Below(q) \subseteq Below(p)
<1> USE TreeAssumption
<1>0. p[1] \in Node /\ p[2] \in Node /\ p = << p[1], p[2] >>
  BY DEF Pair
<1>1. CASE ExpandsFirst(p)
  <2>1. p[1] \in Node \ Leaf
    BY <1>0, <1>1 DEF ExpandsFirst
  <2>2. PICK c \in Children[p[1]] : q = << c, p[2] >>
    BY <1>1 DEF Expansion
  <2>3. Items[c] \subseteq Items[p[1]]
    BY <2>1
  <2> QED BY <2>2, <2>3 DEF Below
<1>2. CASE ~ExpandsFirst(p)
  <2>1. p[2] \in Node \ Leaf
    BY <1>0, <1>2 DEF ExpandsFirst, isLeaves
  <2>2. PICK c \in Children[p[2]] : q = << p[1], c >>
    BY <1>2 DEF Expansion
  <2>3. Items[c] \subseteq Items[p[2]]
    BY <2>1
  <2> QED BY <2>2, <2>3 DEF Below
<1> QED BY <1>1, <1>2

-------------------------------------------------------------------------------
NoNull == Null \notin {root1, root2}

\* Where the pair l of items is: below a queued pair, or beaten.
Queued(l) == \E p \in priQ : l \in Below(p)
Beaten(l) == /\ maxDistance = Infinity /\ minPair # None
             /\ lowerBound <= itemDistance[l]

\* The queue holds every pair of items of the call that may still matter, and
\* no others; the best pair is one of the call's.
Accounted == /\ result = Running /\ NoNull =>
                  \A l \in Candidates : Queued(l) \/ Beaten(l)
             /\ \A p \in priQ : Below(p) \subseteq Candidates
             /\ minPair # None => minPair \in Candidates
             /\ priQ # {} => NoNull

SearchIInv == SearchTypeOK /\ Accounted /\ NearestIsNearest /\ WithinIsExact

LEMMA NoneIsNoPair == ASSUME NEW S, NEW T PROVE None \notin S \X T
BY DEF None

\* Two trees with a root have items to compare.
LEMMA SomeCandidates ==
  ASSUME root1 \in Root, root2 \in Root, NoNull
  PROVE  << root1, root2 >> \in Pair /\ Candidates # {}
<1>1. root1 \in Node /\ root2 \in Node
  BY TreeAssumption DEF NoNull
<1>2. Items[root1] # {} /\ Items[root2] # {}
  BY <1>1, TreeAssumption
<1>3. PICK a \in Items[root1], b \in Items[root2] : TRUE
  BY <1>2
<1>4. << a, b >> \in Candidates
  BY <1>3 DEF Candidates
<1> QED BY <1>1, <1>4 DEF Pair

LEMMA SearchInitial == SearchInit => SearchIInv
<1> SUFFICES ASSUME SearchInit PROVE SearchIInv
  OBVIOUS
<1> USE DEF SearchInit
<1>1. NoNull => priQ = {<< root1, root2 >>} /\ priQ \subseteq Pair
  BY SomeCandidates DEF NoNull
<1>2. ~NoNull => priQ = {}
  BY DEF NoNull
<1>3. SearchTypeOK
  BY <1>1, <1>2, DistanceAssumption DEF SearchTypeOK
<1>4. \A p \in priQ : Below(p) = Candidates
  BY <1>1, <1>2 DEF Below, Candidates
<1>5. Accounted
  BY <1>1, <1>2, <1>4 DEF Accounted, Queued
<1>6. NearestIsNearest /\ WithinIsExact
  BY DEF NearestIsNearest, WithinIsExact, Running
<1> QED BY <1>3, <1>5, <1>6 DEF SearchIInv

-------------------------------------------------------------------------------
\* A popped pair of nodes is accounted for by the pairs that replace it.
LEMMA ExpansionAccounts ==
  ASSUME WithinBounds, SearchIInv, result = Running, NoNull,
         NEW p \in priQ, ~isLeaves(p), NEW bound \in Nat,
         priQ' = expandToQueue(p, bound),
         bound # Infinity => maxDistance = Infinity /\ minPair # None /\ bound = lowerBound
  PROVE  /\ priQ' \subseteq Pair
         /\ \A q \in priQ' : Below(q) \subseteq Candidates
         /\ \A l \in Candidates : Beaten(l) \/ \E q \in priQ' : l \in Below(q)
<1> USE DEF SearchIInv
<1>0. p \in Pair /\ itemDistance \in Metrics /\ priQ \subseteq Pair
  BY DEF SearchTypeOK
<1>1. Expansion(p) \subseteq Pair
  BY <1>0, ExpansionCovers
<1>2. priQ' \subseteq priQ \cup Expansion(p)
  BY DEF expandToQueue
<1>3. priQ' \subseteq Pair
  BY <1>0, <1>1, <1>2
<1>4. ASSUME NEW q \in priQ' PROVE Below(q) \subseteq Candidates
  <2>1. CASE q \in priQ
    BY <2>1 DEF Accounted
  <2>2. CASE q \in Expansion(p)
    BY <1>0, <2>2, ExpansionStays DEF Accounted
  <2> QED BY <1>2, <2>1, <2>2
<1>5. ASSUME NEW l \in Candidates, ~Beaten(l)
      PROVE  \E q \in priQ' : l \in Below(q)
  <2>1. PICK q \in priQ : l \in Below(q)
    BY <1>5 DEF Accounted, Queued
  <2>2. CASE q # p
    <3>1. q \in priQ'
      BY <2>2 DEF expandToQueue
    <3> QED BY <2>1, <3>1
  <2>3. CASE q = p
    <3>1. PICK r \in Expansion(p) : l \in Below(r)
      BY <1>0, <2>1, <2>3, ExpansionCovers
    <3>2. itemDistance[l] \in Nat /\ distance(r) <= itemDistance[l] /\ distance(r) \in Nat
      BY <1>0, <1>1, <3>1, BelowIsFarther, DistanceType
    <3>3. bound # Infinity => itemDistance[l] < bound
      BY <1>5, <3>2 DEF Beaten
    <3>4. Promising(r, bound)
      BY <3>2, <3>3 DEF Promising
    <3>5. r \in priQ'
      BY <3>1, <3>4 DEF expandToQueue
    <3> QED BY <3>1, <3>5
  <2> QED BY <2>2, <2>3
<1> QED BY <1>3, <1>4, <1>5

\* The best pair is the nearest of all when the loop ends.
LEMMA DoneIsNearest ==
  ASSUME WithinBounds, SearchIInv, searching, NoNull, Done
  PROVE  /\ minPair # None /\ minPair \in Candidates
         /\ \A l \in Candidates : itemDistance[minPair] <= itemDistance[l]
<1> USE DEF SearchIInv, searching
<1>0. itemDistance \in Metrics /\ priQ \subseteq Pair /\ lowerBound \in Nat
  BY DEF SearchTypeOK
<1>1. minPair # None
  <2>1. PICK l \in Candidates : TRUE
    BY SomeCandidates DEF SearchTypeOK
  <2>2. CASE priQ = {}
    BY <2>1, <2>2 DEF Accounted, Queued, Beaten
  <2>3. CASE lowerBound = 0 /\ minPair = None
    <3>1. lowerBound = Infinity
      BY <2>3, NoneIsNoPair DEF SearchTypeOK
    <3> QED BY <2>3, <3>1, DistanceAssumption
  <2> QED BY <2>2, <2>3 DEF Done
<1>2. minPair \in Candidates /\ lowerBound = itemDistance[minPair]
  BY <1>1 DEF Accounted, SearchTypeOK
<1>3. ASSUME NEW l \in Candidates PROVE lowerBound <= itemDistance[l]
  <2>1. CASE Beaten(l)
    BY <2>1 DEF Beaten
  <2>2. CASE ~Beaten(l)
    <3>1. PICK p \in priQ : l \in Below(p)
      BY <2>2 DEF Accounted, Queued
    <3>2. /\ itemDistance[l] \in Nat /\ distance(p) \in Nat
          /\ distance(p) <= itemDistance[l]
      BY <1>0, <3>1, BelowIsFarther, DistanceType
    <3>3. CASE lowerBound = 0
      BY <3>2, <3>3
    <3>4. CASE \E q \in priQ : IsTop(q) /\ distance(q) >= lowerBound
      <4>1. PICK q \in priQ : IsTop(q) /\ distance(q) >= lowerBound
        BY <3>4
      <4>2. distance(q) \in Nat /\ distance(q) <= distance(p)
        BY <1>0, <4>1, DistanceType DEF IsTop
      <4> QED BY <1>0, <3>2, <4>1, <4>2
    <3> QED BY <3>1, <3>3, <3>4 DEF Done
  <2> QED BY <2>1, <2>2
<1> QED BY <1>1, <1>2, <1>3

-------------------------------------------------------------------------------
\* A search that goes on has promised nothing yet.
LEMMA NoPromiseYet ==
  ASSUME result = Running
  PROVE  NearestIsNearest /\ WithinIsExact
BY DEF Running, NearestIsNearest, WithinIsExact

LEMMA SearchNextInvariant == WithinBounds /\ SearchIInv /\ [SearchNext]_searchVars => SearchIInv'
<1> SUFFICES ASSUME WithinBounds, SearchIInv, [SearchNext]_searchVars PROVE SearchIInv'
  OBVIOUS
<1>t. SearchTypeOK /\ Accounted
  BY DEF SearchIInv
<1>1. CASE NoTree
  <2> USE <1>1 DEF NoTree, callVars
  <2>1. result' \in {NoItems, Answer(FALSE)}
    OBVIOUS
  <2>2. SearchTypeOK'
    <3>1. Answer(FALSE) \in [kind : {"answer"}, within : BOOLEAN]
      BY DEF Answer
    <3> QED BY <1>t, <2>1, <3>1 DEF SearchTypeOK
  <2>3. Accounted'
    BY <1>t DEF Accounted, Below, Candidates, NoNull
  <2>4. NearestIsNearest' /\ WithinIsExact'
    BY <2>1 DEF NearestIsNearest, WithinIsExact, NoItems, Answer
  <2> QED BY <2>2, <2>3, <2>4 DEF SearchIInv
<1>2. CASE ReturnNearest
  <2> USE <1>2 DEF ReturnNearest, callVars
  <2>0. NoNull
    BY DEF NoNull
  <2>1. /\ minPair # None /\ minPair \in Candidates
        /\ \A l \in Candidates : itemDistance[minPair] <= itemDistance[l]
    BY <2>0, DoneIsNearest
  <2>2. result' = Nearest(minPair)
    BY <2>1
  <2>3. SearchTypeOK'
    <3>1. minPair \in Leaf \X Leaf
      BY <1>t, <2>1 DEF SearchTypeOK
    <3>2. Nearest(minPair) \in [kind : {"pair"}, pair : Leaf \X Leaf]
      BY <3>1 DEF Nearest
    <3> QED BY <1>t, <2>2, <3>2 DEF SearchTypeOK
  <2>4. Accounted'
    <3>1. result' # Running
      BY <2>2 DEF Nearest, Running
    <3> QED BY <1>t, <3>1 DEF Accounted, Below, Candidates, NoNull
  <2>5. NearestIsNearest'
    BY <2>1, <2>2 DEF NearestIsNearest, Nearest, Candidates
  <2>6. WithinIsExact'
    BY <2>2 DEF WithinIsExact, Nearest
  <2> QED BY <2>3, <2>4, <2>5, <2>6 DEF SearchIInv
<1>3. CASE ReturnBeyond
  <2> USE <1>3 DEF ReturnBeyond, asking, callVars
  <2>0. NoNull
    BY DEF NoNull
  <2>1. ASSUME NEW l \in Candidates PROVE itemDistance[l] > maxDistance
    <3>1. PICK p \in priQ : l \in Below(p)
      BY <1>t, <2>0 DEF Accounted, Queued, Beaten
    <3>2. PICK q \in priQ : IsTop(q) /\ distance(q) > maxDistance
      BY <3>1
    <3>3. /\ itemDistance[l] \in Nat /\ distance(p) \in Nat /\ distance(q) \in Nat
          /\ distance(p) <= itemDistance[l] /\ distance(q) <= distance(p)
      BY <1>t, <3>1, <3>2, BelowIsFarther, DistanceType DEF IsTop, SearchTypeOK
    <3>4. maxDistance \in Nat
      BY <1>t, DistanceAssumption DEF SearchTypeOK
    <3> QED BY <3>2, <3>3, <3>4
  <2>2. SearchTypeOK'
    <3>1. Answer(FALSE) \in [kind : {"answer"}, within : BOOLEAN]
      BY DEF Answer
    <3> QED BY <1>t, <3>1 DEF SearchTypeOK
  <2>3. Accounted'
    <3>1. result' # Running
      BY DEF Answer, Running
    <3> QED BY <1>t, <3>1 DEF Accounted, Below, Candidates, NoNull
  <2>4. NearestIsNearest' /\ WithinIsExact'
    BY <2>1 DEF NearestIsNearest, WithinIsExact, Answer, Candidates
  <2> QED BY <2>2, <2>3, <2>4 DEF SearchIInv
<1>4. CASE \E p \in priQ : VisitPair(p)
  <2>1. PICK p \in priQ : VisitPair(p)
    BY <1>4
  <2> USE <2>1 DEF VisitPair, searching, callVars
  <2>2. /\ p \in Pair /\ itemDistance \in Metrics /\ NoNull
        /\ priQ \subseteq Pair /\ lowerBound \in Nat /\ distance(p) \in Nat
    BY <1>t, DistanceType DEF SearchTypeOK, Accounted
  <2>3. CASE isLeaves(p)
    <3>1. Below(p) = {p} /\ p \in Leaf \X Leaf /\ p \in Candidates
      BY <1>t, <2>2, <2>3, BelowLeaves DEF Accounted
    <3>2. lowerBound' = itemDistance[p] /\ minPair' = p /\ priQ' = priQ \ {p}
      BY <2>3 DEF distance
    <3>3. minPair' # None
      BY <3>1, <3>2, NoneIsNoPair
    <3>4. SearchTypeOK'
      BY <1>t, <2>2, <2>3, <3>1, <3>2 DEF SearchTypeOK, distance
    <3>5. ASSUME NEW l \in Candidates PROVE Queued(l)' \/ Beaten(l)'
      <4>1. CASE Beaten(l)
        <5>1. minPair # None /\ lowerBound <= itemDistance[l]
          BY <4>1 DEF Beaten
        <5>2. distance(p) < lowerBound
          BY <2>2, <5>1 DEF Done
        <5>3. itemDistance[l] \in Nat
          <6>1. << root1, root2 >> \in Pair
            BY <1>t, <2>2, SomeCandidates DEF SearchTypeOK
          <6>2. l \in Below(<< root1, root2 >>)
            BY DEF Below, Candidates
          <6> QED BY <2>2, <6>1, <6>2, BelowPairs, DistanceAssumption
        <5>4. itemDistance[p] <= itemDistance[l]
          BY <2>2, <2>3, <5>1, <5>2, <5>3 DEF distance
        <5> QED BY <3>2, <3>3, <5>4 DEF Beaten
      <4>2. CASE \E q \in priQ : q # p /\ l \in Below(q)
        <5>1. PICK q \in priQ' : l \in Below(q)
          BY <3>2, <4>2
        <5> QED BY <5>1 DEF Queued, Below
      <4>3. CASE l \in Below(p)
        BY <2>2, <2>3, <3>1, <3>2, <3>3, <4>3, DistanceType DEF Beaten, distance
      <4> QED BY <1>t, <2>2, <4>1, <4>2, <4>3 DEF Accounted, Queued
    <3>6. Accounted'
      BY <1>t, <2>2, <3>1, <3>2, <3>5 DEF Accounted, Below, Candidates, NoNull
    <3> QED BY <3>4, <3>6, NoPromiseYet DEF SearchIInv, NearestIsNearest, WithinIsExact, Running
  <2>4. CASE ~isLeaves(p)
    <3>1. priQ' = expandToQueue(p, lowerBound) /\ minPair' = minPair /\ lowerBound' = lowerBound
      BY <2>4
    <3>2. lowerBound # Infinity => minPair # None
      BY <1>t, NoneIsNoPair DEF SearchTypeOK
    <3>3. /\ priQ' \subseteq Pair
          /\ \A q \in priQ' : Below(q) \subseteq Candidates
          /\ \A l \in Candidates : Beaten(l) \/ \E q \in priQ' : l \in Below(q)
      BY <2>2, <2>4, <3>1, <3>2, ExpansionAccounts
    <3>4. SearchTypeOK'
      BY <1>t, <3>1, <3>3 DEF SearchTypeOK
    <3>5. Accounted'
      BY <1>t, <2>2, <3>1, <3>3 DEF Accounted, Queued, Beaten, Below, Candidates, NoNull
    <3> QED BY <3>4, <3>5 DEF SearchIInv, NearestIsNearest, WithinIsExact, Running
  <2> QED BY <2>3, <2>4
<1>5. CASE \E p \in priQ : AskPair(p)
  <2>1. PICK p \in priQ : AskPair(p)
    BY <1>5
  <2> USE <2>1 DEF AskPair, asking, callVars
  <2>2. /\ p \in Pair /\ itemDistance \in Metrics /\ NoNull
        /\ priQ \subseteq Pair /\ maxDistance \in Nat /\ Infinity \in Nat
        /\ distance(p) \in Nat /\ maximumDistance(p) \in Nat
    BY <1>t, DistanceType, DistanceAssumption DEF SearchTypeOK, Accounted
  <2>3. CASE maximumDistance(p) <= maxDistance \/ isLeaves(p)
    <3>1. result' = Answer(TRUE) /\ priQ' = priQ \ {p}
      BY <2>3
    <3>2. PICK l \in Below(p) : TRUE
      <4>1. p[1] \in Node /\ p[2] \in Node
        BY <2>2 DEF Pair
      <4>2. Items[p[1]] # {} /\ Items[p[2]] # {}
        BY <4>1, TreeAssumption
      <4>3. PICK a \in Items[p[1]], b \in Items[p[2]] : TRUE
        BY <4>2
      <4>4. << a, b >> \in Below(p)
        BY <4>3 DEF Below
      <4> QED BY <4>4
    <3>3. l \in Candidates
      BY <1>t, <3>2 DEF Accounted
    <3>4. itemDistance[l] \in Nat /\ itemDistance[l] <= maxDistance
      <4>1. itemDistance[l] \in Nat /\ itemDistance[l] <= maximumDistance(p)
        BY <2>2, <3>2, BelowIsFarther
      <4>2. CASE maximumDistance(p) <= maxDistance
        BY <2>2, <4>1, <4>2
      <4>3. CASE isLeaves(p)
        <5>1. l = p
          BY <2>2, <3>2, <4>3, BelowLeaves
        <5>2. itemDistance[l] = distance(p)
          BY <4>3, <5>1 DEF distance
        <5> QED BY <4>1, <5>2
      <4> QED BY <2>3, <4>2, <4>3
    <3>5. SearchTypeOK'
      <4>1. Answer(TRUE) \in [kind : {"answer"}, within : BOOLEAN]
        BY DEF Answer
      <4> QED BY <1>t, <3>1, <4>1 DEF SearchTypeOK
    <3>6. Accounted'
      <4>1. result' # Running
        BY <3>1 DEF Answer, Running
      <4> QED BY <1>t, <2>2, <3>1, <4>1 DEF Accounted, Below, Candidates, NoNull
    <3>7. NearestIsNearest' /\ WithinIsExact'
      BY <3>1, <3>3, <3>4 DEF NearestIsNearest, WithinIsExact, Answer, Candidates
    <3> QED BY <3>5, <3>6, <3>7 DEF SearchIInv
  <2>4. CASE ~(maximumDistance(p) <= maxDistance \/ isLeaves(p))
    <3>1. priQ' = expandToQueue(p, Infinity) /\ result' = result
      BY <2>4
    <3>3. /\ priQ' \subseteq Pair
          /\ \A q \in priQ' : Below(q) \subseteq Candidates
          /\ \A l \in Candidates : Beaten(l) \/ \E q \in priQ' : l \in Below(q)
      BY <2>2, <2>4, <3>1, ExpansionAccounts
    <3>4. SearchTypeOK'
      BY <1>t, <3>1, <3>3 DEF SearchTypeOK
    <3>5. Accounted'
      BY <1>t, <2>2, <3>1, <3>3 DEF Accounted, Queued, Beaten, Below, Candidates, NoNull
    <3> QED BY <3>1, <3>4, <3>5 DEF SearchIInv, NearestIsNearest, WithinIsExact, Running
  <2> QED BY <2>3, <2>4
<1>6. CASE UNCHANGED searchVars
  BY <1>6 DEF searchVars, callVars, SearchIInv, SearchTypeOK, Accounted, Queued, Beaten, Below,
     Candidates, NoNull, NearestIsNearest, WithinIsExact
<1> QED BY <1>1, <1>2, <1>3, <1>4, <1>5, <1>6 DEF SearchNext

LEMMA SearchInvariance == WithinBounds /\ SearchSpec => []SearchIInv
<1>1. SearchInit => SearchIInv
  BY SearchInitial
<1>2. WithinBounds /\ SearchIInv /\ [SearchNext]_searchVars => SearchIInv'
  BY SearchNextInvariant
<1>3. WithinBounds => []WithinBounds
  <2>1. WithinBounds => WithinBounds'
    BY DEF WithinBounds, Below, isLeaves
  <2> QED BY <2>1, PTL
<1> QED BY <1>1, <1>2, <1>3, PTL DEF SearchSpec

(***************************************************************************)
(* The types, and that the bound is the distance of the best pair so far.  *)
(***************************************************************************)
THEOREM SearchTypeCorrect == ASSUME WithinBounds PROVE SearchSpec => []SearchTypeOK
<1>1. SearchIInv => SearchTypeOK
  BY DEF SearchIInv
<1> QED BY <1>1, SearchInvariance, PTL

(***************************************************************************)
(* Neither popping nor pruning loses a pair of items that could matter.    *)
(***************************************************************************)
THEOREM NoPairIsLost == ASSUME WithinBounds PROVE SearchSpec => []NothingIsLost
<1>1. SearchIInv => NothingIsLost
  BY DEF SearchIInv, Accounted, NothingIsLost, Queued, Beaten, NoNull, searching
<1> QED BY <1>1, SearchInvariance, PTL

(***************************************************************************)
(* nearestNeighbour returns a pair of items than which none is nearer, and *)
(* never throws: whichever of several nearest pairs the queue yields, for  *)
(* any two trees and any item distance that respects their bounds.         *)
(***************************************************************************)
THEOREM NearestNeighbourIsNearest == ASSUME WithinBounds PROVE SearchSpec => []NearestIsNearest
<1>1. SearchIInv => NearestIsNearest
  BY DEF SearchIInv
<1> QED BY <1>1, SearchInvariance, PTL

(***************************************************************************)
(* isWithinDistance is exact, although it answers TRUE as soon as all the  *)
(* items of two nodes must be near enough.                                 *)
(***************************************************************************)
THEOREM IsWithinDistanceIsExact == ASSUME WithinBounds PROVE SearchSpec => []WithinIsExact
<1>1. SearchIInv => WithinIsExact
  BY DEF SearchIInv
<1> QED BY <1>1, SearchInvariance, PTL
===============================================================================
