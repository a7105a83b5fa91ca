------------------------- MODULE TemplateSTRtreeProofs -------------------------
(***************************************************************************)
(* The shape of a tree, and that a tree of that shape answers as the       *)
(* abstract SpatialIndex does: for every capacity, number of items and     *)
(* order in which the sorts may leave equal keys.                          *)
(***************************************************************************)
EXTENDS TemplateSTRtree, FiniteSetTheorems, WellFoundedInduction, TLAPS

------------------------------------------------------------------------------
(***************************************************************************)
(* Arithmetic.                                                             *)
(***************************************************************************)
\* Every non-empty set of natural numbers has a least element.
LEMMA LeastElement ==
  ASSUME NEW T \in SUBSET Nat, T # {}
  PROVE  \E x \in T : \A y \in T : x <= y
<1> DEFINE Before == {ss \in Nat \X Nat : ss[1] < ss[2]}
<1>1. IsWellFoundedOn(Before, Nat)
  BY NatLessThanWellFounded, Zenon DEF OpToRel
<1>2. \E x \in T : \A y \in T : ~(<<y, x>> \in Before)
  <2> HIDE DEF Before
  <2> QED
    BY <1>1, WFMin, Zenon
<1>3. PICK x \in T : \A y \in T : ~(<<y, x>> \in Before)
  BY <1>2
<1>4. ASSUME NEW y \in T
      PROVE  x <= y
  <2>1. ~(y < x)
    BY <1>3
  <2> QED
    BY <2>1
<1> QED
  BY <1>4

\* Finitely many integers have a least and a greatest.
LEMMA Extremes ==
  ASSUME NEW n \in Nat, n > 0, NEW key \in [1 .. n -> Int]
  PROVE  /\ \E i \in 1 .. n : \A j \in 1 .. n : key[i] <= key[j]
         /\ \E i \in 1 .. n : \A j \in 1 .. n : key[i] >= key[j]
<1> DEFINE Low(m) == \E i \in 1 .. m : \A j \in 1 .. m : key[i] <= key[j]
           High(m) == \E i \in 1 .. m : \A j \in 1 .. m : key[i] >= key[j]
           B == {m \in 1 .. n : ~(Low(m) /\ High(m))}
<1>1. B = {}
  <2> SUFFICES ASSUME B # {} PROVE FALSE
    OBVIOUS
  <2>1. PICK m \in B : \A y \in B : m <= y
    <3>1. B \in SUBSET Nat
      OBVIOUS
    <3> HIDE DEF B
    <3> QED
      BY <3>1, LeastElement
  <2>2. m # 1
    <3>1. \A j \in 1 .. 1 : j = 1
      OBVIOUS
    <3>2. Low(1) /\ High(1)
      BY <3>1
    <3> QED
      BY <3>2
  <2>3. m - 1 \in 1 .. n /\ m \in 1 .. n /\ m - 1 \notin B
    <3>1. m \in 1 .. n /\ m - 1 \in 1 .. n
      BY <2>2
    <3>2. ~(m <= m - 1)
      BY <3>1
    <3> HIDE DEF B
    <3> QED
      BY <2>1, <3>1, <3>2
  <2>4. Low(m - 1) /\ High(m - 1)
    BY <2>3
  <2>5. \A j \in 1 .. m : j = m \/ j \in 1 .. (m - 1)
    OBVIOUS
  <2>6. \A j \in 1 .. (m - 1) : j \in 1 .. m /\ key[j] \in Int
    BY <2>3
  <2>7. m \in 1 .. m /\ key[m] \in Int
    BY <2>3
  <2>8. Low(m)
    <3>1. PICK i \in 1 .. (m - 1) : \A j \in 1 .. (m - 1) : key[i] <= key[j]
      BY <2>4
    <3>2. CASE key[i] <= key[m]
      BY <2>5, <2>6, <3>1, <3>2
    <3>3. CASE ~(key[i] <= key[m])
      <4>1. ASSUME NEW j \in 1 .. m PROVE key[m] <= key[j]
        <5>1. key[i] \in Int
          BY <2>6
        <5>2. CASE j = m
          BY <2>7, <5>2
        <5>3. CASE j \in 1 .. (m - 1)
          BY <2>6, <2>7, <3>1, <3>3, <5>1, <5>3
        <5> QED
          BY <2>5, <5>2, <5>3
      <4> QED
        BY <2>7, <4>1
    <3> QED
      BY <3>2, <3>3
  <2>9. High(m)
    <3>1. PICK i \in 1 .. (m - 1) : \A j \in 1 .. (m - 1) : key[i] >= key[j]
      BY <2>4
    <3>2. CASE key[i] >= key[m]
      BY <2>5, <2>6, <3>1, <3>2
    <3>3. CASE ~(key[i] >= key[m])
      <4>1. ASSUME NEW j \in 1 .. m PROVE key[m] >= key[j]
        <5>1. key[i] \in Int
          BY <2>6
        <5>2. CASE j = m
          BY <2>7, <5>2
        <5>3. CASE j \in 1 .. (m - 1)
          BY <2>6, <2>7, <3>1, <3>3, <5>1, <5>3
        <5> QED
          BY <2>5, <5>2, <5>3
      <4> QED
        BY <2>7, <4>1
    <3> QED
      BY <3>2, <3>3
  <2> QED
    BY <2>1, <2>8, <2>9
<1>2. n \in 1 .. n
  OBVIOUS
<1> QED
  BY <1>1, <1>2

\* Rounding up: a / b parts of size b hold a, and no smaller number of them does.
LEMMA CeilDivBounds ==
  ASSUME NEW a \in Nat, NEW b \in Nat, b > 0
  PROVE  /\ CeilDiv(a, b) \in Nat
         /\ a <= b * CeilDiv(a, b)
         /\ b * CeilDiv(a, b) < a + b
         /\ a > 0 => CeilDiv(a, b) > 0
<1> DEFINE q == (a + b - 1) \div b
<1>1. /\ q \in Int
      /\ b * q <= a + b - 1
      /\ a + b - 1 < b * (q + 1)
  BY SMT
<1>2. b * (q + 1) = b * q + b
  BY <1>1
<1>3. q \in Nat
  BY <1>1, <1>2
<1>4. a > 0 => q > 0
  BY <1>1, <1>2, <1>3
<1> QED
  BY <1>1, <1>2, <1>3, <1>4 DEF CeilDiv

\* Slices exist, hold something, and hold the level together.
LEMMA SlicesHoldLevel ==
  ASSUME NEW n \in Nat, n > 0
  PROVE  /\ sliceCount(n) \in Nat /\ sliceCount(n) > 0
         /\ sliceCapacity(n, sliceCount(n)) \in Nat /\ sliceCapacity(n, sliceCount(n)) > 0
         /\ n <= sliceCount(n) * sliceCapacity(n, sliceCount(n))
<1> DEFINE m == CeilDiv(n, nodeCapacity)
           T == {k \in 0 .. m : k * k >= m}
<1>1. m \in Nat /\ m > 0
  BY CeilDivBounds, NodeCapacityAssumption
<1> HIDE DEF m
<1>2. m \in T
  <2>1. m * m >= m
    BY <1>1, SMT
  <2> QED
    BY <1>1, <2>1
<1>3. T \in SUBSET Nat
  BY <1>1
<1>4. PICK x \in T : \A y \in T : x <= y
  <2> HIDE DEF T
  <2> QED BY <1>2, <1>3, LeastElement
<1>5. CeilSqrt(m) \in T
  BY <1>4 DEF CeilSqrt
<1>6. CeilSqrt(m) # 0
  <2>1. 0 \notin T
    BY <1>1
  <2> QED
    BY <1>5, <2>1
<1>7. CeilSqrt(m) \in Nat /\ sliceCount(n) = CeilSqrt(m)
  BY <1>5 DEF sliceCount, m
<1>8. sliceCapacity(n, sliceCount(n)) = CeilDiv(n, CeilSqrt(m))
  BY <1>7 DEF sliceCapacity
<1> DEFINE k == CeilSqrt(m)
<1>9. k \in Nat /\ k > 0 /\ sliceCount(n) = k /\ sliceCapacity(n, sliceCount(n)) = CeilDiv(n, k)
  BY <1>6, <1>7, <1>8
<1> HIDE DEF k
<1> QED
  BY <1>9, CeilDivBounds

------------------------------------------------------------------------------
(***************************************************************************)
(* Envelopes.                                                              *)
(***************************************************************************)
Node == [bounds : Boxes, item : Item \cup {"none"}, first : Nat, last : Nat,
         deleted : BOOLEAN, ordinal : 0 .. MaxItems]

Covers(e, f) == expandToInclude(e, f) = e

LEMMA CoversMeans ==
  ASSUME NEW e \in Boxes, NEW f \in Boxes
  PROVE  Covers(e, f) <=> /\ e.minx <= f.minx /\ f.maxx <= e.maxx
                          /\ e.miny <= f.miny /\ f.maxy <= e.maxy
<1>1. e = [minx |-> e.minx, maxx |-> e.maxx, miny |-> e.miny, maxy |-> e.maxy]
  BY DEF Boxes
<1>2. /\ Least(e.minx, f.minx) = e.minx <=> e.minx <= f.minx
      /\ Least(e.miny, f.miny) = e.miny <=> e.miny <= f.miny
      /\ Greatest(e.maxx, f.maxx) = e.maxx <=> f.maxx <= e.maxx
      /\ Greatest(e.maxy, f.maxy) = e.maxy <=> f.maxy <= e.maxy
  BY DEF Least, Greatest, Boxes
<1>3. Covers(e, f) <=> /\ Least(e.minx, f.minx) = e.minx /\ Greatest(e.maxx, f.maxx) = e.maxx
                       /\ Least(e.miny, f.miny) = e.miny /\ Greatest(e.maxy, f.maxy) = e.maxy
  <2> DEFINE g == expandToInclude(e, f)
  <2>1. g = [minx |-> Least(e.minx, f.minx), maxx |-> Greatest(e.maxx, f.maxx),
             miny |-> Least(e.miny, f.miny), maxy |-> Greatest(e.maxy, f.maxy)]
    BY DEF expandToInclude
  <2>2. Covers(e, f) <=> g = e
    BY DEF Covers
  <2> HIDE DEF g
  <2> QED
    BY <1>1, <2>1, <2>2
<1> QED
  BY <1>2, <1>3

\* The least and the greatest of numbers given by a list.
LEMMA MinMax ==
  ASSUME NEW n \in Nat, n > 0, NEW key \in [1 .. n -> Int]
  PROVE  LET S == {key[k] : k \in 1 .. n}
         IN  /\ Min(S) \in Int /\ Max(S) \in Int
             /\ \A k \in 1 .. n : Min(S) <= key[k] /\ key[k] <= Max(S)
<1> DEFINE S == {key[k] : k \in 1 .. n}
<1>1. PICK i \in 1 .. n : \A j \in 1 .. n : key[i] <= key[j]
  BY Extremes
<1>2. PICK h \in 1 .. n : \A j \in 1 .. n : key[h] >= key[j]
  BY Extremes
<1>3. key[i] \in S /\ (\A y \in S : key[i] <= y) /\ key[h] \in S /\ (\A y \in S : key[h] >= y)
  BY <1>1, <1>2
<1>4. S \subseteq Int /\ \A k \in 1 .. n : key[k] \in S
  OBVIOUS
<1> HIDE DEF S
<1>5. Min(S) \in S /\ \A y \in S : Min(S) <= y
  BY <1>3 DEF Min
<1>6. Max(S) \in S /\ \A y \in S : Max(S) >= y
  BY <1>3 DEF Max
<1>7. /\ Min(S) \in Int /\ Max(S) \in Int
      /\ \A k \in 1 .. n : Min(S) <= key[k] /\ key[k] <= Max(S)
  BY <1>4, <1>5, <1>6
<1> QED
  BY <1>7 DEF S

\* A parent covers its children.
LEMMA BoundsCover ==
  ASSUME NEW children \in Seq(Node), Len(children) > 0
  PROVE  /\ boundsFromChildren(children) \in Boxes
         /\ \A k \in 1 .. Len(children) : Covers(boundsFromChildren(children), children[k].bounds)
<1> DEFINE n == Len(children)
           D == DOMAIN children
           bounds == {children[k].bounds : k \in D}
           lowx == {e.minx : e \in bounds}
           highx == {e.maxx : e \in bounds}
           lowy == {e.miny : e \in bounds}
           highy == {e.maxy : e \in bounds}
           b == boundsFromChildren(children)
<1>1. n \in Nat /\ n > 0 /\ D = 1 .. n /\ \A k \in 1 .. n : children[k].bounds \in Boxes
  <2>1. n \in Nat /\ D = 1 .. n
    OBVIOUS
  <2>2. \A k \in 1 .. n : children[k] \in Node
    OBVIOUS
  <2>3. \A x \in Node : x.bounds \in Boxes
    BY DEF Node
  <2> QED
    BY <2>1, <2>2, <2>3
<1>2. b = [minx |-> Min(lowx), maxx |-> Max(highx), miny |-> Min(lowy), maxy |-> Max(highy)]
  BY DEF boundsFromChildren
<1>3. /\ lowx = {children[k].bounds.minx : k \in D} /\ highx = {children[k].bounds.maxx : k \in D}
      /\ lowy = {children[k].bounds.miny : k \in D} /\ highy = {children[k].bounds.maxy : k \in D}
  OBVIOUS
<1> HIDE DEF lowx, highx, lowy, highy, n, D
<1>4. Min(lowx) \in Int /\ \A k \in 1 .. n : Min(lowx) <= children[k].bounds.minx
  <2> DEFINE key == [k \in 1 .. n |-> children[k].bounds.minx]
  <2>1. key \in [1 .. n -> Int] /\ lowx = {key[k] : k \in 1 .. n}
    BY <1>1, <1>3 DEF Boxes
  <2>2. Min(lowx) \in Int /\ \A k \in 1 .. n : Min(lowx) <= key[k]
    <3> HIDE DEF key
    <3> QED
      BY <1>1, <2>1, MinMax
  <2> QED
    BY <2>2
<1>5. Max(highx) \in Int /\ \A k \in 1 .. n : children[k].bounds.maxx <= Max(highx)
  <2> DEFINE key == [k \in 1 .. n |-> children[k].bounds.maxx]
  <2>1. key \in [1 .. n -> Int] /\ highx = {key[k] : k \in 1 .. n}
    BY <1>1, <1>3 DEF Boxes
  <2>2. Max(highx) \in Int /\ \A k \in 1 .. n : key[k] <= Max(highx)
    <3> HIDE DEF key
    <3> QED
      BY <1>1, <2>1, MinMax
  <2> QED
    BY <2>2
<1>6. Min(lowy) \in Int /\ \A k \in 1 .. n : Min(lowy) <= children[k].bounds.miny
  <2> DEFINE key == [k \in 1 .. n |-> children[k].bounds.miny]
  <2>1. key \in [1 .. n -> Int] /\ lowy = {key[k] : k \in 1 .. n}
    BY <1>1, <1>3 DEF Boxes
  <2>2. Min(lowy) \in Int /\ \A k \in 1 .. n : Min(lowy) <= key[k]
    <3> HIDE DEF key
    <3> QED
      BY <1>1, <2>1, MinMax
  <2> QED
    BY <2>2
<1>7. Max(highy) \in Int /\ \A k \in 1 .. n : children[k].bounds.maxy <= Max(highy)
  <2> DEFINE key == [k \in 1 .. n |-> children[k].bounds.maxy]
  <2>1. key \in [1 .. n -> Int] /\ highy = {key[k] : k \in 1 .. n}
    BY <1>1, <1>3 DEF Boxes
  <2>2. Max(highy) \in Int /\ \A k \in 1 .. n : key[k] <= Max(highy)
    <3> HIDE DEF key
    <3> QED
      BY <1>1, <2>1, MinMax
  <2> QED
    BY <2>2
<1> HIDE DEF b
<1>8. b \in Boxes
  <2>1. /\ children[1].bounds.minx \in Int /\ children[1].bounds.maxx \in Int
        /\ children[1].bounds.miny \in Int /\ children[1].bounds.maxy \in Int
        /\ children[1].bounds.minx <= children[1].bounds.maxx
        /\ children[1].bounds.miny <= children[1].bounds.maxy
    <3>1. children[1].bounds \in Boxes
      BY <1>1
    <3> QED
      BY <3>1 DEF Boxes
  <2>2. 1 \in 1 .. n
    BY <1>1
  <2>3. Min(lowx) <= Max(highx)
    BY <1>4, <1>5, <2>1, <2>2
  <2>4. Min(lowy) <= Max(highy)
    BY <1>6, <1>7, <2>1, <2>2
  <2> QED
    BY <1>2, <1>4, <1>5, <1>6, <1>7, <2>3, <2>4 DEF Boxes
<1>9. \A k \in 1 .. n : Covers(b, children[k].bounds)
  <2> TAKE k \in 1 .. n
  <2>1. /\ b.minx <= children[k].bounds.minx /\ children[k].bounds.maxx <= b.maxx
        /\ b.miny <= children[k].bounds.miny /\ children[k].bounds.maxy <= b.maxy
    BY <1>2, <1>4, <1>5, <1>6, <1>7
  <2> QED
    BY <1>1, <1>8, <2>1, CoversMeans
<1> QED
  BY <1>8, <1>9 DEF b, n

------------------------------------------------------------------------------
(***************************************************************************)
(* Trees under construction.                                               *)
(***************************************************************************)
HasChild(ns, b, c) == ns[b].first # 0 /\ ns[b].first <= c /\ c <= ns[b].last

\* b has children, not too many, among the first d nodes and before b, and covers them.
BranchOver(ns, b, d) ==
  /\ ns[b].first <= ns[b].last /\ ns[b].last < ns[b].first + nodeCapacity
  /\ ns[b].last <= d /\ ns[b].last < b
  /\ \A c \in ns[b].first .. ns[b].last : Covers(ns[b].bounds, ns[c].bounds)

OneParent(ns, c) ==
  \E b \in 1 .. Len(ns) :
    HasChild(ns, b, c) /\ \A x \in 1 .. Len(ns) : HasChild(ns, x, c) => x = b

\* The first d nodes have got their parents.
Packed(ns, d) ==
  /\ ns \in Seq(Node) /\ d \in 0 .. Len(ns)
  /\ \A b \in 1 .. Len(ns) : ns[b].first # 0 => BranchOver(ns, b, d)
  /\ \A c \in 1 .. d : OneParent(ns, c)

\* What a sort does: f says where each node was.
Moved(ns, f) == [p \in 1 .. Len(ns) |-> ns[f[p]]]
Orders(ns, d) == {f \in Bijection(1 .. Len(ns), 1 .. Len(ns)) : \A p \in 1 .. d : f[p] = p}

\* Nodes that have no parent yet may be moved, with their children left where they are.
LEMMA MovedStaysPacked ==
  ASSUME NEW ns, NEW d, Packed(ns, d), NEW f \in Orders(ns, d)
  PROVE  Packed(Moved(ns, f), d) /\ Len(Moved(ns, f)) = Len(ns)
<1> DEFINE n == Len(ns)
           ms == Moved(ns, f)
<1>1. /\ n \in Nat /\ d \in 0 .. n /\ \A p \in 1 .. n : ns[p] \in Node
      /\ f \in [1 .. n -> 1 .. n] /\ \A p \in 1 .. d : f[p] = p
  BY DEF Packed, Orders, Bijection, Injection
<1>2. \A p, q \in 1 .. n : f[p] = f[q] => p = q
  BY <1>1 DEF Orders, Bijection, Injection, IsInjective
<1>3. \A q \in 1 .. n : \E p \in 1 .. n : f[p] = q
  BY DEF Orders, Bijection, Surjection
<1>4. /\ ms \in Seq(Node) /\ Len(ms) = n
      /\ \A p \in 1 .. n : ms[p] = ns[f[p]]
      /\ \A p \in 1 .. d : ms[p] = ns[p]
  BY <1>1 DEF Moved
<1> HIDE DEF ms, n
<1>5. ASSUME NEW b \in 1 .. n, ms[b].first # 0 PROVE BranchOver(ms, b, d)
  <2>1. f[b] \in 1 .. n /\ ms[b] = ns[f[b]]
    BY <1>1, <1>4
  <2>2. BranchOver(ns, f[b], d)
    BY <1>5, <2>1 DEF Packed, n
  <2>3. /\ ms[b].first \in Nat /\ ms[b].last \in Nat
        /\ ms[b].first <= ms[b].last /\ ms[b].last < ms[b].first + nodeCapacity
        /\ ms[b].last <= d
    BY <1>1, <2>1, <2>2 DEF BranchOver, Node
  <2>4. ms[b].last < b
    <3>1. CASE b \in 1 .. d
      BY <1>1, <2>1, <2>2, <3>1 DEF BranchOver
    <3>2. CASE b \notin 1 .. d
      BY <1>1, <2>3, <3>2
    <3> QED
      BY <3>1, <3>2
  <2>5. ASSUME NEW c \in ms[b].first .. ms[b].last PROVE Covers(ms[b].bounds, ms[c].bounds)
    <3>1. c \in 1 .. d
      <4> DEFINE i == ms[b].first
                 j == ms[b].last
      <4>1. i \in Nat /\ j \in Nat /\ i # 0 /\ j <= d /\ d \in Nat /\ c \in i .. j
        BY <1>1, <1>5, <2>3
      <4> HIDE DEF i, j
      <4> QED
        BY <4>1
    <3>2. ms[c] = ns[c]
      BY <1>4, <3>1
    <3> QED
      BY <2>1, <2>2, <3>2 DEF BranchOver
  <2> QED
    BY <2>3, <2>4, <2>5 DEF BranchOver
<1>6. ASSUME NEW c \in 1 .. d PROVE OneParent(ms, c)
  <2>1. PICK b \in 1 .. n :
          HasChild(ns, b, c) /\ \A x \in 1 .. n : HasChild(ns, x, c) => x = b
    BY DEF Packed, OneParent, n
  <2>2. PICK a \in 1 .. n : f[a] = b
    BY <1>3
  <2>3. HasChild(ms, a, c)
    BY <1>4, <2>1, <2>2 DEF HasChild
  <2>4. ASSUME NEW x \in 1 .. n, HasChild(ms, x, c) PROVE x = a
    <3>1. HasChild(ns, f[x], c) /\ f[x] \in 1 .. n
      BY <1>1, <1>4, <2>4 DEF HasChild
    <3> QED
      BY <1>2, <2>1, <2>2, <3>1
  <2> QED
    BY <1>4, <2>3, <2>4 DEF OneParent
<1> QED
  BY <1>1, <1>4, <1>5, <1>6 DEF Packed, ms, n

\* The k-th of the parents of nodes d + 1 .. e.
LEMMA ParentRanges ==
  ASSUME NEW n \in Nat, n > 0, NEW k \in 1 .. ParentsOfSlice(n)
  PROVE  /\ ParentsOfSlice(n) \in Nat
         /\ (k - 1) * nodeCapacity \in Nat /\ (k - 1) * nodeCapacity < n
         /\ k * nodeCapacity = (k - 1) * nodeCapacity + nodeCapacity
<1> DEFINE K == ParentsOfSlice(n)
           M == nodeCapacity
<1>1. M \in Nat /\ M >= 2
  BY NodeCapacityAssumption
<1>2. K \in Nat /\ M * K < n + M
  <2>1. K = CeilDiv(n, nodeCapacity)
    BY DEF ParentsOfSlice
  <2> HIDE DEF K
  <2>2. nodeCapacity \in Nat /\ nodeCapacity > 0
    BY <1>1
  <2>3. CeilDiv(n, nodeCapacity) \in Nat /\ nodeCapacity * CeilDiv(n, nodeCapacity) < n + nodeCapacity
    BY <2>2, CeilDivBounds
  <2> QED
    BY <2>1, <2>3
<1> HIDE DEF K, M
<1>3. k \in Nat /\ k >= 1 /\ k <= K
  BY <1>2 DEF K
<1>4. M * k <= M * K
  BY <1>1, <1>2, <1>3, SMT
<1>5. M * k = M * (k - 1) + M
  BY <1>1, <1>3, SMT
<1>6. M * (k - 1) \in Nat
  BY <1>1, <1>3, SMT
<1>7. M * (k - 1) = (k - 1) * M /\ M * k = k * M
  BY <1>1, <1>3, SMT
<1>8. M * (k - 1) < n /\ k * M \in Nat
  <2> DEFINE u == M * (k - 1)
             v == M * k
             w == M * K
  <2>1. u \in Nat /\ v = u + M /\ v <= w /\ w < n + M /\ w \in Nat
    BY <1>1, <1>2, <1>3, <1>4, <1>5, <1>6, SMT
  <2> HIDE DEF u, v, w
  <2>2. u < n /\ v \in Nat
    BY <1>1, <2>1
  <2> QED
    BY <1>7, <2>2 DEF u, v
<1> QED
  BY <1>2, <1>5, <1>6, <1>7, <1>8 DEF K, M

\* Every node of a slice has a place in exactly one of those ranges.
LEMMA RangesPartition ==
  ASSUME NEW n \in Nat, NEW x \in 1 .. n
  PROVE  \E k \in 1 .. ParentsOfSlice(n) :
           /\ (k - 1) * nodeCapacity < x /\ x <= k * nodeCapacity
           /\ \A j \in 1 .. ParentsOfSlice(n) :
                (j - 1) * nodeCapacity < x /\ x <= j * nodeCapacity => j = k
<1> DEFINE K == ParentsOfSlice(n)
           M == nodeCapacity
           q == (x - 1) \div M
<1>1. M \in Nat /\ M >= 2 /\ x - 1 \in Nat
  BY NodeCapacityAssumption
<1>2. K \in Nat /\ n <= M * K
  BY <1>1, CeilDivBounds DEF ParentsOfSlice
<1>3. q \in Nat /\ M * q <= x - 1 /\ x - 1 < M * (q + 1)
  <2>1. q \in Int /\ M * q <= x - 1 /\ x - 1 < M * (q + 1)
    BY <1>1, SMT
  <2>2. M * (q + 1) = M * q + M
    BY <1>1, <2>1, SMT
  <2>3. q >= 0
    <3> SUFFICES ASSUME q <= -1 PROVE FALSE
      BY <2>1
    <3>1. M * (q + 1) <= 0
      BY <1>1, <2>1, SMT
    <3> QED
      BY <1>1, <2>1, <3>1
  <2> QED
    BY <2>1, <2>3
<1> HIDE DEF K, M, q
\* A product is monotone.
<1>4. \A i, j \in Nat : i <= j => M * i <= M * j
  BY <1>1, SMT
<1>5. \A j \in Nat : j * M = M * j /\ M * j \in Nat
  BY <1>1, SMT
<1>6. q + 1 \in 1 .. K
  <2> SUFFICES ASSUME K <= q PROVE FALSE
    BY <1>2, <1>3
  <2>1. M * K <= M * q
    BY <1>2, <1>3, <1>4
  <2>2. M * K \in Nat /\ M * q \in Nat
    BY <1>2, <1>3, <1>5
  <2> QED
    BY <1>1, <1>2, <1>3, <2>1, <2>2
<1>7. ((q + 1) - 1) * M = M * q /\ (q + 1) * M = M * (q + 1)
  <2>1. (q + 1) - 1 = q
    BY <1>3
  <2> QED
    BY <1>3, <1>5, <2>1
<1>8. ((q + 1) - 1) * M < x /\ x <= (q + 1) * M
  BY <1>1, <1>3, <1>5, <1>7
<1>9. ASSUME NEW j \in 1 .. K, (j - 1) * M < x, x <= j * M PROVE j = q + 1
  <2>1. j \in Nat /\ j - 1 \in Nat /\ q + 1 \in Nat
    BY <1>2, <1>3
  <2>2. M * (j - 1) < x /\ x <= M * j /\ M * (j - 1) \in Nat /\ M * j \in Nat
    BY <1>5, <1>9, <2>1
  <2>3. M * q \in Nat /\ M * (q + 1) \in Nat
    BY <1>3, <1>5, <2>1
  <2>4. ~(j <= q)
    <3> SUFFICES ASSUME j <= q PROVE FALSE
      OBVIOUS
    <3>1. M * j <= M * q
      BY <1>3, <1>4, <2>1
    <3> QED
      BY <1>1, <1>3, <2>2, <2>3, <3>1
  <2>5. ~(q + 1 <= j - 1)
    <3> SUFFICES ASSUME q + 1 <= j - 1 PROVE FALSE
      OBVIOUS
    <3>1. M * (q + 1) <= M * (j - 1)
      BY <1>4, <2>1
    <3> QED
      BY <1>1, <1>3, <2>2, <2>3, <3>1
  <2> QED
    BY <1>3, <2>1, <2>4, <2>5
<1> QED
  BY <1>6, <1>8, <1>9 DEF K, M

\* The parents of a slice: what is there stays packed, and the slice is, too.
LEMMA ParentsPack ==
  ASSUME NEW ns, NEW d, NEW e, Packed(ns, d), e \in d .. Len(ns)
  PROVE  LET ms == ns \o Parents(ns, d, e)
         IN  /\ Packed(ms, e)
             /\ Len(ms) = Len(ns) + ParentsOfSlice(e - d)
             /\ \A p \in 1 .. Len(ns) : ms[p] = ns[p]
             /\ \A p \in Len(ns) + 1 .. Len(ms) : ms[p].first # 0
<1> DEFINE n == Len(ns)
           M == nodeCapacity
           K == ParentsOfSlice(e - d)
           ps == Parents(ns, d, e)
           ms == ns \o ps
           FirstOf(k) == d + (k - 1) * M + 1
           LastOf(k) == Least(d + k * M, e)
<1>1. /\ n \in Nat /\ d \in Nat /\ e \in Nat /\ d <= e /\ e <= n /\ M \in Nat /\ M >= 2
      /\ ns \in [1 .. n -> Node] /\ ns \in Seq(Node)
  BY NodeCapacityAssumption DEF Packed
<1>2. K \in Nat
  <2>1. K = CeilDiv(e - d, nodeCapacity)
    BY DEF ParentsOfSlice
  <2>2. e - d \in Nat /\ nodeCapacity \in Nat /\ nodeCapacity > 0
    BY <1>1
  <2> HIDE DEF K
  <2> QED
    BY <2>1, <2>2, CeilDivBounds
<1> HIDE DEF M, K
<1>3. ASSUME NEW k \in 1 .. K
      PROVE  /\ FirstOf(k) \in Nat /\ LastOf(k) \in Nat /\ d < FirstOf(k) /\ FirstOf(k) <= LastOf(k)
             /\ LastOf(k) < FirstOf(k) + M /\ LastOf(k) <= e
             /\ \A c \in d + 1 .. e :
                  FirstOf(k) <= c /\ c <= LastOf(k) <=> (k - 1) * M < c - d /\ c - d <= k * M
  <2>1. e - d \in Nat /\ e - d > 0
    <3>1. K # 0
      BY <1>2
    <3>2. CeilDiv(0, nodeCapacity) = 0
      BY NodeCapacityAssumption, SMT DEF CeilDiv
    <3> QED
      BY <1>1, <3>1, <3>2 DEF K, ParentsOfSlice
  <2>2. /\ (k - 1) * M \in Nat /\ (k - 1) * M < e - d
        /\ k * M = (k - 1) * M + M
    BY <2>1, ParentRanges DEF M, K
  <2> DEFINE u == (k - 1) * M
             v == k * M
  <2>3. u \in Nat /\ u < e - d /\ v = u + M
    BY <2>2
  <2>4. FirstOf(k) = d + u + 1 /\ LastOf(k) = Least(d + v, e)
    OBVIOUS
  <2> HIDE DEF u, v, FirstOf, LastOf
  <2>5. LastOf(k) = IF d + v <= e THEN d + v ELSE e
    BY <2>4 DEF Least
  <2>6. /\ FirstOf(k) \in Nat /\ LastOf(k) \in Nat /\ d < FirstOf(k) /\ FirstOf(k) <= LastOf(k)
        /\ LastOf(k) < FirstOf(k) + M /\ LastOf(k) <= e
    BY <1>1, <2>3, <2>4, <2>5
  <2>7. \A c \in d + 1 .. e : FirstOf(k) <= c /\ c <= LastOf(k) <=> u < c - d /\ c - d <= v
    BY <1>1, <2>3, <2>4, <2>5
  <2> QED
    BY <2>6, <2>7 DEF u, v
<1>4. ASSUME NEW k \in 1 .. K
      PROVE  /\ ps[k] \in Node /\ ps[k].first = FirstOf(k) /\ ps[k].last = LastOf(k)
             /\ \A c \in FirstOf(k) .. LastOf(k) : Covers(ps[k].bounds, ns[c].bounds)
  <2> DEFINE i == FirstOf(k)
             j == LastOf(k)
             children == SubSeq(ns, i, j)
  <2>1. ps[k] = Branch(ns, i, j)
    BY DEF Parents, K, M
  <2>2. i \in Nat /\ j \in Nat /\ 0 < i /\ i <= j /\ j <= n
    BY <1>1, <1>3
  <2> HIDE DEF i, j, n, ps
  <2>3. /\ children \in Seq(Node) /\ Len(children) = j - i + 1
        /\ \A m \in 1 .. Len(children) : children[m] = ns[i + m - 1]
    <3>1. \A m \in 1 .. j - i + 1 : i + m - 1 \in 1 .. n
      BY <1>1, <2>2
    <3>2. children = [m \in 1 .. j - i + 1 |-> ns[i + m - 1]]
      BY <1>1, <2>2, SMT DEF n
    <3> QED
      BY <1>1, <2>2, <3>1, <3>2
  <2>4. /\ boundsFromChildren(children) \in Boxes
        /\ \A m \in 1 .. Len(children) : Covers(boundsFromChildren(children), children[m].bounds)
    <3>1. Len(children) > 0
      BY <2>2, <2>3
    <3> HIDE DEF children
    <3> QED
      BY <2>3, <3>1, BoundsCover
  <2>5. ps[k] = [bounds |-> boundsFromChildren(children), item |-> "none",
                 first |-> i, last |-> j, deleted |-> FALSE, ordinal |-> 0]
    BY <2>1 DEF Branch
  <2>6. ps[k] \in Node
    <3> HIDE DEF children
    <3> QED
      BY <2>2, <2>4, <2>5, TreeAssumption DEF Node
  <2>7. ASSUME NEW c \in i .. j PROVE Covers(ps[k].bounds, ns[c].bounds)
    <3>1. c - i + 1 \in 1 .. Len(children) /\ i + (c - i + 1) - 1 = c
      BY <2>2, <2>3
    <3>2. children[c - i + 1] = ns[c]
      BY <2>3, <3>1
    <3> HIDE DEF children
    <3> QED
      BY <2>4, <2>5, <3>1, <3>2
  <2> QED
    BY <2>5, <2>6, <2>7 DEF i, j
<1>5. /\ ps \in Seq(Node) /\ Len(ps) = K
  <2>1. DOMAIN ps = 1 .. K /\ ps = [k \in 1 .. K |-> ps[k]]
    BY DEF Parents, K
  <2> HIDE DEF ps, FirstOf, LastOf
  <2> QED
    BY <1>2, <1>4, <2>1
<1> HIDE DEF ps
<1>6. /\ ms \in Seq(Node) /\ Len(ms) = n + K
      /\ \A p \in 1 .. n : ms[p] = ns[p]
      /\ \A k \in 1 .. K : ms[n + k] = ps[k]
  BY <1>1, <1>2, <1>5
<1>7. \A p \in 1 .. n + K : p \in 1 .. n \/ \E k \in 1 .. K : p = n + k
  <2> TAKE p \in 1 .. n + K
  <2>1. p \in 1 .. n \/ (p - n \in 1 .. K /\ p = n + (p - n))
    BY <1>1, <1>2
  <2> QED
    BY <2>1
<1> HIDE DEF ms, n, FirstOf, LastOf
<1>8. ASSUME NEW b \in 1 .. n, ms[b].first # 0 PROVE BranchOver(ms, b, e)
  <2>1. ms[b] = ns[b] /\ BranchOver(ns, b, d) /\ ns[b] \in Node
    BY <1>1, <1>6, <1>8 DEF Packed, n
  <2>2. ns[b].first \in Nat /\ ns[b].last \in Nat /\ ns[b].first # 0
    BY <1>8, <2>1 DEF Node
  <2>3. ns[b].last <= d /\ ns[b].last < b
    BY <2>1 DEF BranchOver
  <2>4. \A c \in ns[b].first .. ns[b].last : ms[c] = ns[c]
    BY <1>1, <1>6, <2>2, <2>3
  <2> QED
    BY <1>1, <2>1, <2>2, <2>3, <2>4 DEF BranchOver
<1>9. ASSUME NEW k \in 1 .. K PROVE BranchOver(ms, n + k, e) /\ ms[n + k].first # 0
  <2>1. /\ ms[n + k].first = FirstOf(k) /\ ms[n + k].last = LastOf(k) /\ ms[n + k].bounds = ps[k].bounds
        /\ \A c \in FirstOf(k) .. LastOf(k) : Covers(ps[k].bounds, ns[c].bounds)
    BY <1>4, <1>6
  <2>2. /\ FirstOf(k) \in Nat /\ LastOf(k) \in Nat /\ d < FirstOf(k) /\ FirstOf(k) <= LastOf(k)
        /\ LastOf(k) < FirstOf(k) + M /\ LastOf(k) <= e
    BY <1>3
  <2>3. \A c \in FirstOf(k) .. LastOf(k) : ms[c] = ns[c]
    BY <1>1, <1>6, <2>2
  <2>4. LastOf(k) < n + k
    BY <1>1, <1>2, <2>2
  <2> QED
    BY <1>1, <2>1, <2>2, <2>3, <2>4 DEF BranchOver, M
<1>10. ASSUME NEW c \in 1 .. d PROVE OneParent(ms, c)
  <2>1. PICK b \in 1 .. n : HasChild(ns, b, c) /\ \A x \in 1 .. n : HasChild(ns, x, c) => x = b
    BY DEF Packed, OneParent, n
  <2>2. b \in 1 .. n + K /\ HasChild(ms, b, c)
    BY <1>1, <1>2, <1>6, <2>1 DEF HasChild
  <2>3. ASSUME NEW x \in 1 .. n + K, HasChild(ms, x, c) PROVE x = b
    <3>1. CASE x \in 1 .. n
      BY <1>6, <2>1, <2>3, <3>1 DEF HasChild
    <3>2. ASSUME NEW k \in 1 .. K, x = n + k PROVE FALSE
      <4>1. FirstOf(k) <= c /\ d < FirstOf(k) /\ FirstOf(k) \in Nat
        BY <1>3, <1>4, <1>6, <2>3, <3>2 DEF HasChild
      <4> QED
        BY <1>1, <4>1
    <3> QED
      BY <1>7, <3>1, <3>2
  <2> QED
    BY <1>6, <2>2, <2>3 DEF OneParent
<1>11. ASSUME NEW c \in d + 1 .. e PROVE OneParent(ms, c)
  <2>1. e - d \in Nat /\ c - d \in 1 .. e - d
    BY <1>1
  <2>2. PICK k \in 1 .. K : /\ (k - 1) * M < c - d /\ c - d <= k * M
                             /\ \A j \in 1 .. K : (j - 1) * M < c - d /\ c - d <= j * M => j = k
    BY <2>1, RangesPartition DEF K, M
  <2>3. HasChild(ms, n + k, c) /\ n + k \in 1 .. n + K
    <3>1. FirstOf(k) <= c /\ c <= LastOf(k)
      BY <1>3, <2>2
    <3>2. ms[n + k].first = FirstOf(k) /\ ms[n + k].last = LastOf(k) /\ ms[n + k].first # 0
      BY <1>4, <1>6, <1>9
    <3> QED
      BY <1>1, <1>2, <3>1, <3>2 DEF HasChild
  <2>4. ASSUME NEW x \in 1 .. n + K, HasChild(ms, x, c) PROVE x = n + k
    <3>1. CASE x \in 1 .. n
      <4>1. ns[x].first # 0 /\ c <= ns[x].last /\ ns[x] \in Node
        BY <1>1, <1>6, <2>4, <3>1 DEF HasChild
      <4>2. BranchOver(ns, x, d)
        BY <3>1, <4>1 DEF Packed, n
      <4>3. ns[x].last <= d /\ ns[x].last \in Nat
        BY <4>1, <4>2 DEF BranchOver, Node
      <4> QED
        BY <1>1, <4>1, <4>3
    <3>2. ASSUME NEW j \in 1 .. K, x = n + j PROVE j = k
      <4>1. FirstOf(j) <= c /\ c <= LastOf(j)
        BY <1>4, <1>6, <2>4, <3>2 DEF HasChild
      <4>2. (j - 1) * M < c - d /\ c - d <= j * M
        BY <1>3, <4>1
      <4> QED
        BY <2>2, <4>2
    <3> QED
      BY <1>7, <3>1, <3>2
  <2> QED
    BY <1>6, <2>3, <2>4 DEF OneParent
<1>12. Packed(ms, e)
  <2>1. e \in 0 .. n + K
    BY <1>1, <1>2
  <2>2. \A b \in 1 .. n + K : ms[b].first # 0 => BranchOver(ms, b, e)
    BY <1>7, <1>8, <1>9
  <2>3. \A c \in 1 .. e : OneParent(ms, c)
    <3>1. \A c \in 1 .. e : c \in 1 .. d \/ c \in d + 1 .. e
      BY <1>1
    <3> QED
      BY <1>10, <1>11, <3>1
  <2> QED
    BY <1>6, <2>1, <2>2, <2>3 DEF Packed
<1>13. \A p \in n + 1 .. n + K : ms[p].first # 0
  <2>1. \A p \in n + 1 .. n + K : p \in 1 .. n + K /\ p \notin 1 .. n
    BY <1>1, <1>2
  <2> QED
    BY <1>7, <1>9, <2>1
<1> QED
  BY <1>6, <1>12, <1>13 DEF ms, n, K, ps
------------------------------------------------------------------------------
(***************************************************************************)
(* Sorts of a range of the nodes.                                          *)
(***************************************************************************)
\* Rearrangements of the nodes that leave those outside lo + 1 .. hi in their places.
Within(ns, lo, hi) ==
  {f \in Bijection(1 .. Len(ns), 1 .. Len(ns)) :
     \A p \in 1 .. Len(ns) : IF p \in lo + 1 .. hi THEN f[p] \in lo + 1 .. hi ELSE f[p] = p}

LEMMA SortMoves ==
  ASSUME nodes \in Seq(Node), NEW lo \in Nat, NEW hi \in Nat, lo <= hi, hi <= Len(nodes),
         NEW key, NEW s \in Sorted(SubSeq(nodes, lo + 1, hi), key)
  PROVE  \E f \in Within(nodes, lo, hi) : WithRange(lo, s) = Moved(nodes, f)
<1> DEFINE n == Len(nodes)
           m == hi - lo
           sub == SubSeq(nodes, lo + 1, hi)
<1>1. /\ n \in Nat /\ m \in Nat /\ DOMAIN nodes = 1 .. n
      /\ DOMAIN sub = 1 .. m /\ \A k \in 1 .. m : sub[k] = nodes[lo + k]
  <2>1. n \in Nat /\ m \in Nat /\ DOMAIN nodes = 1 .. n
    OBVIOUS
  <2>2. \A k \in 1 .. m : lo + k \in 1 .. n /\ (lo + 1) + k - 1 = lo + k
    BY <2>1
  <2>3. sub = [k \in 1 .. m |-> nodes[(lo + 1) + k - 1]]
    BY <2>1, SMT
  <2> QED
    BY <2>1, <2>2, <2>3
<1> HIDE DEF sub
<1>2. PICK g \in Bijection(1 .. m, 1 .. m) : s = [k \in 1 .. m |-> sub[g[k]]]
  BY <1>1 DEF Sorted, sub
<1>3. /\ g \in [1 .. m -> 1 .. m]
      /\ \A i, j \in 1 .. m : g[i] = g[j] => i = j
      /\ \A k \in 1 .. m : \E i \in 1 .. m : g[i] = k
  <2>1. g \in Injection(1 .. m, 1 .. m) /\ g \in Surjection(1 .. m, 1 .. m)
    BY DEF Bijection
  <2> QED
    BY <2>1 DEF Injection, Surjection, IsInjective
<1> HIDE DEF m, n
<1>4. m = hi - lo
  BY DEF m
<1> DEFINE f == [p \in 1 .. n |-> IF p \in lo + 1 .. hi THEN lo + g[p - lo] ELSE p]
<1>5. \A p \in lo + 1 .. hi : p \in 1 .. n /\ p - lo \in 1 .. m /\ g[p - lo] \in 1 .. m
  <2> TAKE p \in lo + 1 .. hi
  <2>1. hi <= n
    BY DEF n
  <2>2. p \in 1 .. n /\ p - lo \in 1 .. m
    BY <1>1, <1>4, <2>1
  <2> QED
    BY <1>3, <2>2
<1>6. /\ \A p \in lo + 1 .. hi : f[p] = lo + g[p - lo] /\ f[p] \in lo + 1 .. hi
      /\ \A p \in 1 .. n : p \notin lo + 1 .. hi => f[p] = p
      /\ f \in [1 .. n -> 1 .. n]
  <2>1. \A p \in lo + 1 .. hi : lo + g[p - lo] \in lo + 1 .. hi /\ lo + g[p - lo] \in 1 .. n
    BY <1>1, <1>4, <1>5 DEF n
  <2> QED
    BY <1>5, <2>1
<1> HIDE DEF f
<1>7. \A p, q \in 1 .. n : f[p] = f[q] => p = q
  <2> TAKE p, q \in 1 .. n
  <2> HAVE f[p] = f[q]
  <2>1. CASE p \in lo + 1 .. hi /\ q \in lo + 1 .. hi
    <3> DEFINE u == g[p - lo]
               v == g[q - lo]
    <3>1. lo + u = lo + v /\ u \in 1 .. m /\ v \in 1 .. m
      BY <1>5, <1>6, <2>1
    <3>2. u = v
      <4> HIDE DEF u, v
      <4> QED
        BY <1>1, <3>1
    <3>3. p - lo = q - lo
      BY <1>3, <1>5, <2>1, <3>2
    <3> QED
      BY <1>1, <3>3
  <2>2. CASE ~(p \in lo + 1 .. hi /\ q \in lo + 1 .. hi)
    BY <1>6, <2>2
  <2> QED
    BY <2>1, <2>2
<1>8. \A q \in 1 .. n : \E p \in 1 .. n : f[p] = q
  <2> TAKE q \in 1 .. n
  <2>1. CASE q \in lo + 1 .. hi
    <3>1. PICK i \in 1 .. m : g[i] = q - lo
      BY <1>3, <1>5, <2>1
    <3>2. lo + i \in lo + 1 .. hi /\ (lo + i) - lo = i
      BY <1>1, <1>4
    <3>3. f[lo + i] = lo + g[i]
      BY <1>6, <3>2
    <3>4. lo + g[i] = q
      BY <1>1, <3>1
    <3> QED
      BY <1>5, <3>2, <3>3, <3>4
  <2>2. CASE q \notin lo + 1 .. hi
    BY <1>6, <2>2
  <2> QED
    BY <2>1, <2>2
<1>9. f \in Within(nodes, lo, hi)
  <2>1. f \in Bijection(1 .. n, 1 .. n)
    BY <1>6, <1>7, <1>8 DEF Bijection, Injection, Surjection, IsInjective
  <2> QED
    BY <1>6, <2>1 DEF Within, n
<1>10. WithRange(lo, s) = Moved(nodes, f)
  <2>1. Len(s) = m /\ \A k \in 1 .. m : s[k] = nodes[lo + g[k]]
    <3>1. DOMAIN s = 1 .. m /\ \A k \in 1 .. m : s[k] = sub[g[k]] /\ g[k] \in 1 .. m
      BY <1>2, <1>3
    <3>2. Len(s) = m
      BY <1>1, <1>2
    <3> QED
      BY <1>1, <3>1, <3>2
  <2>2. \A p \in 1 .. n : p > lo /\ p <= lo + m <=> p \in lo + 1 .. hi
    BY <1>1, <1>4
  <2>3. \A p \in 1 .. n : (IF p > lo /\ p <= lo + Len(s) THEN s[p - lo] ELSE nodes[p]) = nodes[f[p]]
    <3> TAKE p \in 1 .. n
    <3>1. CASE p \in lo + 1 .. hi
      BY <1>5, <1>6, <2>1, <2>2, <3>1
    <3>2. CASE p \notin lo + 1 .. hi
      BY <1>6, <2>1, <2>2, <3>2
    <3> QED
      BY <3>1, <3>2
  <2> QED
    BY <1>1, <2>3 DEF WithRange, Moved, n
<1> QED
  BY <1>9, <1>10

\* A slice that is not sorted is left as it is.
LEMMA NoMove ==
  ASSUME nodes \in Seq(Node), NEW lo \in Nat, NEW hi \in Nat, lo <= hi, hi <= Len(nodes)
  PROVE  \E f \in Within(nodes, lo, hi) :
           WithRange(lo, SubSeq(nodes, lo + 1, hi)) = Moved(nodes, f)
<1> DEFINE n == Len(nodes)
           m == hi - lo
           sub == SubSeq(nodes, lo + 1, hi)
           f == [p \in 1 .. n |-> p]
<1>1. /\ n \in Nat /\ m \in Nat /\ DOMAIN nodes = 1 .. n
      /\ Len(sub) = m /\ \A k \in 1 .. m : sub[k] = nodes[lo + k]
  <2>1. n \in Nat /\ m \in Nat /\ DOMAIN nodes = 1 .. n
    OBVIOUS
  <2>2. \A k \in 1 .. m : lo + k \in 1 .. n /\ (lo + 1) + k - 1 = lo + k
    BY <2>1
  <2>3. sub = [k \in 1 .. m |-> nodes[(lo + 1) + k - 1]]
    BY <2>1, SMT
  <2> QED
    BY <2>1, <2>2, <2>3
<1>2. f \in Within(nodes, lo, hi)
  <2>1. f \in Bijection(1 .. n, 1 .. n)
    BY DEF Bijection, Injection, Surjection, IsInjective
  <2> QED
    BY <2>1 DEF Within
<1>3. \A p \in 1 .. n : (IF p > lo /\ p <= lo + Len(sub) THEN sub[p - lo] ELSE nodes[p]) = nodes[f[p]]
  <2> TAKE p \in 1 .. n
  <2> HIDE DEF sub
  <2>1. CASE p > lo /\ p <= lo + m
    <3>1. p - lo \in 1 .. m /\ lo + (p - lo) = p
      BY <1>1, <2>1
    <3> QED
      BY <1>1, <2>1, <3>1
  <2>2. CASE ~(p > lo /\ p <= lo + m)
    BY <1>1, <2>2
  <2> QED
    BY <2>1, <2>2
<1>4. WithRange(lo, sub) = Moved(nodes, f)
  <2> HIDE DEF sub, f
  <2> QED
    BY <1>1, <1>3 DEF WithRange, Moved
<1> QED
  BY <1>2, <1>4

LeavesIn(ns) == {p \in 1 .. Len(ns) : ns[p].first = 0}

\* What a step of the build does to the nodes: it moves them, and appends branches.
Rearranged(ns, ms) ==
  \E f \in Bijection(1 .. Len(ns), 1 .. Len(ns)) :
    /\ Len(ms) >= Len(ns)
    /\ \A p \in 1 .. Len(ns) : ms[p] = ns[f[p]]
    /\ \A p \in Len(ns) + 1 .. Len(ms) : ms[p].first # 0

\* If the range lies on one side of the last leaf, the leaves stay the first of the nodes.
LEMMA LeavesStayFirst ==
  ASSUME NEW ns, ns \in Seq(Node), NEW lo \in Nat, NEW hi \in Nat, NEW l \in 0 .. Len(ns),
         hi <= l \/ l <= lo, LeavesIn(ns) = 1 .. l, NEW f \in Within(ns, lo, hi)
  PROVE  LeavesIn(Moved(ns, f)) = 1 .. l
<1>1. /\ Len(ns) \in Nat /\ Len(Moved(ns, f)) = Len(ns)
      /\ \A p \in 1 .. Len(ns) : Moved(ns, f)[p] = ns[f[p]] /\ f[p] \in 1 .. Len(ns)
  BY DEF Moved, Within, Bijection, Injection
<1>2. \A p \in 1 .. Len(ns) : f[p] \in 1 .. l <=> p \in 1 .. l
  <2> TAKE p \in 1 .. Len(ns)
  <2>1. f[p] \in 1 .. Len(ns) /\ IF p \in lo + 1 .. hi THEN f[p] \in lo + 1 .. hi ELSE f[p] = p
    BY <1>1 DEF Within
  <2> QED
    BY <1>1, <2>1
<1>3. \A p \in 1 .. Len(ns) : ns[p].first = 0 <=> p \in 1 .. l
  BY DEF LeavesIn
<1>4. \A p \in 1 .. Len(ns) : Moved(ns, f)[p].first = 0 <=> p \in 1 .. l
  BY <1>1, <1>2, <1>3
<1>5. 1 .. l \subseteq 1 .. Len(ns)
  BY <1>1
<1> QED
  BY <1>1, <1>4, <1>5 DEF LeavesIn

\* Rearranging behind d only keeps what is packed.
LEMMA WithinOrders ==
  ASSUME NEW ns, ns \in Seq(Node), NEW d \in 0 .. Len(ns), NEW lo \in Nat, NEW hi \in Nat, d <= lo
  PROVE  Within(ns, lo, hi) \subseteq Orders(ns, d)
<1>1. \A p \in 1 .. d : p \in 1 .. Len(ns) /\ p \notin lo + 1 .. hi
  OBVIOUS
<1> QED
  BY <1>1 DEF Within, Orders

\* Deleting a leaf, or any change of other members, leaves the shape alone.
LEMMA SameShape ==
  ASSUME NEW ns, NEW ms, NEW d, Packed(ns, d), ms \in Seq(Node), Len(ms) = Len(ns),
         \A p \in 1 .. Len(ns) : /\ ms[p].first = ns[p].first /\ ms[p].last = ns[p].last
                                 /\ ms[p].bounds = ns[p].bounds
  PROVE  Packed(ms, d) /\ LeavesIn(ms) = LeavesIn(ns)
<1> DEFINE n == Len(ns)
<1>1. n \in Nat /\ d \in 0 .. n /\ \A p \in 1 .. n : ns[p] \in Node
  BY DEF Packed
<1>2. \A b \in 1 .. n : \A c : HasChild(ms, b, c) <=> HasChild(ns, b, c)
  BY DEF HasChild
<1>3. ASSUME NEW b \in 1 .. n, ms[b].first # 0 PROVE BranchOver(ms, b, d)
  <2>1. BranchOver(ns, b, d) /\ ns[b].first # 0 /\ ns[b] \in Node
    BY <1>1, <1>3 DEF Packed
  <2>2. ns[b].first \in Nat /\ ns[b].last \in Nat /\ ns[b].last <= d
    BY <2>1 DEF Node, BranchOver
  <2>3. \A c \in ns[b].first .. ns[b].last : c \in 1 .. n
    BY <1>1, <2>1, <2>2
  <2> HIDE DEF n
  <2>4. \A c \in ns[b].first .. ns[b].last : Covers(ms[b].bounds, ms[c].bounds)
    <3> TAKE c \in ns[b].first .. ns[b].last
    <3>1. c \in 1 .. n /\ Covers(ns[b].bounds, ns[c].bounds)
      BY <2>1, <2>3 DEF BranchOver
    <3>2. ms[b].bounds = ns[b].bounds /\ ms[c].bounds = ns[c].bounds
      BY <3>1 DEF n
    <3> QED
      BY <3>1, <3>2
  <2>5. ms[b].first = ns[b].first /\ ms[b].last = ns[b].last
    BY DEF n
  <2> QED
    BY <2>1, <2>4, <2>5 DEF BranchOver
<1>4. ASSUME NEW c \in 1 .. d PROVE OneParent(ms, c)
  BY <1>2 DEF Packed, OneParent
<1> QED
  BY <1>1, <1>3, <1>4 DEF Packed, LeavesIn
------------------------------------------------------------------------------
(***************************************************************************)
(* The invariant.                                                          *)
(***************************************************************************)
\* How many of the nodes of the level being packed have got a parent.
InSlices == Least(number, slice * sliceCapacity(number, sliceCount(number)))

\* How many of all nodes have: all but the root in the end.
Parented == IF root # 0 THEN Len(nodes) - 1
            ELSE IF pc = "level" THEN begin
            ELSE IF pc = "slice" THEN begin + InSlices
            ELSE 0

\* Before the build there are leaves only.
NotBuilt == root = 0 /\ pc \in {"idle", "build", "body"} =>
              Len(nodes) <= MaxItems /\ LeavesIn(nodes) = 1 .. Len(nodes)

Built == root # 0 => /\ pc \in {"idle", "body"} /\ root = Len(nodes)
                     /\ LeavesIn(nodes) = 1 .. numItems

\* The level without parents is behind the leaves, or it is the leaves.
Building == pc \in {"level", "slice"} =>
              /\ root = 0 /\ number > 0 /\ LeavesIn(nodes) = 1 .. numItems
              /\ numItems <= Len(nodes)
              /\ (begin = 0 /\ number = numItems) \/ begin >= numItems
              /\ pc = "level" => begin + number = Len(nodes)
              /\ pc = "slice" => /\ begin + number <= Len(nodes) /\ slice <= sliceCount(number)
                                 /\ slice > 0 => Len(nodes) > begin + number

Locals ==
  /\ root \in Nat /\ numItems \in 0 .. MaxItems
  /\ begin \in Nat /\ number \in Nat /\ slice \in Nat
  /\ pc \in {"idle", "build", "level", "slice", "body"}
  /\ call \in Requests \cup {NoCall, [op |-> "iterate"]}
  /\ pc = "build" => root = 0 /\ nodes # << >>

TreeInv == nodes \in Seq(Node) /\ Locals /\ Packed(nodes, Parented)
           /\ NotBuilt /\ Built /\ Building

LEMMA InitTree == Init => TreeInv
<1> SUFFICES ASSUME Init PROVE TreeInv
  OBVIOUS
<1>1. nodes = << >> /\ Len(nodes) = 0 /\ nodes \in Seq(Node) /\ root = 0 /\ pc = "idle"
  BY DEF Init
<1>2. Locals
  BY TreeAssumption DEF Init, Locals
<1>3. Packed(nodes, Parented)
  <2>1. Parented = 0
    BY <1>1 DEF Parented
  <2> QED
    BY <1>1, <2>1 DEF Packed
<1>4. NotBuilt /\ Built /\ Building
  BY <1>1, TreeAssumption DEF NotBuilt, Built, Building, LeavesIn
<1> QED
  BY <1>1, <1>2, <1>3, <1>4 DEF TreeInv

\* What is the same in both states.
LEMMA TreeStutters == TreeInv /\ UNCHANGED vars => TreeInv'
  BY DEF TreeInv, vars, treeVars, buildVars, Locals, Packed, Parented, InSlices, NotBuilt,
         Built, Building

LEMMA InsertKeeps ==
  ASSUME TreeInv, MayInsert, NEW i \in Item, NEW e \in Envelope, insert(i, e)
  PROVE  TreeInv'
<1>1. /\ root = 0 /\ pc = "idle" /\ root' = 0 /\ pc' = "idle" /\ Len(nodes) < MaxItems
      /\ UNCHANGED << numItems, begin, number, slice, call >>
  BY DEF MayInsert, built, insert, buildVars
<1>2. CASE isNull(e)
  <2>1. nodes' = nodes
    BY <1>2 DEF insert
  <2> QED
    BY <1>1, <2>1 DEF TreeInv, Locals, Packed, Parented, InSlices, NotBuilt, Built, Building
<1>3. CASE ~isNull(e)
  <2> DEFINE n == Len(nodes)
             leaf == Leaf(i, e, n + 1)
  <2>1. nodes' = Append(nodes, leaf) /\ nodes \in Seq(Node) /\ n \in Nat /\ n < MaxItems
    BY <1>1, <1>3 DEF insert, TreeInv
  <2>2. leaf \in Node /\ leaf.first = 0
    <3>1. e \in Boxes /\ n + 1 \in 0 .. MaxItems
      BY <1>3, <2>1, TreeAssumption DEF isNull
    <3> QED
      BY <3>1 DEF Leaf, Node
  <2> HIDE DEF n, leaf
  <2>3. /\ nodes' \in Seq(Node) /\ Len(nodes') = n + 1
        /\ \A p \in 1 .. n : nodes'[p] = nodes[p]
        /\ nodes'[n + 1] = leaf
    BY <2>1, <2>2 DEF n
  <2>4. LeavesIn(nodes) = 1 .. n
    BY <1>1 DEF TreeInv, NotBuilt, n
  <2>5. \A p \in 1 .. n + 1 : nodes'[p].first = 0
    <3>1. \A p \in 1 .. n + 1 : p \in 1 .. n \/ p = n + 1
      BY <2>1
    <3>2. \A p \in 1 .. n : nodes[p].first = 0
      BY <2>4 DEF LeavesIn
    <3> QED
      BY <2>2, <2>3, <3>1, <3>2
  <2>6. LeavesIn(nodes') = 1 .. n + 1 /\ n + 1 <= MaxItems
    BY <2>1, <2>3, <2>5, TreeAssumption DEF LeavesIn
  <2>7. Packed(nodes', 0)
    BY <2>1, <2>3, <2>5 DEF Packed
  <2>8. Parented' = 0
    BY <1>1 DEF Parented
  <2>9. Locals'
    BY <1>1 DEF TreeInv, Locals
  <2> QED
    BY <1>1, <2>3, <2>6, <2>7, <2>8, <2>9 DEF TreeInv, NotBuilt, Built, Building
<1> QED
  BY <1>2, <1>3

LEMMA CallKeeps ==
  ASSUME TreeInv, NEW c \in Requests, Call(c)
  PROVE  TreeInv'
<1>1. /\ pc = "idle" /\ call' = c /\ UNCHANGED << nodes, root, numItems, begin, number, slice >>
      /\ pc' = IF built \/ nodes = << >> THEN "body" ELSE "build"
  BY DEF Call, treeVars, buildVars
<1>2. pc' \in {"body", "build"} /\ (pc' = "build" => root = 0 /\ nodes # << >>)
  BY <1>1 DEF built
<1>3. Parented' = Parented
  BY <1>1, <1>2 DEF Parented
<1>4. Locals'
  BY <1>1, <1>2 DEF TreeInv, Locals
<1>5. Packed(nodes', Parented')
  BY <1>1, <1>3 DEF TreeInv, Packed
<1>6. NotBuilt' /\ Built' /\ Building'
  BY <1>1, <1>2 DEF TreeInv, NotBuilt, Built, Building
<1> QED
  BY <1>1, <1>4, <1>5, <1>6 DEF TreeInv

LEMMA StartBuildKeeps ==
  ASSUME TreeInv, StartBuild
  PROVE  TreeInv'
<1>1. /\ pc = "build" /\ numItems' = Len(nodes) /\ begin' = 0 /\ number' = Len(nodes)
      /\ pc' = "level" /\ UNCHANGED << nodes, root, slice, call >>
  BY DEF StartBuild
<1>2. /\ root = 0 /\ Len(nodes) > 0 /\ Len(nodes) \in Nat /\ Len(nodes) <= MaxItems
      /\ LeavesIn(nodes) = 1 .. Len(nodes) /\ nodes \in Seq(Node)
  BY <1>1 DEF TreeInv, Locals, NotBuilt
<1>3. Parented = 0 /\ Parented' = 0
  BY <1>1, <1>2 DEF Parented
<1>4. Locals'
  BY <1>1, <1>2, TreeAssumption DEF TreeInv, Locals
<1>5. Packed(nodes', Parented')
  BY <1>1, <1>3 DEF TreeInv
<1>6. NotBuilt' /\ Built' /\ Building'
  BY <1>1, <1>2 DEF NotBuilt, Built, Building
<1> QED
  BY <1>1, <1>2, <1>4, <1>5, <1>6 DEF TreeInv

\* A range in which no node has a parent yet, and all or none are leaves, is rearranged.
LEMMA RearrangeKeeps ==
  ASSUME NEW ns, NEW d, Packed(ns, d), NEW l \in 0 .. Len(ns), LeavesIn(ns) = 1 .. l,
         NEW lo \in Nat, NEW hi \in Nat, d <= lo, hi <= l \/ l <= lo, NEW f \in Within(ns, lo, hi)
  PROVE  /\ Packed(Moved(ns, f), d) /\ Len(Moved(ns, f)) = Len(ns)
         /\ LeavesIn(Moved(ns, f)) = 1 .. l
<1>1. ns \in Seq(Node) /\ d \in 0 .. Len(ns)
  BY DEF Packed
<1>2. f \in Orders(ns, d)
  BY <1>1, WithinOrders
<1> QED
  BY <1>1, <1>2, MovedStaysPacked, LeavesStayFirst

LEMMA SortLevelKeeps ==
  ASSUME TreeInv, SortLevel
  PROVE  TreeInv' /\ Rearranged(nodes, nodes')
<1>1. /\ pc = "level" /\ number > 1 /\ slice' = 0 /\ pc' = "slice"
      /\ UNCHANGED << root, numItems, begin, number, call >>
  BY DEF SortLevel
<1> DEFINE l == numItems
           lo == begin
           hi == begin + number
<1>2. /\ root = 0 /\ LeavesIn(nodes) = 1 .. l /\ l \in 0 .. Len(nodes)
      /\ lo \in Nat /\ hi \in Nat /\ lo <= hi /\ hi = Len(nodes) /\ (hi <= l \/ l <= lo)
      /\ nodes \in Seq(Node) /\ Packed(nodes, lo) /\ number \in Nat /\ number > 0
  <2>1. Parented = begin
    BY <1>1 DEF TreeInv, Building, Parented
  <2>2. Len(nodes) \in Nat /\ numItems \in Nat
    BY DEF TreeInv, Locals
  <2> QED
    BY <1>1, <2>1, <2>2 DEF TreeInv, Building, Locals
<1>3. PICK s \in SortedX(SubSeq(nodes, lo + 1, hi)) : nodes' = WithRange(lo, s)
  BY DEF SortLevel
<1>4. PICK f \in Within(nodes, lo, hi) : nodes' = Moved(nodes, f)
  <2> DEFINE sub == SubSeq(nodes, lo + 1, hi)
             key == [k \in DOMAIN sub |-> getX(sub[k].bounds)]
  <2>1. s \in Sorted(sub, key) /\ hi <= Len(nodes)
    BY <1>2 DEF SortedX
  <2> HIDE DEF lo, hi, key
  <2>2. \E f \in Within(nodes, lo, hi) : WithRange(lo, s) = Moved(nodes, f)
    BY <1>2, <2>1, SortMoves
  <2> QED
    BY <1>3, <2>2
<1>5. /\ Packed(nodes', lo) /\ Len(nodes') = Len(nodes) /\ LeavesIn(nodes') = 1 .. l
  <2> HIDE DEF l, lo, hi
  <2>1. lo <= lo
    BY <1>2
  <2> QED
    BY <1>2, <1>4, <2>1, RearrangeKeeps
<1>6. Parented' = lo
  <2>1. slice' * sliceCapacity(number', sliceCount(number')) = 0
    <3>1. sliceCapacity(number, sliceCount(number)) \in Nat
      BY <1>1, <1>2, SlicesHoldLevel
    <3> QED
      BY <1>1, <3>1
  <2>2. InSlices' = 0
    BY <1>1, <1>2, <2>1 DEF InSlices, Least
  <2> QED
    BY <1>1, <1>2, <2>2 DEF Parented
<1>7. Locals'
  BY <1>1 DEF TreeInv, Locals
<1>8. NotBuilt' /\ Built' /\ Building'
  <2>1. sliceCount(number) \in Nat
    BY <1>1, <1>2, SlicesHoldLevel
  <2> QED
    BY <1>1, <1>2, <1>5, <2>1 DEF TreeInv, NotBuilt, Built, Building
<1>9. nodes' \in Seq(Node)
  BY <1>5 DEF Packed
<1>10. Rearranged(nodes, nodes')
  <2>1. f \in Bijection(1 .. Len(nodes), 1 .. Len(nodes)) /\ Len(nodes) \in Nat
    BY <1>2 DEF Within
  <2>2. \A p \in 1 .. Len(nodes) : nodes'[p] = nodes[f[p]]
    BY <1>4 DEF Moved
  <2> QED
    BY <1>5, <2>1, <2>2 DEF Rearranged
<1> QED
  BY <1>5, <1>6, <1>7, <1>8, <1>9, <1>10 DEF TreeInv

\* Appended parents are not leaves.
LEMMA ParentsAreNoLeaves ==
  ASSUME NEW ns, NEW ms, ns \in Seq(Node), ms \in Seq(Node), Len(ms) >= Len(ns),
         \A p \in 1 .. Len(ns) : ms[p] = ns[p],
         \A p \in Len(ns) + 1 .. Len(ms) : ms[p].first # 0
  PROVE  LeavesIn(ms) = LeavesIn(ns)
<1>1. Len(ns) \in Nat /\ Len(ms) \in Nat
  OBVIOUS
<1>2. \A p \in 1 .. Len(ms) : p \in 1 .. Len(ns) \/ p \in Len(ns) + 1 .. Len(ms)
  BY <1>1
<1>3. 1 .. Len(ns) \subseteq 1 .. Len(ms)
  BY <1>1
<1> QED
  BY <1>2, <1>3 DEF LeavesIn

LEMMA PackSliceKeeps ==
  ASSUME TreeInv, PackSlice
  PROVE  TreeInv' /\ Rearranged(nodes, nodes')
<1> DEFINE cap == sliceCapacity(number, sliceCount(number))
           l == numItems
           d == begin + Least(number, slice * cap)
           e == begin + Least(number, (slice + 1) * cap)
           inSlice == SubSeq(nodes, d + 1, e)
<1>1. /\ pc = "slice" /\ slice < sliceCount(number) /\ slice' = slice + 1 /\ pc' = "slice"
      /\ UNCHANGED << root, numItems, begin, number, call >>
  BY DEF PackSlice
<1>2. /\ root = 0 /\ number \in Nat /\ number > 0 /\ begin \in Nat /\ slice \in Nat
      /\ Len(nodes) \in Nat /\ nodes \in Seq(Node)
      /\ begin + number <= Len(nodes) /\ slice <= sliceCount(number)
      /\ slice > 0 => Len(nodes) > begin + number
      /\ LeavesIn(nodes) = 1 .. l /\ l \in 0 .. Len(nodes)
      /\ (begin = 0 /\ number = l) \/ begin >= l
  <2>1. Len(nodes) \in Nat /\ numItems \in Nat
    BY DEF TreeInv, Locals
  <2> QED
    BY <1>1, <2>1 DEF TreeInv, Building, Locals
<1>3. sliceCount(number) \in Nat /\ cap \in Nat /\ cap > 0
  BY <1>2, SlicesHoldLevel
<1> HIDE DEF cap
<1>4. /\ d \in Nat /\ e \in Nat /\ d <= e /\ begin <= d /\ e <= begin + number
      /\ slice = 0 => d < e
  <2> DEFINE u == slice * cap
             v == (slice + 1) * cap
  <2>1. u \in Nat /\ v = u + cap /\ (slice = 0 => u = 0)
    BY <1>2, <1>3, SMT
  <2> HIDE DEF u, v
  <2> QED
    BY <1>2, <1>3, <2>1 DEF Least, u, v
<1>5. Parented = d /\ Parented' = e
  <2>1. InSlices = Least(number, slice * cap) /\ InSlices' = Least(number, (slice + 1) * cap)
    BY <1>1 DEF InSlices, cap
  <2> QED
    BY <1>1, <1>2, <2>1 DEF Parented
<1> HIDE DEF d, e
<1>6. Packed(nodes, d)
  BY <1>5 DEF TreeInv
<1>7. PICK s \in IF TwoDimensional THEN SortedY(inSlice) ELSE {inSlice} :
        nodes' = WithRange(d, s) \o Parents(WithRange(d, s), d, e)
  BY DEF PackSlice, d, e, cap
<1>8. PICK f \in Within(nodes, d, e) : WithRange(d, s) = Moved(nodes, f)
  <2>1. e <= Len(nodes) /\ d <= e
    BY <1>2, <1>4
  <2>2. CASE TwoDimensional
    <3> DEFINE key == [k \in DOMAIN inSlice |-> getY(inSlice[k].bounds)]
    <3>1. s \in Sorted(inSlice, key)
      BY <1>7, <2>2 DEF SortedY
    <3> HIDE DEF key
    <3> QED
      BY <1>2, <1>4, <2>1, <3>1, SortMoves
  <2>3. CASE ~TwoDimensional
    <3>1. s = inSlice
      BY <1>7, <2>3
    <3> QED
      BY <1>2, <1>4, <2>1, <3>1, NoMove
  <2> QED
    BY <2>2, <2>3
<1> DEFINE level == Moved(nodes, f)
<1>9. \A p \in 1 .. Len(nodes) : level[p] = nodes[f[p]]
  BY DEF Moved
<1>10. Packed(level, d) /\ Len(level) = Len(nodes) /\ LeavesIn(level) = 1 .. l
  <2>1. e <= l \/ l <= d
    BY <1>2, <1>4
  <2>2. d <= d
    BY <1>4
  <2> HIDE DEF l
  <2> QED
    BY <1>2, <1>4, <1>6, <1>8, <2>1, <2>2, RearrangeKeeps
<1>11. nodes' = level \o Parents(level, d, e)
  BY <1>7, <1>8
<1> HIDE DEF level
<1>12. /\ Packed(nodes', e) /\ Len(nodes') = Len(nodes) + ParentsOfSlice(e - d)
       /\ \A p \in 1 .. Len(level) : nodes'[p] = level[p]
       /\ \A p \in Len(level) + 1 .. Len(nodes') : nodes'[p].first # 0
  <2>1. e \in d .. Len(level)
    BY <1>2, <1>4, <1>10
  <2> QED
    BY <1>10, <1>11, <2>1, ParentsPack
<1>13. ParentsOfSlice(e - d) \in Nat /\ (slice = 0 => ParentsOfSlice(e - d) > 0)
  <2> DEFINE a == e - d
  <2>1. a \in Nat /\ (slice = 0 => a > 0)
    BY <1>4
  <2> HIDE DEF a
  <2>2. nodeCapacity \in Nat /\ nodeCapacity > 0
    BY NodeCapacityAssumption
  <2>3. CeilDiv(a, nodeCapacity) \in Nat /\ (a > 0 => CeilDiv(a, nodeCapacity) > 0)
    BY <2>1, <2>2, CeilDivBounds
  <2> QED
    BY <2>1, <2>3 DEF ParentsOfSlice, a
<1>14. LeavesIn(nodes') = 1 .. l
  <2>1. level \in Seq(Node) /\ nodes' \in Seq(Node)
    BY <1>10, <1>12 DEF Packed
  <2>2. Len(nodes') >= Len(level)
    BY <1>2, <1>10, <1>12, <1>13
  <2> QED
    BY <1>10, <1>12, <2>1, <2>2, ParentsAreNoLeaves
<1>15. Locals'
  BY <1>1, <1>2 DEF TreeInv, Locals
<1>16. NotBuilt' /\ Built' /\ Building'
  <2>1. /\ Len(nodes') >= Len(nodes) /\ Len(nodes') \in Nat
        /\ Len(nodes') > begin + number
    BY <1>2, <1>12, <1>13
  <2> HIDE DEF l
  <2>2. numItems <= Len(nodes')
    BY <1>2, <2>1 DEF l
  <2>3. slice' \in Nat /\ slice' <= sliceCount(number)
    BY <1>1, <1>2, <1>3
  <2> QED
    BY <1>1, <1>2, <1>14, <2>1, <2>2, <2>3 DEF NotBuilt, Built, Building, l
<1>17. nodes' \in Seq(Node)
  BY <1>12 DEF Packed
<1>18. Rearranged(nodes, nodes')
  <2>1. f \in Bijection(1 .. Len(nodes), 1 .. Len(nodes))
    BY DEF Within
  <2>2. Len(nodes') >= Len(nodes)
    BY <1>2, <1>12, <1>13
  <2> QED
    BY <1>10, <1>12, <1>9, <2>1, <2>2 DEF Rearranged
<1> QED
  BY <1>5, <1>12, <1>15, <1>16, <1>17, <1>18 DEF TreeInv

LEMMA EndLevelKeeps ==
  ASSUME TreeInv, EndLevel
  PROVE  TreeInv'
<1>1. /\ pc = "slice" /\ slice = sliceCount(number) /\ begin' = begin + number
      /\ number' = Len(nodes) - (begin + number) /\ pc' = "level"
      /\ UNCHANGED << nodes, root, numItems, slice, call >>
  BY DEF EndLevel, treeVars
<1>2. /\ root = 0 /\ number \in Nat /\ number > 0 /\ begin \in Nat /\ slice \in Nat
      /\ Len(nodes) \in Nat /\ nodes \in Seq(Node) /\ numItems \in Nat
      /\ slice > 0 => Len(nodes) > begin + number
      /\ LeavesIn(nodes) = 1 .. numItems /\ numItems <= Len(nodes)
      /\ (begin = 0 /\ number = numItems) \/ begin >= numItems
  BY <1>1 DEF TreeInv, Building, Locals
<1>3. slice > 0
  BY <1>1, <1>2, SlicesHoldLevel
<1>4. Parented = begin + number
  <2> DEFINE u == slice * sliceCapacity(number, sliceCount(number))
  <2>1. u \in Nat /\ number <= u
    <3>1. /\ sliceCount(number) \in Nat /\ sliceCapacity(number, sliceCount(number)) \in Nat
          /\ number <= sliceCount(number) * sliceCapacity(number, sliceCount(number))
      BY <1>2, SlicesHoldLevel
    <3> QED
      BY <1>1, <3>1, SMT
  <2> HIDE DEF u
  <2>2. Least(number, u) = number
    BY <1>2, <2>1 DEF Least
  <2> QED
    BY <1>1, <1>2, <2>2 DEF Parented, InSlices, u
<1>5. Parented' = begin + number
  BY <1>1, <1>2 DEF Parented
<1>6. Packed(nodes', Parented')
  BY <1>1, <1>4, <1>5 DEF TreeInv
<1>7. Locals'
  BY <1>1, <1>2, <1>3 DEF TreeInv, Locals
<1>8. NotBuilt' /\ Built' /\ Building'
  BY <1>1, <1>2, <1>3 DEF NotBuilt, Built, Building
<1> QED
  BY <1>1, <1>2, <1>6, <1>7, <1>8 DEF TreeInv

LEMMA EndBuildKeeps ==
  ASSUME TreeInv, EndBuild
  PROVE  TreeInv'
<1>1. /\ pc = "level" /\ number = 1 /\ root' = Len(nodes) /\ pc' = "body"
      /\ UNCHANGED << nodes, numItems, begin, number, slice, call >>
  BY DEF EndBuild, buildVars
<1>2. /\ root = 0 /\ begin \in Nat /\ Len(nodes) \in Nat /\ nodes \in Seq(Node)
      /\ begin + 1 = Len(nodes) /\ LeavesIn(nodes) = 1 .. numItems
  BY <1>1 DEF TreeInv, Building, Locals
<1>3. Parented = begin /\ Parented' = begin
  BY <1>1, <1>2 DEF Parented
<1>4. Packed(nodes', Parented')
  BY <1>1, <1>3 DEF TreeInv
<1>5. Locals'
  BY <1>1, <1>2 DEF TreeInv, Locals
<1>6. NotBuilt' /\ Built' /\ Building'
  BY <1>1, <1>2 DEF NotBuilt, Built, Building
<1> QED
  BY <1>1, <1>2, <1>4, <1>5, <1>6 DEF TreeInv

\* What a call does to the nodes is to mark one of them.
LEMMA BodyKeeps ==
  ASSUME TreeInv, Body
  PROVE  TreeInv'
<1>1. /\ pc = "body" /\ pc' = "idle"
      /\ UNCHANGED << root, numItems, begin, number, slice, call >>
  BY DEF Body, buildVars
<1>2. nodes' = nodes \/ \E p : nodes' = [nodes EXCEPT ![p].deleted = TRUE]
  BY DEF Body
<1>3. nodes \in Seq(Node) /\ Packed(nodes, Parented)
  BY DEF TreeInv
<1>4. /\ nodes' \in Seq(Node) /\ Len(nodes') = Len(nodes)
      /\ \A q \in 1 .. Len(nodes) : /\ nodes'[q].first = nodes[q].first
                                    /\ nodes'[q].last = nodes[q].last
                                    /\ nodes'[q].bounds = nodes[q].bounds
  <2>1. CASE nodes' = nodes
    BY <1>3, <2>1
  <2>2. ASSUME NEW p, nodes' = [nodes EXCEPT ![p].deleted = TRUE]
        PROVE  /\ nodes' \in Seq(Node) /\ Len(nodes') = Len(nodes)
               /\ \A q \in 1 .. Len(nodes) : /\ nodes'[q].first = nodes[q].first
                                             /\ nodes'[q].last = nodes[q].last
                                             /\ nodes'[q].bounds = nodes[q].bounds
    <3> DEFINE n == Len(nodes)
    <3>1. n \in Nat /\ DOMAIN nodes = 1 .. n /\ \A q \in 1 .. n : nodes[q] \in Node
      BY <1>3
    <3>2. /\ DOMAIN nodes' = 1 .. n
          /\ \A q \in 1 .. n :
               nodes'[q] = IF q = p THEN [nodes[q] EXCEPT !.deleted = TRUE] ELSE nodes[q]
          /\ nodes' = [q \in 1 .. n |-> nodes'[q]]
      BY <2>2, <3>1
    <3> HIDE DEF n
    <3>3. \A q \in 1 .. n : /\ nodes'[q] \in Node
                            /\ nodes'[q].first = nodes[q].first
                            /\ nodes'[q].last = nodes[q].last
                            /\ nodes'[q].bounds = nodes[q].bounds
      BY <3>1, <3>2 DEF Node
    <3>4. nodes' \in Seq(Node) /\ Len(nodes') = n
      BY <3>1, <3>2, <3>3
    <3> QED
      BY <3>3, <3>4 DEF n
  <2> QED
    BY <1>2, <2>1, <2>2
<1>5. Parented' = Parented
  BY <1>1, <1>4 DEF Parented
<1>6. Packed(nodes', Parented') /\ LeavesIn(nodes') = LeavesIn(nodes)
  BY <1>3, <1>4, <1>5, SameShape
<1>7. Locals'
  BY <1>1 DEF TreeInv, Locals
<1>8. NotBuilt' /\ Built' /\ Building'
  BY <1>1, <1>4, <1>6 DEF TreeInv, NotBuilt, Built, Building
<1> QED
  BY <1>4, <1>6, <1>7, <1>8 DEF TreeInv

LEMMA IterateKeeps ==
  ASSUME TreeInv, iterate
  PROVE  TreeInv'
  BY DEF TreeInv, iterate, treeVars, buildVars, Locals, Packed, Parented, InSlices, NotBuilt,
         Built, Building

------------------------------------------------------------------------------
(***************************************************************************)
(* The theorems.                                                           *)
(***************************************************************************)
LEMMA TreeInvariance == Spec => []TreeInv
<1>1. TreeInv /\ [Next]_vars => TreeInv'
  <2> SUFFICES ASSUME TreeInv, [Next]_vars PROVE TreeInv'
    OBVIOUS
  <2>1. CASE UNCHANGED vars
    BY <2>1, TreeStutters
  <2>2. CASE MayInsert /\ \E i \in Item, e \in Envelope : insert(i, e)
    BY <2>2, InsertKeeps
  <2>3. CASE \E c \in Requests : Call(c)
    BY <2>3, CallKeeps
  <2>4. CASE StartBuild
    BY <2>4, StartBuildKeeps
  <2>5. CASE SortLevel
    BY <2>5, SortLevelKeeps
  <2>6. CASE PackSlice
    BY <2>6, PackSliceKeeps
  <2>7. CASE EndLevel
    BY <2>7, EndLevelKeeps
  <2>8. CASE EndBuild
    BY <2>8, EndBuildKeeps
  <2>9. CASE Body
    BY <2>9, BodyKeeps
  <2>10. CASE iterate
    BY <2>10, IterateKeeps
  <2> QED
    BY <2>1, <2>2, <2>3, <2>4, <2>5, <2>6, <2>7, <2>8, <2>9, <2>10 DEF Next
<1> QED
  BY InitTree, <1>1, PTL DEF Spec

LEMMA TreeTyped == TreeInv => TypeOK
<1> SUFFICES ASSUME TreeInv PROVE TypeOK
  OBVIOUS
<1>1. DOMAIN nodes = 1 .. Len(nodes) /\ \A p \in 1 .. Len(nodes) : nodes[p] \in Node
  BY DEF TreeInv
<1>2. ASSUME NEW p \in DOMAIN nodes
      PROVE  /\ nodes[p].item \in Item \cup {"none"} /\ nodes[p].deleted \in BOOLEAN
             /\ nodes[p].ordinal \in 0 .. MaxItems
             /\ ~isLeaf(nodes[p]) => ChildrenOf(p) # {} /\ ChildrenOf(p) \subseteq 1 .. p - 1
  <2>1. nodes[p] \in Node
    BY <1>1
  <2>2. ASSUME nodes[p].first # 0
        PROVE  ChildrenOf(p) # {} /\ ChildrenOf(p) \subseteq 1 .. p - 1
    <3>1. BranchOver(nodes, p, Parented)
      BY <1>1, <2>2 DEF TreeInv, Packed
    <3> DEFINE i == nodes[p].first
               j == nodes[p].last
    <3>2. i \in Nat /\ j \in Nat /\ i # 0 /\ i <= j /\ j < p /\ ChildrenOf(p) = i .. j
      BY <2>1, <2>2, <3>1 DEF BranchOver, Node, ChildrenOf
    <3>3. p \in Nat
      BY <1>1
    <3> HIDE DEF i, j
    <3> QED
      BY <3>2, <3>3
  <2> QED
    BY <2>1, <2>2 DEF Node, isLeaf
<1>3. root \in {0, Len(nodes)}
  BY DEF TreeInv, Built
<1> QED
  BY <1>2, <1>3 DEF TreeInv, Locals, TypeOK

LEMMA TreeShaped == TreeInv => TreeShape
<1> SUFFICES ASSUME TreeInv PROVE TreeShape
  OBVIOUS
<1> DEFINE n == Len(nodes)
<1>1. /\ n \in Nat /\ DOMAIN nodes = 1 .. n /\ \A p \in 1 .. n : nodes[p] \in Node
      /\ Packed(nodes, Parented)
  BY DEF TreeInv
<1>2. Branches = {b \in 1 .. n : nodes[b].first # 0} /\ Leaves = LeavesIn(nodes)
  BY <1>1 DEF Branches, Leaves, isLeaf, LeavesIn
<1>3. ASSUME NEW b \in Branches
      PROVE  /\ nodes[b].first \in Nat /\ nodes[b].last \in Nat
             /\ BranchOver(nodes, b, Parented)
  BY <1>1, <1>2 DEF Packed, Node
<1>4. ASSUME built, NEW p \in DOMAIN nodes \ {root}
      PROVE  Cardinality({b \in Branches : p \in ChildrenOf(b)}) = 1
  <2>1. root = n /\ Parented = n - 1 /\ p \in 1 .. n - 1
    BY <1>1, <1>4 DEF TreeInv, Built, Parented, built
  <2>2. PICK b \in 1 .. n : HasChild(nodes, b, p) /\ \A x \in 1 .. n : HasChild(nodes, x, p) => x = b
    BY <1>1, <2>1 DEF Packed, OneParent
  <2>3. \A x \in Branches : p \in ChildrenOf(x) <=> HasChild(nodes, x, p)
    <3> TAKE x \in Branches
    <3>1. nodes[x].first # 0 /\ nodes[x].first \in Nat /\ nodes[x].last \in Nat /\ p \in Nat
      BY <1>2, <1>3, <2>1
    <3> QED
      BY <3>1 DEF HasChild, ChildrenOf
  <2>4. b \in Branches
    BY <1>2, <2>2 DEF HasChild
  <2>5. {x \in Branches : p \in ChildrenOf(x)} = {b}
    BY <1>2, <2>2, <2>3, <2>4
  <2> QED
    BY <2>5, FS_Singleton
<1>5. ASSUME NEW b \in Branches
      PROVE  /\ Cardinality(ChildrenOf(b)) <= nodeCapacity
             /\ \A c \in ChildrenOf(b) :
                  expandToInclude(nodes[b].bounds, nodes[c].bounds) = nodes[b].bounds
  <2> DEFINE i == nodes[b].first
             j == nodes[b].last
  <2>1. i \in Nat /\ j \in Nat /\ i <= j /\ j < i + nodeCapacity
    BY <1>3 DEF BranchOver
  <2>2. Cardinality(ChildrenOf(b)) <= nodeCapacity
    <3>1. ChildrenOf(b) = i .. j
      BY DEF ChildrenOf
    <3> HIDE DEF i, j
    <3>2. Cardinality(i .. j) = j - i + 1
      BY <2>1, FS_Interval
    <3> QED
      BY <2>1, <3>1, <3>2, NodeCapacityAssumption
  <2>3. \A c \in ChildrenOf(b) : Covers(nodes[b].bounds, nodes[c].bounds)
    BY <1>3 DEF BranchOver, ChildrenOf
  <2> QED
    BY <2>2, <2>3 DEF Covers
<1>6. built => Leaves = 1 .. numItems
  BY <1>2 DEF TreeInv, Built, built
<1> QED
  BY <1>4, <1>5, <1>6 DEF TreeShape

(***************************************************************************)
(* The members, the locals of build() and the call in progress have their  *)
(* types: in particular the positions of a branch's children are those of  *)
(* nodes the code created before it.                                       *)
(***************************************************************************)
THEOREM TypeCorrect == Spec => []TypeOK
  BY TreeInvariance, TreeTyped, PTL

(***************************************************************************)
(* For every capacity, every number of items and every order in which the  *)
(* sorts may leave equal keys, a tree is one: all nodes but the root have  *)
(* one parent, none has too many children, the leaves are the first nodes  *)
(* of the vector, and a branch covers its children at every step of the    *)
(* build.                                                                  *)
(***************************************************************************)
THEOREM TreesAreTrees == Spec => []TreeShape
  BY TreeInvariance, TreeShaped, PTL

------------------------------------------------------------------------------
(***************************************************************************)
(* Sequences: what is in them, and whether more than once.                 *)
(***************************************************************************)
Has(s, x) == \E i \in 1 .. Len(s) : s[i] = x
Once(s) == \A i, j \in 1 .. Len(s) : s[i] = s[j] => i = j

\* What follows from all before it holds up to n.
LEMMA StepByStep ==
  ASSUME NEW n \in Nat, NEW G,
         \A m \in 1 .. n : (\A k \in 1 .. n : k < m => k \in G) => m \in G
  PROVE  \A m \in 1 .. n : m \in G
<1> DEFINE T == {m \in 1 .. n : m \notin G}
<1> SUFFICES ASSUME T # {} PROVE FALSE
  OBVIOUS
<1>1. PICK m \in T : \A y \in T : m <= y
  <2>1. T \in SUBSET Nat
    OBVIOUS
  <2> HIDE DEF T
  <2> QED
    BY <2>1, LeastElement
<1>2. \A k \in 1 .. n : k < m => k \in G
  BY <1>1
<1> QED
  BY <1>1, <1>2

LEMMA Joined ==
  ASSUME NEW S, NEW s \in Seq(S), NEW t \in Seq(S)
  PROVE  /\ s \o t \in Seq(S)
         /\ \A x : Has(s \o t, x) <=> Has(s, x) \/ Has(t, x)
         /\ Once(s) /\ Once(t) /\ (\A x : ~(Has(s, x) /\ Has(t, x))) => Once(s \o t)
<1> DEFINE n == Len(s)
           m == Len(t)
           u == s \o t
<1>1. /\ n \in Nat /\ m \in Nat /\ u \in Seq(S) /\ Len(u) = n + m
      /\ \A i \in 1 .. n : u[i] = s[i]
      /\ \A i \in 1 .. m : u[n + i] = t[i]
  OBVIOUS
<1> HIDE DEF n, m, u
<1>2. \A i \in 1 .. n + m : i \in 1 .. n \/ (i - n \in 1 .. m /\ n + (i - n) = i)
  BY <1>1
<1>3. \A i \in 1 .. n : i \in 1 .. n + m
  BY <1>1
<1>4. \A i \in 1 .. m : n + i \in 1 .. n + m
  BY <1>1
<1>5. ASSUME NEW x
      PROVE  Has(u, x) <=> Has(s, x) \/ Has(t, x)
  <2>1. /\ Has(u, x) <=> \E i \in 1 .. n + m : u[i] = x
        /\ Has(s, x) <=> \E i \in 1 .. n : s[i] = x
        /\ Has(t, x) <=> \E i \in 1 .. m : t[i] = x
    BY <1>1 DEF Has, n, m
  <2>2. ASSUME NEW i \in 1 .. n + m, u[i] = x
        PROVE  Has(s, x) \/ Has(t, x)
    <3>1. CASE i \in 1 .. n
      BY <1>1, <2>1, <2>2, <3>1
    <3>2. CASE i \notin 1 .. n
      <4>1. i - n \in 1 .. m /\ n + (i - n) = i
        BY <1>2, <3>2
      <4>2. u[n + (i - n)] = t[i - n]
        BY <1>1, <4>1
      <4> QED
        BY <2>1, <2>2, <4>1, <4>2
    <3> QED
      BY <3>1, <3>2
  <2>3. Has(s, x) => Has(u, x)
    BY <1>1, <1>3, <2>1
  <2>4. ASSUME NEW i \in 1 .. m, t[i] = x
        PROVE  Has(u, x)
    <3>1. n + i \in 1 .. n + m /\ u[n + i] = x
      BY <1>1, <1>4, <2>4
    <3> QED
      BY <2>1, <3>1
  <2> QED
    BY <2>1, <2>2, <2>3, <2>4
<1>6. ASSUME Once(s), Once(t), \A x : ~(Has(s, x) /\ Has(t, x)),
             NEW i \in 1 .. n + m, NEW j \in 1 .. n + m, u[i] = u[j]
      PROVE  i = j
  <2>1. CASE i \in 1 .. n /\ j \in 1 .. n
    BY <1>1, <1>6, <2>1 DEF Once, n
  <2>2. CASE i \in 1 .. n /\ j \notin 1 .. n
    <3>1. Has(s, u[i]) /\ Has(t, u[j])
      BY <1>1, <1>2, <2>2 DEF Has, n, m
    <3> QED
      BY <1>6, <3>1
  <2>3. CASE i \notin 1 .. n /\ j \in 1 .. n
    <3>1. Has(t, u[i]) /\ Has(s, u[j])
      BY <1>1, <1>2, <2>3 DEF Has, n, m
    <3> QED
      BY <1>6, <3>1
  <2>4. CASE i \notin 1 .. n /\ j \notin 1 .. n
    <3>1. /\ i - n \in 1 .. m /\ j - n \in 1 .. m
          /\ u[i] = t[i - n] /\ u[j] = t[j - n]
      BY <1>1, <1>2, <2>4
    <3>2. i - n = j - n
      BY <1>6, <3>1 DEF Once, m
    <3> QED
      BY <1>1, <1>6, <3>2
  <2> QED
    BY <2>1, <2>2, <2>3, <2>4
<1> QED
  BY <1>1, <1>5, <1>6 DEF u, Once

\* The function FlattenSeq is computed with.
Flattening(ss) ==
  CHOOSE f : f = [i \in 1 .. Len(ss) |-> IF i = 1 THEN ss[i] ELSE f[i - 1] \o ss[i]]

LEMMA FlatteningExists ==
  ASSUME NEW ss, Len(ss) \in Nat
  PROVE  \A i \in 1 .. Len(ss) :
           Flattening(ss)[i] = IF i = 1 THEN ss[i] ELSE Flattening(ss)[i - 1] \o ss[i]
<1> DEFINE n == Len(ss)
           Fits(m, f) == \A i \in 1 .. m : f[i] = IF i = 1 THEN ss[i] ELSE f[i - 1] \o ss[i]
           G == {m \in 1 .. n : \E f : Fits(m, f)}
<1>1. ASSUME NEW m \in 1 .. n, \A k \in 1 .. n : k < m => k \in G
      PROVE  m \in G
  <2>1. PICK f : m # 1 => Fits(m - 1, f)
    <3>1. CASE m = 1
      BY <3>1
    <3>2. CASE m # 1
      <4>1. m - 1 \in 1 .. n /\ m - 1 < m
        BY <3>2
      <4>2. m - 1 \in G
        BY <1>1, <4>1
      <4> QED
        BY <4>2
    <3> QED
      BY <3>1, <3>2
  <2> DEFINE g == [i \in 1 .. m |-> IF i # m THEN f[i] ELSE IF i = 1 THEN ss[i] ELSE f[i - 1] \o ss[i]]
  <2>2. \A i \in 1 .. m : g[i] = IF i = 1 THEN ss[i] ELSE f[i - 1] \o ss[i]
    <3> TAKE i \in 1 .. m
    <3>1. CASE i = m
      BY <3>1
    <3>2. CASE i # m
      <4>1. i \in 1 .. m - 1 /\ m # 1
        BY <3>2
      <4> QED
        BY <2>1, <3>2, <4>1
    <3> QED
      BY <3>1, <3>2
  <2>3. \A i \in 1 .. m : i # 1 => g[i - 1] = f[i - 1]
    <3> TAKE i \in 1 .. m
    <3> HAVE i # 1
    <3>1. i - 1 \in 1 .. m /\ i - 1 # m
      OBVIOUS
    <3> QED
      BY <3>1
  <2> HIDE DEF g
  <2>4. Fits(m, g)
    BY <2>2, <2>3
  <2> HIDE DEF Fits
  <2> QED
    BY <2>4
<1>2. \A m \in 1 .. n : m \in G
  <2> HIDE DEF G
  <2> QED
    BY <1>1, StepByStep
<1>3. CASE n = 0
  BY <1>3
<1>4. CASE n # 0
  <2>1. PICK f : Fits(n, f)
    <3>1. n \in 1 .. n
      BY <1>4
    <3> QED
      BY <1>2, <3>1
  <2> DEFINE h == [i \in 1 .. n |-> f[i]]
  <2>2. h = [i \in 1 .. n |-> IF i = 1 THEN ss[i] ELSE h[i - 1] \o ss[i]]
    <3>1. \A i \in 1 .. n : h[i] = IF i = 1 THEN ss[i] ELSE h[i - 1] \o ss[i]
      <4> TAKE i \in 1 .. n
      <4>1. i # 1 => i - 1 \in 1 .. n
        OBVIOUS
      <4>2. i # 1 => h[i - 1] = f[i - 1]
        BY <4>1
      <4> QED
        BY <2>1, <4>2
    <3>2. h = [i \in 1 .. n |-> h[i]]
      OBVIOUS
    <3> HIDE DEF h
    <3> QED
      BY <3>1, <3>2
  <2> HIDE DEF h
  <2> DEFINE g == Flattening(ss)
  <2>3. g = [i \in 1 .. n |-> IF i = 1 THEN ss[i] ELSE g[i - 1] \o ss[i]]
    BY <2>2 DEF Flattening
  <2> HIDE DEF g
  <2>4. \A i \in 1 .. n : g[i] = IF i = 1 THEN ss[i] ELSE g[i - 1] \o ss[i]
    BY <2>3
  <2> QED
    BY <2>4 DEF g
<1> QED
  BY <1>3, <1>4

\* Flattened, sequences have the same elements; and these once if every sequence
\* has them once and no two have any in common.
LEMMA Flattened ==
  ASSUME NEW S, NEW ss \in Seq(Seq(S))
  PROVE  /\ FlattenSeq(ss) \in Seq(S)
         /\ \A x : Has(FlattenSeq(ss), x) <=> \E k \in 1 .. Len(ss) : Has(ss[k], x)
         /\ /\ \A k \in 1 .. Len(ss) : Once(ss[k])
            /\ \A j, k \in 1 .. Len(ss) : \A x : Has(ss[j], x) /\ Has(ss[k], x) => j = k
            => Once(FlattenSeq(ss))
<1> DEFINE n == Len(ss)
           f == Flattening(ss)
           Apart == /\ \A k \in 1 .. n : Once(ss[k])
                    /\ \A j, k \in 1 .. n : \A x : Has(ss[j], x) /\ Has(ss[k], x) => j = k
           Good(m) == /\ f[m] \in Seq(S)
                      /\ \A x : Has(f[m], x) <=> \E k \in 1 .. m : Has(ss[k], x)
                      /\ Apart => Once(f[m])
           G == {m \in 1 .. n : Good(m)}
<1>1. n \in Nat /\ \A k \in 1 .. n : ss[k] \in Seq(S)
  OBVIOUS
<1>2. \A i \in 1 .. n : f[i] = IF i = 1 THEN ss[i] ELSE f[i - 1] \o ss[i]
  BY <1>1, FlatteningExists
<1>3. CASE n = 0
  <2>1. FlattenSeq(ss) = ss /\ ss \in Seq(S)
    BY <1>3 DEF FlattenSeq
  <2>2. \A x : ~Has(ss, x)
    BY <1>3 DEF Has
  <2>3. Once(ss)
    BY <1>3 DEF Once
  <2> QED
    BY <1>3, <2>1, <2>2, <2>3
<1>4. CASE n # 0
  <2>1. FlattenSeq(ss) = f[n]
    BY <1>4 DEF FlattenSeq, Flattening
  <2> HIDE DEF f, n
  <2>2. ASSUME NEW m \in 1 .. n, \A k \in 1 .. n : k < m => k \in G
        PROVE  m \in G
    <3>1. CASE m = 1
      <4>1. f[m] = ss[1] /\ 1 \in 1 .. n
        BY <1>2, <3>1
      <4>2. \A k \in 1 .. m : k = 1
        BY <3>1
      <4>3. 1 \in 1 .. m
        BY <3>1
      <4>4. \A x : Has(f[m], x) <=> \E k \in 1 .. m : Has(ss[k], x)
        BY <4>1, <4>2, <4>3
      <4> QED
        BY <1>1, <4>1, <4>4
    <3>2. CASE m # 1
      <4>1. m - 1 \in 1 .. n /\ m - 1 < m
        BY <1>1, <3>2
      <4>2. Good(m - 1)
        BY <2>2, <4>1
      <4> DEFINE s == f[m - 1]
                 t == ss[m]
      <4>3. s \in Seq(S) /\ t \in Seq(S) /\ f[m] = s \o t
        BY <1>1, <1>2, <3>2, <4>2
      <4>4. \A x : Has(s, x) <=> \E k \in 1 .. m - 1 : Has(ss[k], x)
        BY <4>2
      <4>5. Apart => Once(s)
        BY <4>2
      <4>6. \A k \in 1 .. m : k \in 1 .. m - 1 \/ k = m
        OBVIOUS
      <4>7. (\A k \in 1 .. m - 1 : k \in 1 .. m /\ k \in 1 .. n /\ k # m) /\ m \in 1 .. m
        BY <1>1
      <4> HIDE DEF s
      <4>8. /\ s \o t \in Seq(S) /\ \A x : Has(s \o t, x) <=> Has(s, x) \/ Has(t, x)
            /\ Once(s) /\ Once(t) /\ (\A x : ~(Has(s, x) /\ Has(t, x))) => Once(s \o t)
        BY <4>3, Joined
      <4>9. \A x : Has(f[m], x) <=> \E k \in 1 .. m : Has(ss[k], x)
        BY <4>3, <4>4, <4>6, <4>7, <4>8
      <4>10. ASSUME Apart PROVE Once(f[m])
        <5>1. \A x : ~(Has(s, x) /\ Has(t, x))
          BY <4>4, <4>7, <4>10
        <5>2. Once(t)
          BY <4>10
        <5> QED
          BY <4>3, <4>5, <4>8, <4>10, <5>1, <5>2
      <4> QED
        BY <4>3, <4>8, <4>9, <4>10
    <3> QED
      BY <3>1, <3>2
  <2>3. n \in G
    <3>1. n \in 1 .. n
      BY <1>1, <1>4
    <3> HIDE DEF G
    <3> QED
      BY <1>1, <2>2, <3>1, StepByStep
  <2> QED
    BY <2>1, <2>3 DEF n
<1> QED
  BY <1>3, <1>4

------------------------------------------------------------------------------
(***************************************************************************)
(* What a traversal lists.                                                 *)
(***************************************************************************)
\* A tree that is built.
Tree ==
  LET n == Len(nodes)
  IN  /\ n \in Nat /\ n >= 1 /\ root = n /\ DOMAIN nodes = 1 .. n /\ numItems \in 1 .. n
      /\ \A p \in 1 .. n : nodes[p] \in Node /\ (isLeaf(nodes[p]) <=> p \in 1 .. numItems)
      /\ \A b \in 1 .. n : ~isLeaf(nodes[b]) =>
           /\ nodes[b].first \in 1 .. n /\ nodes[b].last \in 1 .. n
           /\ nodes[b].first <= nodes[b].last /\ nodes[b].last < b
           /\ \A c \in nodes[b].first .. nodes[b].last : Covers(nodes[b].bounds, nodes[c].bounds)
      /\ \A c \in 1 .. n - 1 : OneParent(nodes, c)

LEMMA BuiltIsTree ==
  ASSUME TreeInv, root # 0
  PROVE  Tree
<1> DEFINE n == Len(nodes)
<1>1. /\ n \in Nat /\ root = n /\ root \in Nat /\ DOMAIN nodes = 1 .. n /\ numItems \in Nat
      /\ \A p \in 1 .. n : nodes[p] \in Node
      /\ LeavesIn(nodes) = 1 .. numItems
      /\ Packed(nodes, n - 1)
  BY DEF TreeInv, Locals, Built, Parented
<1> HIDE DEF n
<1>2. n >= 1
  BY <1>1
<1>3. \A p \in 1 .. n : isLeaf(nodes[p]) <=> p \in 1 .. numItems
  BY <1>1 DEF isLeaf, LeavesIn, n
<1>4. \A c \in 1 .. n - 1 : OneParent(nodes, c)
  BY <1>1 DEF Packed
<1>5. ASSUME NEW b \in 1 .. n, ~isLeaf(nodes[b])
      PROVE  /\ nodes[b].first \in 1 .. n /\ nodes[b].last \in 1 .. n
             /\ nodes[b].first <= nodes[b].last /\ nodes[b].last < b
             /\ \A c \in nodes[b].first .. nodes[b].last : Covers(nodes[b].bounds, nodes[c].bounds)
  <2>1. BranchOver(nodes, b, n - 1)
    BY <1>1, <1>5 DEF Packed, isLeaf, n
  <2>2. nodes[b].first \in Nat /\ nodes[b].last \in Nat /\ nodes[b].first # 0
    BY <1>1, <1>5 DEF Node, isLeaf
  <2>3. /\ nodes[b].first <= nodes[b].last /\ nodes[b].last < b /\ nodes[b].last <= n - 1
        /\ \A c \in nodes[b].first .. nodes[b].last : Covers(nodes[b].bounds, nodes[c].bounds)
    BY <2>1 DEF BranchOver
  <2> QED
    BY <1>1, <2>2, <2>3
<1>6. numItems \in 1 .. n
  <2>1. 1 .. numItems \subseteq 1 .. n
    BY <1>1 DEF LeavesIn, n
  <2>2. numItems # 0
    <3> SUFFICES ASSUME numItems = 0 PROVE FALSE
      OBVIOUS
    <3>1. 1 \in 1 .. n /\ ~isLeaf(nodes[1])
      BY <1>2, <1>3
    <3>2. nodes[1].first \in 1 .. n /\ nodes[1].last \in 1 .. n
          /\ nodes[1].first <= nodes[1].last /\ nodes[1].last < 1
      BY <1>5, <3>1
    <3> QED
      BY <3>2
  <2>3. numItems \in 1 .. numItems
    BY <1>1, <2>2
  <2> QED
    BY <2>1, <2>3
<1> QED
  BY <1>1, <1>2, <1>3, <1>4, <1>5, <1>6 DEF Tree, n

\* The traversals of the children of p, and that of p, where f has those of all nodes.
Kids(env, f, p) ==
  [k \in 1 .. nodes[p].last - nodes[p].first + 1 |->
     LET child == nodes[p].first + k - 1
     IN  IF intersects(nodes[child].bounds, env) THEN f[child] ELSE << >>]
Listed(env, wanted, f, p) ==
  IF isLeaf(nodes[p]) THEN IF p \in wanted THEN << p >> ELSE << >>
                      ELSE FlattenSeq(Kids(env, f, p))

Traversal(env, wanted) ==
  CHOOSE f : f = [p \in DOMAIN nodes |-> Listed(env, wanted, f, p)]

LEMMA TraversalsOfAll ==
  ASSUME NEW env, NEW wanted
  PROVE  LeavesBelow(env, wanted) = Traversal(env, wanted)[root]
  BY DEF LeavesBelow, Traversal, Listed, Kids

\* Only the traversals of nodes before p matter.
LEMMA KidsAgree ==
  ASSUME Tree, NEW env, NEW wanted, NEW f, NEW g, NEW p \in 1 .. Len(nodes),
         \A c \in 1 .. Len(nodes) : c < p => f[c] = g[c]
  PROVE  Listed(env, wanted, f, p) = Listed(env, wanted, g, p)
<1>1. CASE isLeaf(nodes[p])
  BY <1>1 DEF Listed
<1>2. CASE ~isLeaf(nodes[p])
  <2> DEFINE i == nodes[p].first
             j == nodes[p].last
             n == Len(nodes)
  <2>1. i \in 1 .. n /\ j \in 1 .. n /\ i <= j /\ j < p /\ n \in Nat
    BY <1>2 DEF Tree
  <2>2. ASSUME NEW k \in 1 .. j - i + 1
        PROVE  f[i + k - 1] = g[i + k - 1]
    <3> HIDE DEF i, j, n
    <3>1. i + k - 1 \in 1 .. n /\ i + k - 1 < p
      BY <2>1
    <3> QED
      BY <3>1 DEF n
  <2>3. Kids(env, f, p) = Kids(env, g, p)
    BY <2>2 DEF Kids
  <2> QED
    BY <2>3 DEF Listed
<1> QED
  BY <1>1, <1>2

LEMMA TraversalExists ==
  ASSUME Tree, NEW env, NEW wanted
  PROVE  \A p \in 1 .. Len(nodes) :
           Traversal(env, wanted)[p] = Listed(env, wanted, Traversal(env, wanted), p)
<1> DEFINE n == Len(nodes)
           Fits(m, f) == \A p \in 1 .. m : f[p] = Listed(env, wanted, f, p)
           G == {m \in 1 .. n : \E f : Fits(m, f)}
<1>1. n \in Nat /\ n >= 1 /\ DOMAIN nodes = 1 .. n
  BY DEF Tree
<1>2. ASSUME NEW m \in 1 .. n, \A k \in 1 .. n : k < m => k \in G
      PROVE  m \in G
  <2>1. PICK f : m # 1 => Fits(m - 1, f)
    <3>1. CASE m = 1
      BY <3>1
    <3>2. CASE m # 1
      <4>1. m - 1 \in 1 .. n /\ m - 1 < m
        BY <3>2
      <4>2. m - 1 \in G
        BY <1>2, <4>1
      <4> QED
        BY <4>2
    <3> QED
      BY <3>1, <3>2
  <2> DEFINE g == [p \in 1 .. m |-> IF p # m THEN f[p] ELSE Listed(env, wanted, f, m)]
  <2>2. \A p \in 1 .. m : (p # m => g[p] = f[p]) /\ (p = m => g[p] = Listed(env, wanted, f, m))
    OBVIOUS
  <2> HIDE DEF g
  <2>3. ASSUME NEW p \in 1 .. m
        PROVE  g[p] = Listed(env, wanted, g, p)
    <3>1. p \in 1 .. n /\ \A c \in 1 .. n : c < p => c \in 1 .. m /\ c # m
      BY <1>1
    <3>2. \A c \in 1 .. n : c < p => f[c] = g[c]
      BY <2>2, <3>1
    <3>3. Listed(env, wanted, f, p) = Listed(env, wanted, g, p)
      BY <3>1, <3>2, KidsAgree
    <3>4. g[p] = Listed(env, wanted, f, p)
      <4>1. CASE p = m
        BY <2>2, <4>1
      <4>2. CASE p # m
        <5>1. p \in 1 .. m - 1 /\ m # 1
          BY <4>2
        <5> QED
          BY <2>1, <2>2, <4>2, <5>1
      <4> QED
        BY <4>1, <4>2
    <3> QED
      BY <3>3, <3>4
  <2> QED
    BY <2>3
<1>3. PICK f : Fits(n, f)
  <2>1. n \in G
    <3>1. n \in 1 .. n
      BY <1>1
    <3> HIDE DEF G
    <3> QED
      BY <1>1, <1>2, <3>1, StepByStep
  <2> QED
    BY <2>1
<1> DEFINE h == [p \in 1 .. n |-> f[p]]
<1>4. \A p \in 1 .. n : h[p] = Listed(env, wanted, h, p)
  <2> TAKE p \in 1 .. n
  <2>1. \A c \in 1 .. n : c < p => f[c] = h[c]
    OBVIOUS
  <2>2. h[p] = f[p]
    OBVIOUS
  <2> HIDE DEF h
  <2>3. Listed(env, wanted, f, p) = Listed(env, wanted, h, p)
    BY <2>1, KidsAgree
  <2> QED
    BY <1>3, <2>2, <2>3
<1>5. h = [p \in DOMAIN nodes |-> Listed(env, wanted, h, p)]
  <2>1. h = [p \in 1 .. n |-> h[p]]
    OBVIOUS
  <2> HIDE DEF h
  <2> QED
    BY <1>1, <1>4, <2>1
<1> HIDE DEF h
<1> DEFINE T == Traversal(env, wanted)
<1>6. T = [p \in DOMAIN nodes |-> Listed(env, wanted, T, p)]
  BY <1>5 DEF Traversal
<1> HIDE DEF T
<1>7. \A p \in 1 .. n : T[p] = Listed(env, wanted, T, p)
  BY <1>1, <1>6
<1> QED
  BY <1>7 DEF T

\* What p lists is positions: its own, or what those children list that meet env.
LEMMA TraversalLists ==
  ASSUME Tree, NEW env, NEW wanted
  PROVE  \A p \in 1 .. Len(nodes) :
           /\ Traversal(env, wanted)[p] \in Seq(1 .. Len(nodes))
           /\ isLeaf(nodes[p]) => \A x : Has(Traversal(env, wanted)[p], x) <=> x = p /\ p \in wanted
           /\ ~isLeaf(nodes[p]) => \A x :
                Has(Traversal(env, wanted)[p], x) <=>
                  \E c \in nodes[p].first .. nodes[p].last :
                    intersects(nodes[c].bounds, env) /\ Has(Traversal(env, wanted)[c], x)
           /\ isLeaf(nodes[p]) => Once(Traversal(env, wanted)[p])
           /\ (/\ ~isLeaf(nodes[p])
               /\ \A c \in nodes[p].first .. nodes[p].last : Once(Traversal(env, wanted)[c])
               /\ \A c, d \in nodes[p].first .. nodes[p].last : \A x :
                    Has(Traversal(env, wanted)[c], x) /\ Has(Traversal(env, wanted)[d], x) => c = d)
              => Once(Traversal(env, wanted)[p])
<1> DEFINE n == Len(nodes)
           P == 1 .. n
           T == Traversal(env, wanted)
           Leafy(p) == /\ T[p] \in Seq(P) /\ Once(T[p])
                       /\ \A x : Has(T[p], x) <=> x = p /\ p \in wanted
           Kid(p, c) == c \in nodes[p].first .. nodes[p].last
           Branchy(p) ==
             /\ T[p] \in Seq(P)
             /\ \A x : Has(T[p], x) <=>
                  \E c \in nodes[p].first .. nodes[p].last :
                    intersects(nodes[c].bounds, env) /\ Has(T[c], x)
             /\ (/\ \A c \in nodes[p].first .. nodes[p].last : Once(T[c])
                 /\ \A c, d \in nodes[p].first .. nodes[p].last : \A x :
                      Has(T[c], x) /\ Has(T[d], x) => c = d)
                => Once(T[p])
           G == {p \in P : IF isLeaf(nodes[p]) THEN Leafy(p) ELSE Branchy(p)}
<1>1. n \in Nat /\ \A p \in P : T[p] = Listed(env, wanted, T, p)
  BY TraversalExists DEF Tree
<1> HIDE DEF T
<1>2. ASSUME NEW p \in P, isLeaf(nodes[p])
      PROVE  Leafy(p)
  <2>1. T[p] = IF p \in wanted THEN << p >> ELSE << >>
    BY <1>1, <1>2 DEF Listed
  <2>2. CASE p \in wanted
    <3>1. T[p] = << p >>
      BY <2>1, <2>2
    <3>2. Len(<< p >>) = 1 /\ << p >>[1] = p /\ << p >> \in Seq(P)
      OBVIOUS
    <3>3. \A x : Has(<< p >>, x) <=> x = p
      BY <3>2 DEF Has
    <3>4. Once(<< p >>)
      BY <3>2 DEF Once
    <3> QED
      BY <2>2, <3>1, <3>2, <3>3, <3>4
  <2>3. CASE p \notin wanted
    <3>1. T[p] = << >>
      BY <2>1, <2>3
    <3>2. Len(<< >>) = 0 /\ << >> \in Seq(P)
      OBVIOUS
    <3>3. (\A x : ~Has(<< >>, x)) /\ Once(<< >>)
      BY <3>2 DEF Has, Once
    <3> QED
      BY <2>3, <3>1, <3>2, <3>3
  <2> QED
    BY <2>2, <2>3
<1>3. ASSUME NEW p \in P, ~isLeaf(nodes[p]), \A k \in P : k < p => T[k] \in Seq(P)
      PROVE  Branchy(p)
  <2> DEFINE i == nodes[p].first
             j == nodes[p].last
             ss == Kids(env, T, p)
             m == j - i + 1
  <2>1. i \in P /\ j \in P /\ i <= j /\ j < p
    BY <1>3 DEF Tree
  <2>2. T[p] = FlattenSeq(ss)
    BY <1>1, <1>3 DEF Listed
  <2>3. ss = [k \in 1 .. m |-> IF intersects(nodes[i + k - 1].bounds, env) THEN T[i + k - 1] ELSE << >>]
    BY DEF Kids
  <2>4. m \in Nat /\ \A k \in 1 .. m : i + k - 1 \in i .. j /\ i + k - 1 \in P /\ i + k - 1 < p
    BY <2>1
  <2>5. \A c \in i .. j : c - i + 1 \in 1 .. m /\ i + (c - i + 1) - 1 = c
    BY <2>1
  <2> HIDE DEF m, i, j
  <2>6. ss \in Seq(Seq(P)) /\ Len(ss) = m
    <3>1. \A k \in 1 .. m : (IF intersects(nodes[i + k - 1].bounds, env) THEN T[i + k - 1] ELSE << >>) \in Seq(P)
      <4> TAKE k \in 1 .. m
      <4>1. T[i + k - 1] \in Seq(P)
        BY <1>3, <2>4
      <4>2. << >> \in Seq(P)
        OBVIOUS
      <4> QED
        BY <4>1, <4>2
    <3> DEFINE Q == Seq(P)
    <3>2. ss \in [1 .. m -> Q]
      BY <2>3, <3>1
    <3> HIDE DEF Q, ss
    <3>3. ss \in Seq(Q) /\ Len(ss) = m
      BY <2>4, <3>2
    <3> QED
      BY <3>3 DEF Q
  <2>7. \A x : ~Has(<< >>, x)
    BY DEF Has
  <2>8. \A k \in 1 .. m : \A x : Has(ss[k], x) <=>
          intersects(nodes[i + k - 1].bounds, env) /\ Has(T[i + k - 1], x)
    BY <2>3, <2>7
  <2>9. Once(<< >>)
    BY DEF Once
  <2>10. \A k \in 1 .. m : Once(T[i + k - 1]) => Once(ss[k])
    BY <2>3, <2>9
  <2> HIDE DEF ss, P
  <2>11. /\ FlattenSeq(ss) \in Seq(P)
         /\ \A x : Has(FlattenSeq(ss), x) <=> \E k \in 1 .. m : Has(ss[k], x)
         /\ (/\ \A k \in 1 .. m : Once(ss[k])
             /\ \A k, l \in 1 .. m : \A x : Has(ss[k], x) /\ Has(ss[l], x) => k = l)
            => Once(FlattenSeq(ss))
    BY <2>6, Flattened
  <2>12. ASSUME NEW x
         PROVE  Has(T[p], x) <=> \E c \in i .. j : intersects(nodes[c].bounds, env) /\ Has(T[c], x)
    <3>1. ASSUME NEW k \in 1 .. m, Has(ss[k], x)
          PROVE  \E c \in i .. j : intersects(nodes[c].bounds, env) /\ Has(T[c], x)
      BY <2>4, <2>8, <3>1
    <3>2. ASSUME NEW c \in i .. j, intersects(nodes[c].bounds, env), Has(T[c], x)
          PROVE  \E k \in 1 .. m : Has(ss[k], x)
      <4>1. c - i + 1 \in 1 .. m /\ i + (c - i + 1) - 1 = c
        BY <2>5
      <4>2. Has(ss[c - i + 1], x)
        BY <2>8, <3>2, <4>1
      <4> QED
        BY <4>1, <4>2
    <3> QED
      BY <2>2, <2>11, <3>1, <3>2
  <2>13. ASSUME \A c \in i .. j : Once(T[c]),
                \A c, d \in i .. j : \A x : Has(T[c], x) /\ Has(T[d], x) => c = d
         PROVE  Once(T[p])
    <3>1. \A k \in 1 .. m : Once(ss[k])
      BY <2>4, <2>10, <2>13
    <3>2. ASSUME NEW k \in 1 .. m, NEW l \in 1 .. m, NEW x, Has(ss[k], x), Has(ss[l], x)
          PROVE  k = l
      <4>1. i + k - 1 = i + l - 1
        BY <2>4, <2>8, <2>13, <3>2
      <4> QED
        BY <2>1, <4>1 DEF P
    <3> QED
      BY <2>2, <2>11, <3>1, <3>2
  <2>14. T[p] \in Seq(P)
    BY <2>2, <2>11
  <2> QED
    BY <2>12, <2>13, <2>14 DEF i, j
<1>4. \A p \in P : p \in G
  <2>1. ASSUME NEW p \in P, \A k \in P : k < p => k \in G
        PROVE  p \in G
    <3>1. \A k \in P : k < p => T[k] \in Seq(P)
      BY <2>1
    <3> QED
      BY <1>2, <1>3, <3>1
  <2> HIDE DEF G
  <2> QED
    BY <1>1, <2>1, StepByStep
<1> QED
  BY <1>4 DEF T

LEMMA LeafLists ==
  ASSUME Tree, NEW env, NEW wanted, NEW p \in 1 .. Len(nodes), isLeaf(nodes[p])
  PROVE  /\ \A x : Has(Traversal(env, wanted)[p], x) <=> x = p /\ p \in wanted
         /\ Once(Traversal(env, wanted)[p])
BY TraversalLists

LEMMA BranchLists ==
  ASSUME Tree, NEW env, NEW wanted, NEW p \in 1 .. Len(nodes), ~isLeaf(nodes[p])
  PROVE  \A x : Has(Traversal(env, wanted)[p], x) <=>
           \E c \in nodes[p].first .. nodes[p].last :
             intersects(nodes[c].bounds, env) /\ Has(Traversal(env, wanted)[c], x)
BY TraversalLists

LEMMA BranchListsOnce ==
  ASSUME Tree, NEW env, NEW wanted, NEW p \in 1 .. Len(nodes), ~isLeaf(nodes[p]),
         \A c \in nodes[p].first .. nodes[p].last : Once(Traversal(env, wanted)[c]),
         \A c, d \in nodes[p].first .. nodes[p].last : \A x :
           Has(Traversal(env, wanted)[c], x) /\ Has(Traversal(env, wanted)[d], x) => c = d
  PROVE  Once(Traversal(env, wanted)[p])
BY TraversalLists

\* It lists wanted leaves that meet env, or p itself.
LEMMA ListedAreWanted ==
  ASSUME Tree, NEW env, NEW wanted, NEW p \in 1 .. Len(nodes), NEW x, Has(Traversal(env, wanted)[p], x)
  PROVE  /\ x \in 1 .. numItems /\ x \in wanted /\ x <= p
         /\ x = p \/ intersects(nodes[x].bounds, env)
<1> DEFINE n == Len(nodes)
           T == Traversal(env, wanted)
           G == {m \in 1 .. n : Has(T[m], x) => /\ x \in 1 .. numItems /\ x \in wanted /\ x <= m
                                                /\ x = m \/ intersects(nodes[x].bounds, env)}
<1>1. n \in Nat /\ numItems \in Nat
  BY DEF Tree
<1>2. ASSUME NEW m \in 1 .. n, \A k \in 1 .. n : k < m => k \in G
      PROVE  m \in G
  <2> SUFFICES ASSUME Has(T[m], x)
               PROVE  /\ x \in 1 .. numItems /\ x \in wanted /\ x <= m
                      /\ x = m \/ intersects(nodes[x].bounds, env)
    OBVIOUS
  <2>1. CASE isLeaf(nodes[m])
    <3>1. x = m /\ m \in wanted
      BY <2>1, TraversalLists
    <3> QED
      BY <2>1, <3>1 DEF Tree
  <2>2. CASE ~isLeaf(nodes[m])
    <3>1. PICK c \in nodes[m].first .. nodes[m].last : intersects(nodes[c].bounds, env) /\ Has(T[c], x)
      BY <2>2, TraversalLists
    <3>2. c \in 1 .. n /\ c < m
      <4>1. nodes[m].first \in 1 .. n /\ nodes[m].last \in 1 .. n /\ nodes[m].last < m
        BY <2>2 DEF Tree
      <4> QED
        BY <1>1, <4>1
    <3>3. c \in G
      BY <1>2, <3>2
    <3>4. /\ x \in 1 .. numItems /\ x \in wanted /\ x <= c
          /\ x = c \/ intersects(nodes[x].bounds, env)
      BY <3>1, <3>3
    <3> QED
      BY <3>1, <3>2, <3>4
  <2> QED
    BY <2>1, <2>2
<1>3. p \in G
  <2> HIDE DEF G
  <2> QED
    BY <1>1, <1>2, StepByStep
<1> QED
  BY <1>3

\* Of two nodes that list x, the parent of the first comes before the second or is it.
LEMMA ListersAreAChain ==
  ASSUME Tree, NEW env, NEW wanted, NEW x, NEW p \in 1 .. Len(nodes), NEW q \in 1 .. Len(nodes),
         Has(Traversal(env, wanted)[p], x), Has(Traversal(env, wanted)[q], x), p < q,
         NEW b \in 1 .. Len(nodes), HasChild(nodes, b, p)
  PROVE  b <= q
<1> DEFINE n == Len(nodes)
           T == Traversal(env, wanted)
           G == {m \in 1 .. n : Has(T[m], x) =>
                   \A w, a \in 1 .. n : Has(T[w], x) /\ w < m /\ HasChild(nodes, a, w) => a <= m}
<1>1. n \in Nat
  BY DEF Tree
<1>2. ASSUME NEW m \in 1 .. n, \A k \in 1 .. n : k < m => k \in G
      PROVE  m \in G
  <2> SUFFICES ASSUME Has(T[m], x), NEW w \in 1 .. n, NEW a \in 1 .. n,
                      Has(T[w], x), w < m, HasChild(nodes, a, w)
               PROVE  a <= m
    OBVIOUS
  <2>1. ~isLeaf(nodes[m])
    <3> SUFFICES ASSUME isLeaf(nodes[m]) PROVE FALSE
      OBVIOUS
    <3>1. x = m
      <4>1. \A z : Has(Traversal(env, wanted)[m], z) <=> z = m /\ m \in wanted
        BY LeafLists
      <4> QED
        BY <4>1
    <3>2. x <= w
      BY ListedAreWanted
    <3> QED
      BY <3>1, <3>2
  <2>2. PICK z \in nodes[m].first .. nodes[m].last : Has(T[z], x)
    BY <2>1, TraversalLists
  <2>3. z \in 1 .. n /\ z < m /\ HasChild(nodes, m, z)
    <3>1. nodes[m].first \in 1 .. n /\ nodes[m].last \in 1 .. n /\ nodes[m].last < m
      BY <2>1 DEF Tree
    <3> QED
      BY <1>1, <2>1, <3>1 DEF HasChild, isLeaf
  <2>4. CASE z = w
    <3>1. w \in 1 .. n - 1
      BY <1>1
    <3>2. OneParent(nodes, w)
      BY <3>1 DEF Tree
    <3>3. a = m
      BY <2>3, <2>4, <3>2 DEF OneParent
    <3> QED
      BY <3>3
  <2>5. CASE w < z
    <3>1. z \in G
      BY <1>2, <2>3
    <3>2. a <= z
      BY <2>2, <2>3, <2>5, <3>1
    <3> QED
      BY <2>3, <3>2
  <2>6. CASE z < w
    <3>1. w \in G
      BY <1>2
    <3>2. m <= w
      BY <2>2, <2>3, <2>6, <3>1
    <3> QED
      BY <3>2
  <2> QED
    BY <2>3, <2>4, <2>5, <2>6
<1>3. q \in G
  <2> HIDE DEF G
  <2> QED
    BY <1>1, <1>2, StepByStep
<1> QED
  BY <1>3

\* So no two children list the same, and nothing is listed twice.
LEMMA ListedOnce ==
  ASSUME Tree, NEW env, NEW wanted
  PROVE  \A p \in 1 .. Len(nodes) : Once(Traversal(env, wanted)[p])
<1> DEFINE n == Len(nodes)
           T == Traversal(env, wanted)
           G == {m \in 1 .. n : Once(T[m])}
<1>1. n \in Nat
  BY DEF Tree
<1>2. ASSUME NEW m \in 1 .. n, \A k \in 1 .. n : k < m => k \in G
      PROVE  m \in G
  <2>1. CASE isLeaf(nodes[m])
    BY <2>1, TraversalLists
  <2>2. CASE ~isLeaf(nodes[m])
    <3>1. /\ nodes[m].first \in 1 .. n /\ nodes[m].last \in 1 .. n /\ nodes[m].last < m
          /\ nodes[m].first # 0
      BY <2>2 DEF Tree, isLeaf
    <3>2. \A c \in nodes[m].first .. nodes[m].last : c \in 1 .. n /\ c < m /\ HasChild(nodes, m, c)
      BY <1>1, <3>1 DEF HasChild
    <3>3. \A c \in nodes[m].first .. nodes[m].last : Once(T[c])
      BY <1>2, <3>2
    <3>4. ASSUME NEW c \in nodes[m].first .. nodes[m].last, NEW d \in nodes[m].first .. nodes[m].last,
                 NEW x, Has(T[c], x), Has(T[d], x)
          PROVE  c = d
      <4>1. ASSUME c < d PROVE FALSE
        <5>1. m <= d
          BY <3>2, <3>4, <4>1, ListersAreAChain
        <5> QED
          BY <3>2, <5>1
      <4>2. ASSUME d < c PROVE FALSE
        <5>1. m <= c
          BY <3>2, <3>4, <4>2, ListersAreAChain
        <5> QED
          BY <3>2, <5>1
      <4> QED
        BY <3>2, <4>1, <4>2
    <3> QED
      BY <2>1, <2>2, <3>3, <3>4, BranchListsOnce
  <2> QED
    BY <2>1, <2>2
<1>3. \A m \in 1 .. n : m \in G
  <2> HIDE DEF G
  <2> QED
    BY <1>1, <1>2, StepByStep
<1> QED
  BY <1>3

LEMMA CoverMeets ==
  ASSUME NEW e \in Boxes, NEW f \in Boxes, NEW env \in Boxes \cup {NullEnvelope}, Covers(e, f)
  PROVE  /\ intersects(f, env) => intersects(e, env)
         /\ \A g \in Boxes : Covers(f, g) => Covers(e, g)
<1>1. e.minx <= f.minx /\ f.maxx <= e.maxx /\ e.miny <= f.miny /\ f.maxy <= e.maxy
  BY CoversMeans
<1>2. ASSUME intersects(f, env)
      PROVE  intersects(e, env)
  <2>1. env \in Boxes /\ ~isNull(env) /\ ~isNull(e)
    BY <1>2, TreeAssumption DEF intersects, isNull
  <2>2. /\ f.minx <= env.maxx /\ env.minx <= f.maxx /\ f.miny <= env.maxy /\ env.miny <= f.maxy
    BY <1>2 DEF intersects
  <2>3. /\ e.minx <= env.maxx /\ env.minx <= e.maxx /\ e.miny <= env.maxy /\ env.miny <= e.maxy
    BY <1>1, <2>1, <2>2 DEF Boxes
  <2> QED
    BY <2>1, <2>3 DEF intersects
<1>3. ASSUME NEW g \in Boxes, Covers(f, g)
      PROVE  Covers(e, g)
  <2>1. f.minx <= g.minx /\ g.maxx <= f.maxx /\ f.miny <= g.miny /\ g.maxy <= f.maxy
    BY <1>3, CoversMeans
  <2>2. e.minx <= g.minx /\ g.maxx <= e.maxx /\ e.miny <= g.miny /\ g.maxy <= e.maxy
    BY <1>1, <2>1 DEF Boxes
  <2> QED
    BY <2>2, CoversMeans
<1> QED
  BY <1>2, <1>3

\* The root covers all leaves and lists all that are wanted and meet env: the last
\* node that does both has no parent.
LEMMA AllAreListed ==
  ASSUME Tree, NEW env \in Boxes \cup {NullEnvelope}, NEW wanted,
         NEW q \in 1 .. numItems, q \in wanted, intersects(nodes[q].bounds, env)
  PROVE  Has(Traversal(env, wanted)[root], q) /\ intersects(nodes[root].bounds, env)
<1> DEFINE n == Len(nodes)
           T == Traversal(env, wanted)
           C == {p \in 1 .. n : Has(T[p], q) /\ Covers(nodes[p].bounds, nodes[q].bounds)}
           D == {n - p : p \in C}
<1>1. n \in Nat /\ root = n /\ n >= 1 /\ q \in 1 .. n /\ isLeaf(nodes[q])
  BY DEF Tree
<1>2. \A p \in 1 .. n : nodes[p].bounds \in Boxes
  BY DEF Tree, Node
<1>3. q \in C
  <2>1. Has(T[q], q)
    BY <1>1, TraversalLists
  <2>2. Covers(nodes[q].bounds, nodes[q].bounds)
    <3> DEFINE e == nodes[q].bounds
    <3>1. e \in Boxes
      BY <1>1, <1>2
    <3> HIDE DEF e
    <3>2. e.minx <= e.minx /\ e.maxx <= e.maxx /\ e.miny <= e.miny /\ e.maxy <= e.maxy
      BY <3>1 DEF Boxes
    <3>3. Covers(e, e)
      BY <3>1, <3>2, CoversMeans
    <3> QED
      BY <3>3 DEF e
  <2> QED
    BY <1>1, <2>1, <2>2
<1>4. PICK d \in D : \A y \in D : d <= y
  <2>1. D \in SUBSET Nat /\ D # {}
    <3>1. \A p \in C : n - p \in Nat
      BY <1>1
    <3> HIDE DEF C
    <3> QED
      BY <1>3, <3>1
  <2> HIDE DEF D
  <2> QED
    BY <2>1, LeastElement
<1>5. PICK p \in C : d = n - p
  OBVIOUS
<1>6. \A y \in C : y <= p
  <2> TAKE y \in C
  <2>1. n - y \in D
    OBVIOUS
  <2>2. y \in 1 .. n /\ p \in 1 .. n
    OBVIOUS
  <2> HIDE DEF D, C
  <2>3. n - p <= n - y
    BY <1>4, <1>5, <2>1
  <2> QED
    BY <1>1, <2>2, <2>3
<1>7. /\ p \in 1 .. n /\ Has(T[p], q) /\ Covers(nodes[p].bounds, nodes[q].bounds)
      /\ intersects(nodes[p].bounds, env)
  BY <1>1, <1>2, CoverMeets
<1>8. ASSUME p # n PROVE FALSE
  <2>1. OneParent(nodes, p)
    <3>1. p \in 1 .. n - 1
      BY <1>1, <1>7, <1>8
    <3> QED
      BY <3>1 DEF Tree
  <2>2. PICK b \in 1 .. n : HasChild(nodes, b, p)
    BY <2>1 DEF OneParent
  <2>3. /\ ~isLeaf(nodes[b]) /\ nodes[b].last < b
        /\ nodes[b].first \in 1 .. n /\ nodes[b].last \in 1 .. n
        /\ \A c \in nodes[b].first .. nodes[b].last : Covers(nodes[b].bounds, nodes[c].bounds)
    BY <2>2 DEF HasChild, isLeaf, Tree
  <2>4. p \in nodes[b].first .. nodes[b].last
    BY <1>7, <2>2, <2>3 DEF HasChild
  <2>5. p < b
    BY <2>3, <2>4
  <2>6. Has(T[b], q)
    BY <1>7, <2>3, <2>4, BranchLists
  <2>7. Covers(nodes[b].bounds, nodes[q].bounds)
    BY <1>1, <1>2, <1>7, <2>3, <2>4, CoverMeets
  <2>8. b \in C
    BY <2>6, <2>7
  <2> HIDE DEF C
  <2> QED
    BY <1>6, <1>7, <2>5, <2>8
<1> QED
  BY <1>1, <1>7, <1>8

\* What query, queryPairs and remove find below a root that is no leaf.
LEMMA LeavesAreFound ==
  ASSUME Tree, ~isLeaf(nodes[root]), NEW env \in Boxes \cup {NullEnvelope}, NEW wanted
  PROVE  /\ LeavesBelow(env, wanted) \in Seq(1 .. numItems)
         /\ Once(LeavesBelow(env, wanted))
         /\ \A q : Has(LeavesBelow(env, wanted), q) <=>
              q \in 1 .. numItems /\ q \in wanted /\ intersects(nodes[q].bounds, env)
<1> DEFINE s == LeavesBelow(env, wanted)
<1>1. s = Traversal(env, wanted)[root] /\ root \in 1 .. Len(nodes) /\ numItems \in Nat
  BY TraversalsOfAll DEF Tree
<1> HIDE DEF s
<1>2. ASSUME NEW q
      PROVE  Has(s, q) <=> q \in 1 .. numItems /\ q \in wanted /\ intersects(nodes[q].bounds, env)
  <2>1. ASSUME Has(s, q)
        PROVE  q \in 1 .. numItems /\ q \in wanted /\ intersects(nodes[q].bounds, env)
    <3>1. /\ q \in 1 .. numItems /\ q \in wanted
          /\ q = root \/ intersects(nodes[q].bounds, env)
      BY <1>1, <2>1, ListedAreWanted
    <3>2. q # root
      BY <1>1, <3>1 DEF Tree
    <3> QED
      BY <3>1, <3>2
  <2> QED
    BY <1>1, <2>1, AllAreListed
<1>3. Once(s) /\ s \in Seq(1 .. Len(nodes))
  BY <1>1, ListedOnce, TraversalLists
<1>4. s \in Seq(1 .. numItems)
  <2>1. \A i \in 1 .. Len(s) : s[i] \in 1 .. numItems
    <3> TAKE i \in 1 .. Len(s)
    <3>1. Has(s, s[i])
      BY DEF Has
    <3> QED
      BY <1>2, <3>1
  <2>2. Len(s) \in Nat /\ s = [i \in 1 .. Len(s) |-> s[i]]
    BY <1>3
  <2> DEFINE Q == 1 .. numItems
  <2>3. \A i \in 1 .. Len(s) : s[i] \in Q
    BY <2>1
  <2> HIDE DEF Q
  <2>4. s \in [1 .. Len(s) -> Q]
    BY <2>2, <2>3
  <2>5. s \in Seq(Q)
    BY <2>2, <2>4
  <2> QED
    BY <2>5 DEF Q
<1> QED
  BY <1>2, <1>3, <1>4 DEF s

------------------------------------------------------------------------------
(***************************************************************************)
(* What the answers depend on besides the shape of the tree.               *)
(***************************************************************************)
\* Ordinals tell the leaves apart; no leaf is deleted.
Told(ns) == \A p, q \in LeavesIn(ns) : ns[p].ordinal = ns[q].ordinal => p = q
Whole(ns) == \A p \in LeavesIn(ns) : ~ns[p].deleted

\* Until the tree is built the leaves are as insert left them, in its order.
Fresh == root = 0 => /\ Whole(nodes)
                     /\ pc \in {"idle", "build", "body"} =>
                          \A p \in 1 .. Len(nodes) : nodes[p].ordinal = p

\* A careful client's request.
Asked == pc # "idle" => /\ call \in Requests
                        /\ call.op = "queryPairs" => Whole(nodes)
                        /\ call.op = "remove" => 2 \in LeavesIn(nodes)

\* Only an empty tree is not built when the body of a call starts.
Ready == /\ root = 0 /\ pc = "body" => nodes = << >>
         /\ nodes = << >> => numItems = 0

RootLives == root # 0 /\ nodes[root].first = 0 => ~nodes[root].deleted

PromiseInv == Told(nodes) /\ Fresh /\ Asked /\ Ready /\ RootLives

EntryOf(node) == [ordinal |-> node.ordinal, item |-> node.item, bounds |-> node.bounds]

\* The abstract state: the entries of the leaves that are not deleted.
EntriesOf(ns) == {EntryOf(ns[p]) : p \in {q \in LeavesIn(ns) : ~ns[q].deleted}}

LEMMA InitPromise == Init => PromiseInv
<1> SUFFICES ASSUME Init PROVE PromiseInv
  OBVIOUS
<1>1. LeavesIn(nodes) = {} /\ Len(nodes) = 0 /\ root = 0 /\ pc = "idle" /\ numItems = 0
  BY DEF Init, LeavesIn
<1> QED
  BY <1>1 DEF PromiseInv, Told, Whole, Fresh, Asked, Ready, RootLives

\* Moving nodes and appending branches leaves the entries alone.
LEMMA RearrangedIsSame ==
  ASSUME NEW ns \in Seq(Node), NEW ms \in Seq(Node), Rearranged(ns, ms)
  PROVE  /\ Told(ns) => Told(ms)
         /\ Whole(ns) => Whole(ms)
         /\ EntriesOf(ms) = EntriesOf(ns)
<1> DEFINE n == Len(ns)
<1>1. n \in Nat /\ Len(ms) \in Nat
  OBVIOUS
<1>2. PICK f \in Bijection(1 .. n, 1 .. n) :
        /\ Len(ms) >= n
        /\ \A p \in 1 .. n : ms[p] = ns[f[p]]
        /\ \A p \in n + 1 .. Len(ms) : ms[p].first # 0
  BY DEF Rearranged
<1> HIDE DEF n
<1>3. /\ \A p \in 1 .. n : f[p] \in 1 .. n
      /\ \A p, q \in 1 .. n : f[p] = f[q] => p = q
      /\ \A q \in 1 .. n : \E p \in 1 .. n : f[p] = q
  <2>1. f \in Injection(1 .. n, 1 .. n) /\ f \in Surjection(1 .. n, 1 .. n)
    BY DEF Bijection
  <2> QED
    BY <2>1 DEF Injection, Surjection, IsInjective
<1>4. \A p \in 1 .. Len(ms) : p \in 1 .. n \/ p \in n + 1 .. Len(ms)
  BY <1>1
<1>5. 1 .. n \subseteq 1 .. Len(ms)
  BY <1>1, <1>2
<1>6. \A p \in LeavesIn(ms) : p \in 1 .. n /\ f[p] \in LeavesIn(ns) /\ ms[p] = ns[f[p]]
  BY <1>2, <1>3, <1>4 DEF LeavesIn, n
<1>7. \A q \in LeavesIn(ns) : \E p \in LeavesIn(ms) : f[p] = q /\ ms[p] = ns[q]
  <2> TAKE q \in LeavesIn(ns)
  <2>1. q \in 1 .. n /\ ns[q].first = 0
    BY DEF LeavesIn, n
  <2>2. PICK p \in 1 .. n : f[p] = q
    BY <1>3, <2>1
  <2> QED
    BY <1>2, <1>5, <2>1, <2>2 DEF LeavesIn
<1>8. Told(ns) => Told(ms)
  <2> SUFFICES ASSUME Told(ns), NEW p \in LeavesIn(ms), NEW q \in LeavesIn(ms),
                      ms[p].ordinal = ms[q].ordinal
               PROVE  p = q
    BY DEF Told
  <2>1. f[p] = f[q]
    BY <1>6 DEF Told
  <2> QED
    BY <1>3, <1>6, <2>1
<1>9. Whole(ns) => Whole(ms)
  BY <1>6 DEF Whole
<1>10. EntriesOf(ms) = EntriesOf(ns)
  <2>1. ASSUME NEW x \in EntriesOf(ms) PROVE x \in EntriesOf(ns)
    <3>1. PICK p \in LeavesIn(ms) : ~ms[p].deleted /\ x = EntryOf(ms[p])
      BY <2>1 DEF EntriesOf
    <3>2. f[p] \in LeavesIn(ns) /\ ms[p] = ns[f[p]]
      BY <1>6
    <3> QED
      BY <3>1, <3>2 DEF EntriesOf
  <2>2. ASSUME NEW x \in EntriesOf(ns) PROVE x \in EntriesOf(ms)
    <3>1. PICK q \in LeavesIn(ns) : ~ns[q].deleted /\ x = EntryOf(ns[q])
      BY <2>2 DEF EntriesOf
    <3>2. PICK p \in LeavesIn(ms) : ms[p] = ns[q]
      BY <1>7
    <3> QED
      BY <3>1, <3>2 DEF EntriesOf
  <2> QED
    BY <2>1, <2>2
<1> QED
  BY <1>8, <1>9, <1>10

\* A root that is a leaf is the only node.
LEMMA LoneLeaf ==
  ASSUME Tree, isLeaf(nodes[root])
  PROVE  Len(nodes) = 1 /\ root = 1 /\ numItems = 1
<1> DEFINE n == Len(nodes)
<1>1. n \in Nat /\ n >= 1 /\ root = n /\ numItems \in 1 .. n /\ n \in 1 .. n
  BY DEF Tree
<1>2. n \in 1 .. numItems
  BY <1>1 DEF Tree
<1>3. n = 1
  <2> SUFFICES ASSUME n # 1 PROVE FALSE
    OBVIOUS
  <2>1. n - 1 \in 1 .. n - 1
    BY <1>1
  <2>2. PICK b \in 1 .. n : HasChild(nodes, b, n - 1)
    BY <2>1 DEF Tree, OneParent
  <2>3. ~isLeaf(nodes[b])
    BY <2>2 DEF HasChild, isLeaf
  <2>4. b \in 1 .. numItems
    BY <1>1, <1>2
  <2> QED
    BY <2>3, <2>4 DEF Tree
<1> QED
  BY <1>1, <1>2, <1>3

LEMMA InsertPromises ==
  ASSUME TreeInv, TreeInv', PromiseInv, MayInsert, NEW i \in Item, NEW e \in Envelope, insert(i, e)
  PROVE  PromiseInv'
<1> DEFINE n == Len(nodes)
<1>1. root = 0 /\ root' = 0 /\ pc = "idle" /\ pc' = "idle" /\ numItems' = numItems
  BY DEF MayInsert, built, insert
<1>2. nodes \in Seq(Node) /\ nodes' \in Seq(Node)
  BY DEF TreeInv
<1>3. n \in Nat /\ Len(nodes') \in Nat /\ LeavesIn(nodes) = 1 .. n
      /\ LeavesIn(nodes') = 1 .. Len(nodes')
  BY <1>1, <1>2 DEF TreeInv, NotBuilt
<1>4. Whole(nodes) /\ \A p \in 1 .. n : nodes[p].ordinal = p
  BY <1>1 DEF PromiseInv, Fresh
<1>5. /\ \A p \in 1 .. Len(nodes') : nodes'[p].ordinal = p /\ ~nodes'[p].deleted
      /\ nodes' = << >> => numItems = 0
  <2>1. CASE isNull(e)
    BY <1>1, <1>3, <1>4, <2>1 DEF insert, Whole, PromiseInv, Ready
  <2>2. CASE ~isNull(e)
    <3>1. nodes' = Append(nodes, Leaf(i, e, n + 1))
      BY <2>2 DEF insert
    <3>2. Leaf(i, e, n + 1).ordinal = n + 1 /\ ~Leaf(i, e, n + 1).deleted
      BY DEF Leaf
    <3>3. /\ Len(nodes') = n + 1 /\ nodes'[n + 1] = Leaf(i, e, n + 1)
          /\ \A p \in 1 .. n : nodes'[p] = nodes[p]
      BY <1>2, <3>1
    <3>4. \A p \in 1 .. n + 1 : p \in 1 .. n \/ p = n + 1
      BY <1>3
    <3>5. nodes' # << >>
      BY <1>3, <3>3
    <3> QED
      BY <1>3, <1>4, <3>2, <3>3, <3>4, <3>5 DEF Whole
  <2> QED
    BY <2>1, <2>2
<1>6. Told(nodes') /\ Whole(nodes')
  BY <1>3, <1>5 DEF Told, Whole
<1> QED
  BY <1>1, <1>5, <1>6 DEF PromiseInv, Fresh, Asked, Ready, RootLives

LEMMA CallPromises ==
  ASSUME TreeInv, PromiseInv, Careful, NEW c \in Requests, Call(c)
  PROVE  PromiseInv'
<1>1. /\ pc = "idle" /\ call' = c /\ UNCHANGED << nodes, root, numItems >>
      /\ pc' = (IF built \/ nodes = << >> THEN "body" ELSE "build") /\ Supported(c)
  BY DEF Call, treeVars
<1>2. /\ Told(nodes) /\ Fresh /\ Ready /\ RootLives
  BY DEF PromiseInv
<1>3. pc' \in {"body", "build"} /\ (pc' = "body" /\ root = 0 => nodes = << >>)
  BY <1>1 DEF built
<1> DEFINE leaves == IF built THEN numItems ELSE Len(nodes)
<1>4. LeavesIn(nodes) = 1 .. leaves /\ leaves \in Nat
  <2>1. Len(nodes) \in Nat /\ numItems \in Nat
    BY DEF TreeInv, Locals
  <2> QED
    BY <1>1, <2>1 DEF TreeInv, NotBuilt, Built, built
<1>5. (c.op = "remove" => leaves >= 2) /\ (c.op = "queryPairs" => \A p \in 1 .. leaves : ~nodes[p].deleted)
  BY <1>1 DEF Supported
<1> HIDE DEF leaves
<1>6. (c.op = "remove" => 2 \in LeavesIn(nodes)) /\ (c.op = "queryPairs" => Whole(nodes))
  BY <1>4, <1>5 DEF Whole
<1>7. Asked'
  BY <1>1, <1>6 DEF Asked, Whole, LeavesIn
<1> QED
  BY <1>1, <1>2, <1>3, <1>7 DEF PromiseInv, Told, Whole, Fresh, Ready, RootLives, LeavesIn

LEMMA StartBuildPromises ==
  ASSUME TreeInv, PromiseInv, StartBuild
  PROVE  PromiseInv'
<1>1. pc = "build" /\ pc' = "level" /\ UNCHANGED << nodes, root, call >> /\ numItems' = Len(nodes)
  BY DEF StartBuild
<1>2. root = 0 /\ nodes # << >>
  BY <1>1 DEF TreeInv, Locals
<1> QED
  BY <1>1, <1>2 DEF PromiseInv, Told, Whole, Fresh, Asked, Ready, RootLives, LeavesIn

\* The steps that move nodes.
LEMMA RearrangePromises ==
  ASSUME TreeInv, TreeInv', PromiseInv, Rearranged(nodes, nodes'),
         pc \in {"level", "slice"}, pc' \in {"level", "slice"}, UNCHANGED << root, numItems, call >>
  PROVE  PromiseInv'
<1>1. /\ root = 0 /\ LeavesIn(nodes') = LeavesIn(nodes)
      /\ nodes \in Seq(Node) /\ nodes' \in Seq(Node)
  BY DEF TreeInv, Building
<1>2. (Told(nodes) => Told(nodes')) /\ (Whole(nodes) => Whole(nodes'))
  BY <1>1, RearrangedIsSame
<1>3. nodes' = << >> => nodes = << >>
  <2>1. Len(nodes') >= Len(nodes)
    BY DEF Rearranged
  <2> QED
    BY <1>1, <2>1
<1>4. Told(nodes') /\ Whole(nodes)
  BY <1>1, <1>2 DEF PromiseInv, Fresh
<1>5. Fresh'
  BY <1>1, <1>2, <1>4 DEF Fresh
<1>6. Asked'
  BY <1>1, <1>2, <1>4 DEF PromiseInv, Asked
<1> QED
  BY <1>1, <1>3, <1>4, <1>5, <1>6 DEF PromiseInv, Ready, RootLives

LEMMA EndLevelPromises ==
  ASSUME PromiseInv, EndLevel
  PROVE  PromiseInv'
<1>1. pc = "slice" /\ pc' = "level" /\ UNCHANGED << nodes, root, numItems, call >>
  BY DEF EndLevel, treeVars
<1> QED
  BY <1>1 DEF PromiseInv, Told, Whole, Fresh, Asked, Ready, RootLives, LeavesIn

LEMMA EndBuildPromises ==
  ASSUME TreeInv, PromiseInv, EndBuild
  PROVE  PromiseInv'
<1>1. /\ pc = "level" /\ number = 1 /\ root' = Len(nodes) /\ pc' = "body"
      /\ UNCHANGED << nodes, numItems, call >>
  BY DEF EndBuild
<1>2. /\ root = 0 /\ begin \in Nat /\ begin + 1 = Len(nodes) /\ Len(nodes) \in Nat
  BY <1>1 DEF TreeInv, Building, Locals
<1>3. root' # 0 /\ root' \in 1 .. Len(nodes) /\ Whole(nodes)
  BY <1>1, <1>2 DEF PromiseInv, Fresh
<1>4. RootLives'
  BY <1>1, <1>3 DEF RootLives, Whole, LeavesIn
<1> QED
  BY <1>1, <1>3, <1>4 DEF PromiseInv, Told, Whole, Fresh, Asked, Ready, LeavesIn

\* A step that deletes one leaf, or none.
Deletes(p) == nodes' = [nodes EXCEPT ![p].deleted = TRUE]

LEMMA DeletedIsSame ==
  ASSUME nodes \in Seq(Node), NEW p \in 1 .. Len(nodes), Deletes(p)
  PROVE  /\ Len(nodes') = Len(nodes)
         /\ \A q \in 1 .. Len(nodes) :
              /\ nodes'[q].first = nodes[q].first /\ nodes'[q].ordinal = nodes[q].ordinal
              /\ nodes'[q].item = nodes[q].item /\ nodes'[q].bounds = nodes[q].bounds
              /\ nodes'[q].deleted = (IF q = p THEN TRUE ELSE nodes[q].deleted)
<1> DEFINE n == Len(nodes)
<1>1. n \in Nat /\ DOMAIN nodes = 1 .. n /\ \A q \in 1 .. n : nodes[q] \in Node
  OBVIOUS
<1>2. /\ DOMAIN nodes' = 1 .. n
      /\ \A q \in 1 .. n :
           nodes'[q] = IF q = p THEN [nodes[q] EXCEPT !.deleted = TRUE] ELSE nodes[q]
      /\ nodes' = [q \in 1 .. n |-> nodes'[q]]
  BY <1>1 DEF Deletes
<1>3. Len(nodes') = n
  BY <1>1, <1>2
<1>4. \A q \in 1 .. n :
        /\ nodes'[q].first = nodes[q].first /\ nodes'[q].ordinal = nodes[q].ordinal
        /\ nodes'[q].item = nodes[q].item /\ nodes'[q].bounds = nodes[q].bounds
        /\ nodes'[q].deleted = (IF q = p THEN TRUE ELSE nodes[q].deleted)
  <2> HIDE DEF n
  <2> QED
    BY <1>1, <1>2 DEF Node
<1> QED
  BY <1>3, <1>4

LEMMA IteratePromises ==
  ASSUME PromiseInv, iterate
  PROVE  PromiseInv'
  BY DEF PromiseInv, iterate, treeVars, Told, Whole, Fresh, Asked, Ready, RootLives, LeavesIn

------------------------------------------------------------------------------
(***************************************************************************)
(* Answers.                                                                *)
(***************************************************************************)
\* The abstract index counts as this module does.
LEMMA SameCardinality == \A S : Promise!Cardinality(S) = Cardinality(S)
BY DEF Promise!Cardinality, Cardinality

LEMMA UptoLimit ==
  ASSUME NEW S, NEW s \in Seq(S), NEW limit \in Nat
  PROVE  /\ Upto(limit, s) \in Seq(S)
         /\ Len(Upto(limit, s)) = Least(limit, Len(s))
         /\ \A k \in 1 .. Least(limit, Len(s)) : k \in 1 .. Len(s) /\ Upto(limit, s)[k] = s[k]
<1> DEFINE m == Least(limit, Len(s))
<1>1. Len(s) \in Nat /\ m \in Nat /\ m <= Len(s)
  BY DEF Least
<1>2. Upto(limit, s) = SubSeq(s, 1, m)
  BY DEF Upto
<1> HIDE DEF m
<1>3. \A k \in 1 .. m : k \in 1 .. Len(s) /\ 1 + k - 1 = k
  BY <1>1
<1>4. SubSeq(s, 1, m) = [k \in 1 .. m |-> s[1 + k - 1]]
  BY <1>1
<1>5. \A k \in 1 .. m : s[1 + k - 1] \in S
  BY <1>3
<1>6. SubSeq(s, 1, m) \in [1 .. m -> S]
  BY <1>4, <1>5
<1>7. SubSeq(s, 1, m) \in Seq(S) /\ Len(SubSeq(s, 1, m)) = m
  BY <1>1, <1>4, <1>6
<1>8. \A k \in 1 .. m : SubSeq(s, 1, m)[k] = s[k]
  BY <1>3, <1>4
<1> QED
  BY <1>2, <1>3, <1>7, <1>8 DEF m

\* A sequence that has the members of a set, each once, is as long as the set is large.
LEMMA Counted ==
  ASSUME NEW S, NEW Q, NEW s \in Seq(Q), Once(s), \A x : Has(s, x) <=> x \in S
  PROVE  IsFiniteSet(S) /\ Cardinality(S) = Len(s)
<1> DEFINE n == Len(s)
<1>1. n \in Nat /\ DOMAIN s = 1 .. n
  OBVIOUS
<1>2. s \in [1 .. n -> S]
  <2>1. \A k \in 1 .. n : s[k] \in S
    BY DEF Has
  <2>2. s = [k \in 1 .. n |-> s[k]]
    OBVIOUS
  <2> QED
    BY <2>1, <2>2
<1>3. \A x \in S : \E k \in 1 .. n : s[k] = x
  BY DEF Has
<1>4. \A i, j \in 1 .. n : s[i] = s[j] => i = j
  BY DEF Once
<1> HIDE DEF n
<1>5. s \in Bijection(1 .. n, S)
  BY <1>1, <1>2, <1>3, <1>4 DEF Bijection, Injection, Surjection, IsInjective
<1>6. ExistsBijection(1 .. n, S)
  BY <1>5 DEF ExistsBijection
<1>7. IsFiniteSet(S)
  BY <1>1, <1>6, FS_NatBijection
<1>8. Cardinality(S) = n
  BY <1>1, <1>6, FS_CountingElements
<1> QED
  BY <1>7, <1>8 DEF n

\* A traversal that a visitor may stop answers for the leaves it lists.
LEMMA LeavesAnswer ==
  ASSUME Told(nodes), NEW s \in Seq(Nat), Once(s), NEW M \in SUBSET LeavesIn(nodes),
         \A q : Has(s, q) <=> q \in M
  PROVE  /\ IsFiniteSet({Entry(q) : q \in M}) /\ Cardinality({Entry(q) : q \in M}) = Len(s)
         /\ \A limit \in Nat :
              Promise!Lists([k \in DOMAIN Upto(limit, s) |-> Entry(Upto(limit, s)[k])],
                            {Entry(q) : q \in M}, limit)
<1> DEFINE E == {Entry(q) : q \in M}
           t == [k \in 1 .. Len(s) |-> Entry(s[k])]
<1>1. Len(s) \in Nat /\ Len(t) = Len(s) /\ \A k \in 1 .. Len(s) : t[k] = Entry(s[k])
  OBVIOUS
<1>2. \A k \in 1 .. Len(s) : s[k] \in M
  BY DEF Has
<1>3. t \in Seq(E)
  <2>1. \A k \in 1 .. Len(s) : Entry(s[k]) \in E
    BY <1>2
  <2> HIDE DEF E
  <2>2. t \in [1 .. Len(s) -> E]
    BY <2>1
  <2> QED
    BY <1>1, <2>2
<1>4. \A p, q \in M : Entry(p) = Entry(q) => p = q
  <2> SUFFICES ASSUME NEW p \in M, NEW q \in M, Entry(p) = Entry(q) PROVE p = q
    OBVIOUS
  <2>1. nodes[p].ordinal = nodes[q].ordinal
    BY DEF Entry
  <2>2. p \in LeavesIn(nodes) /\ q \in LeavesIn(nodes)
    OBVIOUS
  <2> QED
    BY <2>1, <2>2 DEF Told
<1> HIDE DEF t
<1>5. Once(t)
  BY <1>1, <1>2, <1>4 DEF Once
<1>6. \A x : Has(t, x) <=> x \in E
  <2>1. ASSUME NEW x, Has(t, x) PROVE x \in E
    BY <1>1, <1>2, <2>1 DEF Has
  <2>2. ASSUME NEW q \in M PROVE Has(t, Entry(q))
    <3>1. PICK k \in 1 .. Len(s) : s[k] = q
      BY DEF Has
    <3> QED
      BY <1>1, <3>1 DEF Has
  <2> QED
    BY <2>1, <2>2
<1> HIDE DEF E
<1>7. IsFiniteSet(E) /\ Cardinality(E) = Len(s)
  BY <1>1, <1>3, <1>5, <1>6, Counted
<1>8. ASSUME NEW limit \in Nat
      PROVE  Promise!Lists([k \in DOMAIN Upto(limit, s) |-> Entry(Upto(limit, s)[k])], E, limit)
  <2> DEFINE m == Least(limit, Len(s))
             u == Upto(limit, s)
             v == [k \in DOMAIN u |-> Entry(u[k])]
  <2>1. u \in Seq(Nat) /\ Len(u) = m /\ \A k \in 1 .. m : k \in 1 .. Len(s) /\ u[k] = s[k]
    <3> DEFINE S == Nat
    <3>1. s \in Seq(S)
      OBVIOUS
    <3> HIDE DEF S
    <3>2. u \in Seq(S) /\ Len(u) = m
      BY <3>1, UptoLimit
    <3>3. \A k \in 1 .. m : k \in 1 .. Len(s) /\ u[k] = s[k]
      BY <3>1, UptoLimit
    <3> QED
      BY <3>2, <3>3 DEF S
  <2>2. m \in Nat /\ m = Promise!Lowest(limit, Cardinality(E))
    BY <1>1, <1>7 DEF Least, Promise!Lowest
  <2>3. Promise!Cardinality(E) = Cardinality(E)
    BY SameCardinality
  <2> HIDE DEF m, u
  <2>4. DOMAIN u = 1 .. m
    BY <2>1
  <2>5. Len(v) = m /\ DOMAIN v = 1 .. m /\ \A k \in 1 .. m : v[k] = t[k] /\ k \in 1 .. Len(s)
    BY <1>1, <2>1, <2>2, <2>4
  <2> HIDE DEF v
  <2>6. \A k \in DOMAIN v : v[k] \in E
    BY <1>1, <1>3, <2>5
  <2>7. \A j, k \in DOMAIN v : j # k => v[j] # v[k]
    BY <1>1, <1>5, <2>5 DEF Once
  <2>8. Len(v) >= m
    BY <2>2, <2>5
  <2>9. Promise!ListsAtLeast(v, E, limit)
    <3>1. Len(v) >= Promise!Lowest(limit, Cardinality(E))
      BY <2>2, <2>8
    <3> QED
      BY <2>6, <2>7, <2>3, <3>1 DEF Promise!ListsAtLeast
  <2>10. Promise!Lists(v, E, limit)
    BY <2>2, <2>5, <2>9, <2>3 DEF Promise!Lists
  <2> QED
    BY <2>10 DEF u, v
<1> QED
  BY <1>7, <1>8 DEF E

LEMMA WholeList ==
  ASSUME NEW S, NEW s \in Seq(S)
  PROVE  Upto(Len(s), s) = s
<1>1. Len(s) \in Nat /\ Least(Len(s), Len(s)) = Len(s)
  BY DEF Least
<1>2. Upto(Len(s), s) = [k \in 1 .. Len(s) |-> s[1 + k - 1]]
  BY <1>1 DEF Upto
<1>3. \A k \in 1 .. Len(s) : 1 + k - 1 = k
  BY <1>1
<1> QED
  BY <1>2, <1>3

LEMMA Requested ==
  ASSUME NEW c \in Requests
  PROVE  /\ c.op = "query" => c.env \in Envelope /\ c.limit \in Limits
         /\ c.op = "queryPairs" => c.limit \in Limits
         /\ c.op = "remove" => c.env \in Envelope /\ c.item \in Item
         /\ c # NoCall /\ c # [op |-> "iterate"]
         /\ c.op \in {"query", "queryPairs", "remove", "items"}
<1>1. \/ c \in [op : {"query"}, env : Envelope, limit : Limits]
      \/ c \in [op : {"queryPairs"}, limit : Limits]
      \/ c \in [op : {"remove"}, env : Envelope, item : Item]
      \/ c \in [op : {"items"}]
  BY DEF Requests
<1>2. NoCall.op = "none" /\ [op |-> "iterate"].op = "iterate"
  BY DEF NoCall
<1> QED
  BY <1>1, <1>2

\* The leaves that are not deleted; those of them that meet env.
LiveLeaves == {q \in LeavesIn(nodes) : ~nodes[q].deleted}
Met(env) == {q \in LiveLeaves : intersects(nodes[q].bounds, env)}

LEMMA LiveAre ==
  ASSUME TreeInv
  PROVE  /\ {q \in Leaves : ~nodes[q].deleted} = LiveLeaves
         /\ \A q \in LeavesIn(nodes) : q \in Nat /\ q \in 1 .. Len(nodes) /\ nodes[q] \in Node /\ isLeaf(nodes[q])
         /\ \A q \in LeavesIn(nodes) : q \in Live <=> q \in LiveLeaves
         /\ EntriesOf(nodes) = {Entry(q) : q \in LiveLeaves}
<1>1. nodes \in Seq(Node)
  BY DEF TreeInv
<1>2. DOMAIN nodes = 1 .. Len(nodes) /\ Len(nodes) \in Nat /\ \A q \in 1 .. Len(nodes) : nodes[q] \in Node
  BY <1>1
<1>3. Leaves = LeavesIn(nodes)
  BY <1>2 DEF Leaves, LeavesIn, isLeaf
<1>4. \A q \in LeavesIn(nodes) : q \in Nat /\ q \in 1 .. Len(nodes) /\ nodes[q] \in Node /\ isLeaf(nodes[q])
  BY <1>2 DEF LeavesIn, isLeaf
<1>5. \A q \in LeavesIn(nodes) : q \in Live <=> q \in LiveLeaves
  BY <1>2, <1>4 DEF Live, LiveLeaves
<1>6. EntriesOf(nodes) = {Entry(q) : q \in LiveLeaves}
  BY DEF EntriesOf, Entry, EntryOf, LiveLeaves
<1> QED
  BY <1>3, <1>4, <1>5, <1>6 DEF LiveLeaves

LEMMA ItemsFound ==
  ASSUME TreeInv, NEW n \in Nat, LeavesIn(nodes) = 1 .. n
  PROVE  /\ Items(n) \in Seq(Nat) /\ Once(Items(n))
         /\ \A q : Has(Items(n), q) <=> q \in LiveLeaves
<1> DEFINE ss == [p \in 1 .. n |-> IF p \in Live THEN << p >> ELSE << >>]
           Q == Nat
           S == Seq(Q)
<1>1. Items(n) = FlattenSeq(ss)
  BY DEF Items
<1>2. << >> \in S /\ \A p \in 1 .. n : << p >> \in S
  OBVIOUS
<1>3. Len(<< >>) = 0 /\ \A p : Len(<< p >>) = 1 /\ << p >>[1] = p
  OBVIOUS
<1> HIDE DEF S, Q
<1>4. ss \in [1 .. n -> S]
  BY <1>2
<1>5. Len(ss) = n /\ ss \in Seq(S)
  BY <1>4
<1>6. \A p \in 1 .. n : \A q : Has(ss[p], q) <=> q = p /\ p \in Live
  <2> TAKE p \in 1 .. n
  <2> TAKE q
  <2>1. CASE p \in Live
    <3>1. ss[p] = << p >>
      BY <2>1
    <3> QED
      BY <1>3, <2>1, <3>1 DEF Has
  <2>2. CASE p \notin Live
    <3>1. ss[p] = << >>
      BY <2>2
    <3> QED
      BY <1>3, <2>2, <3>1 DEF Has
  <2> QED
    BY <2>1, <2>2
<1>7. \A p \in 1 .. n : Once(ss[p])
  <2> TAKE p \in 1 .. n
  <2>1. ss[p] = << p >> \/ ss[p] = << >>
    OBVIOUS
  <2>2. Len(ss[p]) = 1 \/ Len(ss[p]) = 0
    BY <1>3, <2>1
  <2> QED
    BY <2>2 DEF Once
<1> HIDE DEF ss
<1>8. ss \in Seq(Seq(Q))
  BY <1>5 DEF S
<1>9. FlattenSeq(ss) \in Seq(Q)
  BY <1>8, Flattened
<1>10. \A q : Has(FlattenSeq(ss), q) <=> \E p \in 1 .. n : Has(ss[p], q)
  BY <1>5, <1>8, Flattened
<1>11. Once(FlattenSeq(ss))
  <2>1. \A j, k \in 1 .. n : \A q : Has(ss[j], q) /\ Has(ss[k], q) => j = k
    BY <1>6
  <2> QED
    BY <1>5, <1>7, <1>8, <2>1, Flattened
<1>12. \A q : Has(Items(n), q) <=> q \in LiveLeaves
  <2> TAKE q
  <2>1. Has(Items(n), q) <=> q \in 1 .. n /\ q \in Live
    <3>1. Has(Items(n), q) <=> \E p \in 1 .. n : Has(ss[p], q)
      BY <1>1, <1>10
    <3>2. ASSUME NEW p \in 1 .. n, Has(ss[p], q) PROVE q \in 1 .. n /\ q \in Live
      BY <1>6, <3>2
    <3>3. ASSUME q \in 1 .. n, q \in Live PROVE Has(ss[q], q)
      BY <1>6, <3>3
    <3> QED
      BY <3>1, <3>2, <3>3
  <2>2. q \in LiveLeaves => q \in 1 .. n
    BY DEF LiveLeaves
  <2> QED
    BY <2>1, <2>2, LiveAre
<1> QED
  BY <1>1, <1>9, <1>11, <1>12 DEF Q

\* Until there is a root, and a body runs, there are no leaves.
LEMMA NothingBuilt ==
  ASSUME TreeInv, PromiseInv, pc = "body", root = 0
  PROVE  nodes = << >> /\ LeavesIn(nodes) = {} /\ numItems = 0
<1>1. nodes = << >> /\ numItems = 0
  BY DEF PromiseInv, Ready
<1>2. Len(<< >>) = 0
  OBVIOUS
<1> QED
  BY <1>1, <1>2 DEF LeavesIn

LEMMA QueryFinds ==
  ASSUME TreeInv, PromiseInv, pc = "body", NEW env \in Envelope, NEW limit \in Limits
  PROVE  \E s \in Seq(Nat) :
           /\ Once(s) /\ QueryResult(env, limit) = Upto(limit, s)
           /\ \A q : Has(s, q) <=> q \in Met(env)
<1>1. env \in Boxes \cup {NullEnvelope} /\ limit \in Nat /\ limit >= 1
  BY TreeAssumption
<1>2. Len(<< >>) = 0 /\ << >> \in Seq(Nat) /\ Once(<< >>) /\ (\A q : ~Has(<< >>, q)) /\ Upto(limit, << >>) = << >>
  <2>1. Len(<< >>) = 0 /\ << >> \in Seq(Nat)
    OBVIOUS
  <2>2. Once(<< >>) /\ \A q : ~Has(<< >>, q)
    BY <2>1 DEF Once, Has
  <2>3. Least(limit, 0) = 0
    BY <1>1 DEF Least
  <2>4. Upto(limit, << >>) = << >>
    <3>1. Upto(limit, << >>) = SubSeq(<< >>, 1, 0)
      BY <2>1, <2>3 DEF Upto
    <3>2. SubSeq(<< >>, 1, 0) = << >>
      OBVIOUS
    <3> QED
      BY <3>1, <3>2
  <2> QED
    BY <2>1, <2>2, <2>4
<1>3. CASE root = 0
  <2>1. Met(env) = {}
    BY <1>3, NothingBuilt DEF Met, LiveLeaves
  <2>2. QueryResult(env, limit) = << >>
    BY <1>3 DEF QueryResult, built
  <2> QED
    BY <1>2, <2>1, <2>2
<1>4. ASSUME root # 0, ~intersects(nodes[root].bounds, env)
      PROVE  \E s \in Seq(Nat) :
               /\ Once(s) /\ QueryResult(env, limit) = Upto(limit, s)
               /\ \A q : Has(s, q) <=> q \in Met(env)
  <2>1. QueryResult(env, limit) = << >>
    BY <1>4 DEF QueryResult
  <2>2. Tree /\ LeavesIn(nodes) = 1 .. numItems
    BY <1>4, BuiltIsTree DEF TreeInv, Built
  <2>3. ASSUME NEW q \in Met(env) PROVE FALSE
    <3>1. q \in 1 .. numItems /\ intersects(nodes[q].bounds, env) /\ q \in Nat
      BY <2>2, <2>3 DEF Met, LiveLeaves
    <3>2. intersects(nodes[root].bounds, env)
      BY <1>1, <2>2, <3>1, AllAreListed
    <3> QED
      BY <1>4, <3>2
  <2> QED
    BY <1>2, <2>1, <2>3
<1>5. ASSUME root # 0, intersects(nodes[root].bounds, env)
      PROVE  \E s \in Seq(Nat) :
               /\ Once(s) /\ QueryResult(env, limit) = Upto(limit, s)
               /\ \A q : Has(s, q) <=> q \in Met(env)
  <2>1. Tree /\ LeavesIn(nodes) = 1 .. numItems /\ numItems \in Nat
    BY <1>5, BuiltIsTree DEF TreeInv, Built, Locals
  <2>2. CASE isLeaf(nodes[root])
    <3>1. root = 1 /\ numItems = 1 /\ Len(nodes) = 1
      BY <2>1, <2>2, LoneLeaf
    <3>2. QueryResult(env, limit) = << 1 >>
      BY <1>5, <2>2, <3>1 DEF QueryResult, built
    <3>3. ~nodes[1].deleted
      BY <1>5, <2>2, <3>1 DEF PromiseInv, RootLives, isLeaf
    <3>4. \A q : q \in Met(env) <=> q = 1
      BY <1>5, <2>1, <3>1, <3>3 DEF Met, LiveLeaves
    <3>5. Len(<< 1 >>) = 1 /\ << 1 >>[1] = 1 /\ << 1 >> \in Seq(Nat)
      OBVIOUS
    <3>6. Once(<< 1 >>) /\ \A q : Has(<< 1 >>, q) <=> q = 1
      BY <3>5 DEF Once, Has
    <3>7. Upto(limit, << 1 >>) = << 1 >>
      <4>1. Least(limit, 1) = 1 /\ Least(1, 1) = 1
        BY <1>1 DEF Least
      <4>2. Upto(limit, << 1 >>) = Upto(1, << 1 >>)
        BY <3>5, <4>1 DEF Upto
      <4>3. Upto(1, << 1 >>) = << 1 >>
        BY <3>5, WholeList
      <4> QED
        BY <4>2, <4>3
    <3> QED
      BY <3>2, <3>4, <3>5, <3>6, <3>7
  <2>3. CASE ~isLeaf(nodes[root])
    <3> DEFINE s == LeavesBelow(env, Live)
    <3>1. QueryResult(env, limit) = Upto(limit, s)
      BY <1>5, <2>3 DEF QueryResult, built
    <3>2. s \in Seq(1 .. numItems) /\ Once(s)
      BY <1>1, <2>1, <2>3, LeavesAreFound
    <3>3. \A q : Has(s, q) <=> q \in 1 .. numItems /\ q \in Live /\ intersects(nodes[q].bounds, env)
      BY <1>1, <2>1, <2>3, LeavesAreFound
    <3> HIDE DEF s
    <3>4. s \in Seq(Nat)
      <4>1. \A k \in 1 .. Len(s) : s[k] \in Nat
        BY <2>1, <3>2
      <4> QED
        BY <3>2, <4>1
    <3>5. \A q : Has(s, q) <=> q \in Met(env)
      BY <2>1, <3>3, LiveAre DEF Met, LiveLeaves
    <3> QED
      BY <3>1, <3>2, <3>4, <3>5
  <2> QED
    BY <2>2, <2>3
<1> QED
  BY <1>3, <1>4, <1>5

LEMMA RemoveFinds ==
  ASSUME TreeInv, PromiseInv, pc = "body", call.op = "remove", NEW env \in Envelope, NEW i \in Item
  PROVE  /\ Removable(env, i) \in Seq(Nat)
         /\ \A q : Has(Removable(env, i), q) <=> q \in Met(env) /\ nodes[q].item = i
         /\ root # 0 => ~isLeaf(nodes[root])
<1>1. env \in Boxes \cup {NullEnvelope}
  BY TreeAssumption
<1>2. CASE root = 0
  <2>1. Removable(env, i) = << >> /\ Met(env) = {}
    BY <1>2, NothingBuilt DEF Removable, built, Met, LiveLeaves
  <2>2. Len(<< >>) = 0 /\ << >> \in Seq(Nat)
    OBVIOUS
  <2> QED
    BY <1>2, <2>1, <2>2 DEF Has
<1>3. CASE root # 0
  <2>1. Tree /\ LeavesIn(nodes) = 1 .. numItems /\ numItems \in Nat
    BY <1>3, BuiltIsTree DEF TreeInv, Built, Locals
  <2>2. 2 \in LeavesIn(nodes)
    BY DEF PromiseInv, Asked
  <2>3. ~isLeaf(nodes[root])
    BY <2>1, <2>2, LoneLeaf DEF LeavesIn
  <2> DEFINE s == Removable(env, i)
             W == {p \in Live : nodes[p].item = i}
  <2>4. s = LeavesBelow(env, W)
    BY <1>3 DEF Removable, built
  <2>5. s \in Seq(1 .. numItems)
    BY <1>1, <2>1, <2>3, <2>4, LeavesAreFound
  <2>6. \A q : Has(s, q) <=> q \in 1 .. numItems /\ q \in W /\ intersects(nodes[q].bounds, env)
    <3> HIDE DEF W, s
    <3> QED
      BY <1>1, <2>1, <2>3, <2>4, LeavesAreFound
  <2> HIDE DEF s
  <2>7. s \in Seq(Nat)
    <3>1. \A k \in 1 .. Len(s) : s[k] \in Nat
      BY <2>1, <2>5
    <3> QED
      BY <2>5, <3>1
  <2>8. \A q : Has(s, q) <=> q \in Met(env) /\ nodes[q].item = i
    BY <2>1, <2>6, LiveAre DEF Met, LiveLeaves
  <2> QED
    BY <2>3, <2>7, <2>8 DEF s
<1> QED
  BY <1>2, <1>3

------------------------------------------------------------------------------
(***************************************************************************)
(* The body of a call is the abstract answer.                              *)
(***************************************************************************)
LEMMA AnswerOfQuery ==
  ASSUME TreeInv, PromiseInv, Body, call.op = "query"
  PROVE  Promise!AnswerQuery
<1>1. /\ pc = "body" /\ pc' = "idle" /\ call' = call /\ nodes' = nodes
      /\ out' = QueryResult(call.env, call.limit)
  BY DEF Body
<1>2. /\ call \in Requests /\ call # NoCall /\ call.env \in Envelope
      /\ call.limit \in Limits /\ call.limit \in Nat
  BY <1>1, Requested, TreeAssumption DEF PromiseInv, Asked
<1> DEFINE env == call.env
           limit == call.limit
<1>3. PICK s \in Seq(Nat) :
        /\ Once(s) /\ out' = Upto(limit, s)
        /\ \A q : Has(s, q) <=> q \in Met(env)
  BY <1>1, <1>2, QueryFinds
<1>4. Told(nodes) /\ Met(env) \in SUBSET LeavesIn(nodes)
  BY DEF PromiseInv, Met, LiveLeaves
<1>5. Promise!Lists([k \in DOMAIN out' |-> Entry(out'[k])], {Entry(q) : q \in Met(env)}, limit)
  BY <1>2, <1>3, <1>4, LeavesAnswer
<1>6. Promise!Matching(env) = {Entry(q) : q \in Met(env)}
  <2>1. Promise!Matching(env) = {e \in {Entry(q) : q \in LiveLeaves} : intersects(e.bounds, env)}
    BY LiveAre DEF Promise!Matching
  <2>2. \A q : Entry(q).bounds = nodes[q].bounds
    BY DEF Entry
  <2>3. ASSUME NEW x \in Promise!Matching(env) PROVE x \in {Entry(q) : q \in Met(env)}
    <3>1. PICK q \in LiveLeaves : x = Entry(q) /\ intersects(x.bounds, env)
      BY <2>1, <2>3
    <3> QED
      BY <2>2, <3>1 DEF Met
  <2>4. ASSUME NEW q \in Met(env) PROVE Entry(q) \in Promise!Matching(env)
    <3>1. q \in LiveLeaves /\ intersects(Entry(q).bounds, env)
      BY <2>2 DEF Met
    <3> QED
      BY <2>1, <3>1
  <2> QED
    BY <2>3, <2>4
<1>7. Entries(out)' = [k \in DOMAIN out' |-> Entry(out'[k])]
  BY <1>1 DEF Entries, Entry
<1>8. UNCHANGED {Entry(p) : p \in {q \in Leaves : ~nodes[q].deleted}}
  BY <1>1 DEF Entry, Leaves, isLeaf
<1> HIDE DEF env, limit
<1>9. Promise!Lists(Entries(out)', Promise!Matching(env), limit)
  BY <1>5, <1>6, <1>7
<1> QED
  BY <1>1, <1>2, <1>8, <1>9 DEF Promise!AnswerQuery, env, limit

\* The entries that are not deleted, all of them, are what items and iterate visit.
LEMMA AllVisited ==
  ASSUME TreeInv, PromiseInv, NEW n \in Nat, LeavesIn(nodes) = 1 .. n
  PROVE  LET E == {Entry(p) : p \in {q \in Leaves : ~nodes[q].deleted}}
         IN  Promise!Lists([k \in DOMAIN Items(n) |-> Entry(Items(n)[k])], E, Promise!Cardinality(E))
<1> DEFINE s == Items(n)
           E == {Entry(q) : q \in LiveLeaves}
<1>1. s \in Seq(Nat) /\ Once(s)
  BY ItemsFound
<1>2. \A q : Has(s, q) <=> q \in LiveLeaves
  BY ItemsFound
<1> HIDE DEF s
<1>3. Told(nodes) /\ LiveLeaves \in SUBSET LeavesIn(nodes)
  BY DEF PromiseInv, LiveLeaves
<1>4. Cardinality(E) = Len(s)
  BY <1>1, <1>2, <1>3, LeavesAnswer
<1>5. \A limit \in Nat :
        Promise!Lists([k \in DOMAIN Upto(limit, s) |-> Entry(Upto(limit, s)[k])], E, limit)
  BY <1>1, <1>2, <1>3, LeavesAnswer
<1>6. Len(s) \in Nat /\ Upto(Len(s), s) = s
  BY <1>1, WholeList
<1>7. Promise!Lists([k \in DOMAIN s |-> Entry(s[k])], E, Len(s))
  <2> HIDE DEF E
  <2> QED
    BY <1>5, <1>6
<1>8. E = {Entry(p) : p \in {q \in Leaves : ~nodes[q].deleted}}
  BY LiveAre
<1>9. Promise!Cardinality(E) = Len(s)
  BY <1>4, SameCardinality
<1> HIDE DEF E
<1> QED
  BY <1>7, <1>8, <1>9 DEF s

LEMMA AnswerOfItems ==
  ASSUME TreeInv, PromiseInv, Body, call.op = "items"
  PROVE  Promise!AnswerItems
<1>1. /\ pc = "body" /\ pc' = "idle" /\ call' = call /\ nodes' = nodes
      /\ out' = Items(numItems)
  BY DEF Body
<1>2. call # NoCall
  BY <1>1, Requested DEF PromiseInv, Asked
<1>3. LeavesIn(nodes) = 1 .. numItems /\ numItems \in Nat
  <2>1. CASE root = 0
    BY <1>1, <2>1, NothingBuilt
  <2>2. CASE root # 0
    BY <2>2 DEF TreeInv, Built, Locals
  <2> QED
    BY <2>1, <2>2
<1> DEFINE E == {Entry(p) : p \in {q \in Leaves : ~nodes[q].deleted}}
<1>4. Promise!Lists([k \in DOMAIN out' |-> Entry(out'[k])], E, Promise!Cardinality(E))
  BY <1>1, <1>3, AllVisited
<1>5. Entries(out)' = [k \in DOMAIN out' |-> Entry(out'[k])]
  BY <1>1 DEF Entries, Entry
<1>6. UNCHANGED E
  BY <1>1 DEF Entry, Leaves, isLeaf
<1>7. Promise!Lists(Entries(out)', E, Promise!Cardinality(E))
  BY <1>4, <1>5
<1> QED
  BY <1>1, <1>2, <1>6, <1>7 DEF Promise!AnswerItems

LEMMA AnswerOfIterate ==
  ASSUME TreeInv, PromiseInv, iterate
  PROVE  Promise!Enumerate
<1> DEFINE n == IF built THEN numItems ELSE Len(nodes)
<1>1. /\ pc = "idle" /\ pc' = "idle" /\ call' = [op |-> "iterate"] /\ nodes' = nodes
      /\ out' = Items(n)
  BY DEF iterate, treeVars
<1>2. n \in Nat /\ LeavesIn(nodes) = 1 .. n
  <2>1. Len(nodes) \in Nat /\ numItems \in Nat
    BY DEF TreeInv, Locals
  <2> QED
    BY <1>1, <2>1 DEF TreeInv, NotBuilt, Built, built
<1> HIDE DEF n
<1> DEFINE E == {Entry(p) : p \in {q \in Leaves : ~nodes[q].deleted}}
<1>3. Promise!Lists([k \in DOMAIN out' |-> Entry(out'[k])], E, Promise!Cardinality(E))
  BY <1>1, <1>2, AllVisited
<1>4. Entries(out)' = [k \in DOMAIN out' |-> Entry(out'[k])]
  BY <1>1 DEF Entries, Entry
<1>5. UNCHANGED E
  BY <1>1 DEF Entry, Leaves, isLeaf
<1>6. Promise!Lists(Entries(out)', E, Promise!Cardinality(E))
  BY <1>3, <1>4
<1> QED
  BY <1>1, <1>5, <1>6 DEF Promise!Enumerate

\* What remove() does, if there is something to remove.
LEMMA RemoveBody ==
  ASSUME TreeInv, PromiseInv, Body, call.op = "remove"
  PROVE  LET s == Removable(call.env, call.item)
         IN  /\ call \in Requests /\ call.env \in Envelope /\ call.item \in Item
             /\ s \in Seq(Nat) /\ out' = Upto(1, s)
             /\ \A q : Has(s, q) <=> q \in Met(call.env) /\ nodes[q].item = call.item
             /\ s = << >> => out' = << >> /\ nodes' = nodes
             /\ s # << >> => /\ out' = << s[1] >> /\ Deletes(s[1])
                            /\ Has(s, s[1]) /\ s[1] \in LiveLeaves
             /\ root # 0 => ~isLeaf(nodes[root])
<1> DEFINE s == Removable(call.env, call.item)
<1>1. /\ pc = "body" /\ out' = Upto(1, s)
      /\ nodes' = IF s = << >> THEN nodes ELSE [nodes EXCEPT ![s[1]].deleted = TRUE]
  BY DEF Body
<1>2. call \in Requests /\ call.env \in Envelope /\ call.item \in Item
  BY <1>1, Requested DEF PromiseInv, Asked
<1>3. s \in Seq(Nat) /\ (root # 0 => ~isLeaf(nodes[root]))
  BY <1>1, <1>2, RemoveFinds
<1>4. \A q : Has(s, q) <=> q \in Met(call.env) /\ nodes[q].item = call.item
  BY <1>1, <1>2, RemoveFinds
<1> HIDE DEF s
<1>5. Len(s) \in Nat /\ (Len(s) = 0 <=> s = << >>) /\ 1 \in Nat
  BY <1>3
<1>6. Len(Upto(1, s)) = Least(1, Len(s)) /\ Upto(1, s) \in Seq(Nat)
      /\ \A k \in 1 .. Least(1, Len(s)) : Upto(1, s)[k] = s[k]
  <2> DEFINE Q == Nat
  <2>1. s \in Seq(Q)
    BY <1>3
  <2> HIDE DEF Q
  <2>2. Len(Upto(1, s)) = Least(1, Len(s)) /\ Upto(1, s) \in Seq(Q)
    BY <1>5, <2>1, UptoLimit
  <2>3. \A k \in 1 .. Least(1, Len(s)) : Upto(1, s)[k] = s[k]
    BY <1>5, <2>1, UptoLimit
  <2> QED
    BY <2>2, <2>3 DEF Q
<1>7. CASE s = << >>
  <2>1. Len(Upto(1, s)) = 0
    BY <1>5, <1>6, <1>7 DEF Least
  <2>2. Upto(1, s) = << >>
    BY <1>6, <2>1
  <2> QED
    BY <1>1, <1>2, <1>3, <1>4, <1>7, <2>2 DEF s
<1>8. CASE s # << >>
  <2>1. Least(1, Len(s)) = 1 /\ 1 \in 1 .. Len(s)
    BY <1>5, <1>8 DEF Least
  <2> DEFINE u == Upto(1, s)
  <2>2. 1 \in 1 .. Least(1, Len(s))
    BY <2>1
  <2> DEFINE m == Least(1, Len(s))
  <2>3. Len(u) = m /\ u \in Seq(Nat) /\ \A k \in 1 .. m : u[k] = s[k]
    BY <1>6
  <2> HIDE DEF u, m
  <2>4. Len(u) = 1 /\ u[1] = s[1] /\ u \in Seq(Nat)
    BY <2>1, <2>2, <2>3 DEF m
  <2>5. u = << s[1] >>
    BY <2>4
  <2>6. Has(s, s[1])
    BY <2>1 DEF Has
  <2>7. s[1] \in LiveLeaves
    BY <1>4, <2>6 DEF Met
  <2> QED
    BY <1>1, <1>2, <1>3, <1>4, <1>8, <2>5, <2>6, <2>7 DEF s, u, Deletes
<1> QED
  BY <1>7, <1>8

LEMMA BodyPromises ==
  ASSUME TreeInv, PromiseInv, Body
  PROVE  PromiseInv'
<1>1. pc = "body" /\ pc' = "idle" /\ UNCHANGED << root, numItems, call >>
  BY DEF Body
<1>2. CASE nodes' = nodes
  BY <1>1, <1>2 DEF PromiseInv, Told, Whole, Fresh, Asked, Ready, RootLives, LeavesIn
<1>3. CASE nodes' # nodes
  <2>1. call.op = "remove"
    BY <1>3 DEF Body
  <2> DEFINE s == Removable(call.env, call.item)
  <2>2. s # << >> /\ s[1] \in LiveLeaves /\ Deletes(s[1]) /\ (root # 0 => ~isLeaf(nodes[root]))
    BY <1>3, <2>1, RemoveBody
  <2> DEFINE p == s[1]
  <2> HIDE DEF s
  <2>3. p \in 1 .. Len(nodes) /\ nodes \in Seq(Node)
    BY <2>2, LiveAre DEF LiveLeaves, TreeInv
  <2> HIDE DEF p
  <2>4. /\ Len(nodes') = Len(nodes)
        /\ \A q \in 1 .. Len(nodes) :
             nodes'[q].first = nodes[q].first /\ nodes'[q].ordinal = nodes[q].ordinal
    BY <2>2, <2>3, DeletedIsSame DEF p
  <2>5. root # 0
    BY <1>1, <2>3, NothingBuilt
  <2>6. LeavesIn(nodes') = LeavesIn(nodes)
    BY <2>4 DEF LeavesIn
  <2>7. Told(nodes')
    BY <2>4, <2>6 DEF PromiseInv, Told, LeavesIn
  <2>8. nodes' # << >>
    BY <2>3, <2>4
  <2>9. RootLives'
    <3>1. root \in 1 .. Len(nodes)
      BY <2>3, <2>5 DEF TreeInv, Built
    <3> QED
      BY <1>1, <2>2, <2>4, <2>5, <3>1 DEF RootLives, isLeaf
  <2> QED
    BY <1>1, <2>5, <2>7, <2>8, <2>9 DEF PromiseInv, Fresh, Asked, Ready
<1> QED
  BY <1>2, <1>3

LEMMA AnswerOfRemove ==
  ASSUME TreeInv, PromiseInv, Body, call.op = "remove"
  PROVE  Promise!AnswerRemove
<1> DEFINE s == Removable(call.env, call.item)
           E == {Entry(p) : p \in {q \in Leaves : ~nodes[q].deleted}}
           found == {e \in Promise!Matching(call.env) : e.item = call.item}
<1>1. pc = "body" /\ pc' = "idle" /\ call' = call
  BY DEF Body
<1>2. call # NoCall
  BY <1>1, Requested DEF PromiseInv, Asked
<1>3. s \in Seq(Nat)
  BY RemoveBody
<1>4. \A q : Has(s, q) <=> q \in Met(call.env) /\ nodes[q].item = call.item
  BY RemoveBody
<1>5. s = << >> => out' = << >> /\ nodes' = nodes
  BY RemoveBody
<1>6. s # << >> => /\ out' = << s[1] >> /\ Deletes(s[1])
                   /\ Has(s, s[1]) /\ s[1] \in LiveLeaves
  BY RemoveBody
<1> HIDE DEF s
<1>7. E = {Entry(q) : q \in LiveLeaves}
  BY LiveAre
<1>8. \A q : Entry(q).bounds = nodes[q].bounds /\ Entry(q).item = nodes[q].item
  BY DEF Entry
<1>9. Promise!Matching(call.env) = {e \in E : intersects(e.bounds, call.env)}
  BY DEF Promise!Matching
<1>10. \A e : e \in found <=> \E q \in LiveLeaves : e = Entry(q) /\ Has(s, q)
  <2> TAKE e
  <2>1. ASSUME e \in found
        PROVE  \E q \in LiveLeaves : e = Entry(q) /\ Has(s, q)
    <3>1. PICK q \in LiveLeaves : e = Entry(q)
      BY <1>7, <1>9, <2>1
    <3>2. intersects(nodes[q].bounds, call.env) /\ nodes[q].item = call.item
      BY <1>8, <1>9, <2>1, <3>1
    <3> QED
      BY <1>4, <3>1, <3>2 DEF Met
  <2>2. ASSUME NEW q \in LiveLeaves, e = Entry(q), Has(s, q)
        PROVE  e \in found
    <3>1. intersects(nodes[q].bounds, call.env) /\ nodes[q].item = call.item
      BY <1>4, <2>2 DEF Met
    <3> QED
      BY <1>7, <1>8, <1>9, <2>2, <3>1
  <2> QED
    BY <2>1, <2>2
<1> DEFINE Outcome == IF found = {} THEN Entries(out)' = << >> /\ UNCHANGED E
                        ELSE \E e \in found : Entries(out)' = << e >> /\ E' = E \ {e}
<1>11. Outcome
  <2>1. CASE s = << >>
    <3>1. Len(s) = 0
      BY <2>1
    <3>2. found = {}
      BY <1>10, <3>1 DEF Has
    <3>3. Entries(out)' = << >>
      BY <1>5, <2>1 DEF Entries
    <3>4. UNCHANGED E
      BY <1>5, <2>1 DEF Entry, Leaves, isLeaf
    <3> QED
      BY <3>2, <3>3, <3>4
  <2>2. CASE s # << >>
    <3> DEFINE p == s[1]
    <3>1. Deletes(p) /\ out' = << p >> /\ p \in LiveLeaves /\ Has(s, p)
      BY <1>6, <2>2
    <3> HIDE DEF p
    <3>2. p \in 1 .. Len(nodes) /\ nodes \in Seq(Node) /\ p \in LeavesIn(nodes)
      BY <3>1, LiveAre DEF LiveLeaves, TreeInv
    <3>3. Len(nodes') = Len(nodes)
      BY <3>1, <3>2, DeletedIsSame
    <3>4. \A q \in 1 .. Len(nodes) :
            /\ nodes'[q].first = nodes[q].first /\ nodes'[q].ordinal = nodes[q].ordinal
            /\ nodes'[q].item = nodes[q].item /\ nodes'[q].bounds = nodes[q].bounds
            /\ nodes'[q].deleted = (IF q = p THEN TRUE ELSE nodes[q].deleted)
      BY <3>1, <3>2, DeletedIsSame
    <3>5. \A q \in 1 .. Len(nodes) : Entry(q)' = Entry(q)
      BY <3>4 DEF Entry
    <3>6. Entries(out)' = << Entry(p) >>
      <4>1. Entries(out)' = [k \in DOMAIN out' |-> Entry(out[k])']
        BY <1>1 DEF Entries
      <4>2. DOMAIN out' = 1 .. 1 /\ out'[1] = p
        BY <3>1
      <4>3. Entries(out)' = [k \in 1 .. 1 |-> Entry(p)]
        <5>1. \A k \in 1 .. 1 : Entry(out[k])' = Entry(p)
          <6> TAKE k \in 1 .. 1
          <6>1. out'[k] = p
            BY <4>2
          <6> QED
            BY <3>2, <3>4, <6>1 DEF Entry
        <5> QED
          BY <4>1, <4>2, <5>1
      <4>4. [k \in 1 .. 1 |-> Entry(p)] = << Entry(p) >>
        OBVIOUS
      <4> QED
        BY <4>3, <4>4
    <3>7. Leaves' = Leaves /\ \A q \in Leaves : q \in 1 .. Len(nodes)
      <4>1. DOMAIN nodes = 1 .. Len(nodes) /\ DOMAIN nodes' = 1 .. Len(nodes)
        <5>1. nodes' = [nodes EXCEPT ![p].deleted = TRUE]
          BY <3>1 DEF Deletes
        <5> QED
          BY <3>2, <5>1
      <4> QED
        BY <3>4, <4>1 DEF Leaves, isLeaf
    <3>8. {q \in Leaves : ~nodes[q].deleted} = LiveLeaves
      BY LiveAre
    <3>9. {q \in Leaves : ~nodes[q].deleted}' = LiveLeaves \ {p}
      BY <3>4, <3>7, <3>8
    <3>10. E' = {Entry(q) : q \in LiveLeaves \ {p}}
      <4>1. E' = {Entry(q)' : q \in LiveLeaves \ {p}}
        BY <3>9
      <4>2. \A q \in LiveLeaves \ {p} : Entry(q)' = Entry(q)
        BY <3>5, <3>7, <3>8
      <4> QED
        BY <4>1, <4>2
    <3>11. \A q \in LiveLeaves : Entry(q) = Entry(p) => q = p
      <4> SUFFICES ASSUME NEW q \in LiveLeaves, Entry(q) = Entry(p) PROVE q = p
        OBVIOUS
      <4>1. nodes[q].ordinal = nodes[p].ordinal
        BY DEF Entry
      <4>2. q \in LeavesIn(nodes)
        BY DEF LiveLeaves
      <4> QED
        BY <3>2, <4>1, <4>2 DEF PromiseInv, Told
    <3>12. E' = E \ {Entry(p)}
      BY <1>7, <3>1, <3>10, <3>11
    <3>13. Entry(p) \in found
      BY <1>10, <3>1
    <3> QED
      BY <3>6, <3>12, <3>13
  <2> QED
    BY <2>1, <2>2
<1> QED
  BY <1>1, <1>2, <1>11 DEF Promise!AnswerRemove

------------------------------------------------------------------------------
(***************************************************************************)
(* Pairs.                                                                  *)
(***************************************************************************)
\* The function PairsResult is computed with.
More(limit, f, p) ==
  IF p = 0 THEN << >>
  ELSE f[p - 1] \o Upto(IF Len(f[p - 1]) < limit THEN limit - Len(f[p - 1]) ELSE 1, PairsOf(p))

Visited(limit) == CHOOSE f : f = [p \in 0 .. numItems |-> More(limit, f, p)]

LEMMA PairsAreVisited ==
  ASSUME NEW limit
  PROVE  PairsResult(limit) = IF numItems < 2 THEN << >> ELSE Visited(limit)[numItems]
  BY DEF PairsResult, Visited, More

LEMMA VisitedExists ==
  ASSUME numItems \in Nat, NEW limit
  PROVE  \A p \in 0 .. numItems : Visited(limit)[p] = More(limit, Visited(limit), p)
<1> DEFINE n == numItems
           Fits(m, f) == \A p \in 0 .. m : f[p] = More(limit, f, p)
           G == {m \in 1 .. n : \E f : Fits(m, f)}
<1>1. \A f, g, p : f[p - 1] = g[p - 1] => More(limit, f, p) = More(limit, g, p)
  BY DEF More
<1>2. \E f : Fits(0, f)
  <2> DEFINE f == [p \in 0 .. 0 |-> << >>]
  <2>1. \A p \in 0 .. 0 : p = 0 /\ f[p] = << >> /\ More(limit, f, 0) = << >>
    BY DEF More
  <2> HIDE DEF f
  <2>2. Fits(0, f)
    BY <2>1
  <2> QED
    BY <2>2
<1>3. ASSUME NEW m \in 1 .. n, \A k \in 1 .. n : k < m => k \in G
      PROVE  m \in G
  <2>1. PICK f : Fits(m - 1, f)
    <3>1. CASE m = 1
      <4>1. m - 1 = 0
        BY <3>1
      <4> HIDE DEF Fits
      <4> QED
        BY <1>2, <4>1
    <3>2. CASE m # 1
      <4>1. m - 1 \in 1 .. n /\ m - 1 < m
        BY <3>2
      <4>2. m - 1 \in G
        BY <1>3, <4>1
      <4> QED
        BY <4>2
    <3> QED
      BY <3>1, <3>2
  <2> DEFINE g == [p \in 0 .. m |-> IF p # m THEN f[p] ELSE More(limit, f, m)]
  <2>2. \A p \in 0 .. m : (p # m => g[p] = f[p]) /\ (p = m => g[p] = More(limit, f, m))
    OBVIOUS
  <2> HIDE DEF g
  <2>3. ASSUME NEW p \in 0 .. m
        PROVE  g[p] = More(limit, g, p)
    <3>1. More(limit, f, p) = More(limit, g, p)
      <4>1. CASE p = 0
        BY <4>1 DEF More
      <4>2. CASE p # 0
        <5>1. p - 1 \in 0 .. m /\ p - 1 # m
          BY <4>2
        <5> QED
          BY <1>1, <2>2, <5>1
      <4> QED
        BY <4>1, <4>2
    <3>2. CASE p = m
      BY <2>2, <3>1, <3>2
    <3>3. CASE p # m
      <4>1. p \in 0 .. m - 1
        BY <3>3
      <4> QED
        BY <2>1, <2>2, <3>1, <3>3, <4>1
    <3> QED
      BY <3>2, <3>3
  <2>4. Fits(m, g)
    BY <2>3
  <2> HIDE DEF Fits
  <2> QED
    BY <2>4
<1>4. \A m \in 1 .. n : m \in G
  <2> HIDE DEF G
  <2> QED
    BY <1>3, StepByStep
<1>5. PICK f : Fits(n, f)
  <2>1. CASE n = 0
    <3> HIDE DEF Fits
    <3> QED
      BY <1>2, <2>1
  <2>2. CASE n # 0
    <3>1. n \in 1 .. n
      BY <2>2
    <3> QED
      BY <1>4, <3>1
  <2> QED
    BY <2>1, <2>2
<1> DEFINE h == [p \in 0 .. n |-> f[p]]
<1>6. \A p \in 0 .. n : h[p] = More(limit, h, p)
  <2> TAKE p \in 0 .. n
  <2>1. CASE p = 0
    BY <1>5, <2>1 DEF More
  <2>2. CASE p # 0
    <3>1. p - 1 \in 0 .. n
      BY <2>2
    <3>2. h[p - 1] = f[p - 1] /\ h[p] = f[p]
      BY <3>1
    <3> HIDE DEF h
    <3> QED
      BY <1>1, <1>5, <3>2
  <2> QED
    BY <2>1, <2>2
<1>7. h = [p \in 0 .. n |-> More(limit, h, p)]
  <2>1. h = [p \in 0 .. n |-> h[p]]
    OBVIOUS
  <2> HIDE DEF h
  <2> QED
    BY <1>6, <2>1
<1> HIDE DEF h
<1> DEFINE V == Visited(limit)
<1>8. V = [p \in 0 .. n |-> More(limit, V, p)]
  BY <1>7 DEF Visited
<1> HIDE DEF V
<1>9. \A p \in 0 .. n : V[p] = More(limit, V, p)
  BY <1>8
<1> QED
  BY <1>9 DEF V

\* The pairs of leaves that meet.
MetPairs == {x \in LeavesIn(nodes) \X LeavesIn(nodes) :
               x[1] < x[2] /\ intersects(nodes[x[2]].bounds, nodes[x[1]].bounds)}

LEMMA PairsOfLeaf ==
  ASSUME TreeInv, root # 0, ~isLeaf(nodes[root]), Whole(nodes), NEW p \in LeavesIn(nodes)
  PROVE  /\ PairsOf(p) \in Seq(LeavesIn(nodes) \X LeavesIn(nodes)) /\ Once(PairsOf(p))
         /\ \A x : Has(PairsOf(p), x) <=> x \in MetPairs /\ x[1] = p
<1>1. Tree /\ LeavesIn(nodes) = 1 .. numItems /\ numItems \in Nat
  BY BuiltIsTree DEF TreeInv, Built, Locals
<1> DEFINE env == nodes[p].bounds
           W == {q \in Live : q > p}
           s == LeavesBelow(env, W)
           L == LeavesIn(nodes)
           t == PairsOf(p)
<1>2. env \in Boxes \cup {NullEnvelope} /\ p \in Nat
  BY LiveAre DEF Node
<1>3. s \in Seq(L) /\ Once(s)
  BY <1>1, <1>2, LeavesAreFound
<1>4. \A q : Has(s, q) <=> q \in L /\ q \in W /\ intersects(nodes[q].bounds, env)
  <2> HIDE DEF W, env
  <2> QED
    BY <1>1, <1>2, LeavesAreFound
<1>5. t = [k \in 1 .. Len(s) |-> << p, s[k] >>]
  BY DEF PairsOf
<1> HIDE DEF s, t
<1>6. Len(s) \in Nat /\ \A k \in 1 .. Len(s) : s[k] \in L
  BY <1>3
<1>7. t \in Seq(L \X L) /\ Len(t) = Len(s) /\ \A k \in 1 .. Len(s) : t[k] = << p, s[k] >>
  <2> DEFINE Q == L \X L
  <2>1. \A k \in 1 .. Len(s) : << p, s[k] >> \in Q
    BY <1>6
  <2> HIDE DEF Q
  <2>2. t \in [1 .. Len(s) -> Q]
    BY <1>5, <2>1
  <2>3. t \in Seq(Q) /\ Len(t) = Len(s)
    BY <1>5, <1>6, <2>2
  <2> QED
    BY <1>5, <2>3 DEF Q
<1>8. Once(t)
  <2> SUFFICES ASSUME NEW i \in 1 .. Len(t), NEW j \in 1 .. Len(t), t[i] = t[j] PROVE i = j
    BY DEF Once
  <2>1. s[i] = s[j]
    BY <1>7
  <2> QED
    BY <1>3, <1>7, <2>1 DEF Once
<1>9. \A q \in L : q \in Live
  BY LiveAre DEF Whole, LiveLeaves
<1>10. ASSUME NEW x, Has(t, x)
       PROVE  x \in MetPairs /\ x[1] = p
  <2>1. PICK k \in 1 .. Len(s) : x = << p, s[k] >>
    BY <1>7, <1>10 DEF Has
  <2> DEFINE q == s[k]
  <2>2. Has(s, q)
    BY DEF Has
  <2>3. q \in L /\ q > p /\ intersects(nodes[q].bounds, env) /\ q \in Nat
    BY <1>1, <1>4, <2>2
  <2> HIDE DEF q
  <2>4. x = << p, q >> /\ x[1] = p /\ x[2] = q
    BY <2>1 DEF q
  <2> QED
    BY <1>2, <2>3, <2>4 DEF MetPairs
<1>11. ASSUME NEW x \in MetPairs, x[1] = p
       PROVE  Has(t, x)
  <2>1. PICK q \in L : x = << p, q >>
    BY <1>11 DEF MetPairs
  <2>2. p < q /\ intersects(nodes[q].bounds, env) /\ q \in Nat
    BY <1>1, <1>11, <2>1 DEF MetPairs
  <2>3. Has(s, q)
    BY <1>2, <1>4, <1>9, <2>2
  <2>4. PICK k \in 1 .. Len(s) : s[k] = q
    BY <2>3 DEF Has
  <2> QED
    BY <1>7, <2>1, <2>4 DEF Has
<1> QED
  BY <1>7, <1>8, <1>10, <1>11 DEF t

\* The beginning of a sequence.
LEMMA UptoHas ==
  ASSUME NEW S, NEW s \in Seq(S), NEW limit \in Nat, Once(s)
  PROVE  /\ Once(Upto(limit, s))
         /\ \A x : Has(Upto(limit, s), x) => Has(s, x)
         /\ Len(Upto(limit, s)) = limit \/ \A x : Has(s, x) => Has(Upto(limit, s), x)
<1> DEFINE u == Upto(limit, s)
           m == Least(limit, Len(s))
<1>1. Len(u) = m
  BY UptoLimit
<1>2. \A k \in 1 .. m : k \in 1 .. Len(s) /\ u[k] = s[k]
  BY UptoLimit
<1>3. Len(s) \in Nat /\ (m = limit \/ m = Len(s))
  BY DEF Least
<1> HIDE DEF u, m
<1>4. Once(u)
  BY <1>1, <1>2 DEF Once
<1>5. \A x : Has(u, x) => Has(s, x)
  BY <1>1, <1>2 DEF Has
<1>6. m = Len(s) => \A x : Has(s, x) => Has(u, x)
  BY <1>1, <1>2 DEF Has
<1> QED
  BY <1>1, <1>3, <1>4, <1>5, <1>6 DEF u

LEMMA VisitedPairs ==
  ASSUME TreeInv, root # 0, ~isLeaf(nodes[root]), Whole(nodes), NEW limit \in Nat
  PROVE  LET u == Visited(limit)[numItems]
         IN  /\ u \in Seq(LeavesIn(nodes) \X LeavesIn(nodes)) /\ Once(u)
             /\ \A x : Has(u, x) => x \in MetPairs
             /\ Len(u) >= limit \/ \A x \in MetPairs : Has(u, x)
<1> DEFINE n == numItems
           L == LeavesIn(nodes)
           Q == L \X L
           V == Visited(limit)
           Good(m) == /\ V[m] \in Seq(Q) /\ Once(V[m])
                      /\ \A x : Has(V[m], x) => x \in MetPairs /\ x[1] <= m
                      /\ Len(V[m]) >= limit \/ \A x \in MetPairs : x[1] <= m => Has(V[m], x)
           G == {m \in 1 .. n : Good(m)}
<1>1. L = 1 .. n /\ n \in Nat
  BY DEF TreeInv, Built, Locals
<1>2. \A p \in 0 .. n : V[p] = More(limit, V, p)
  BY <1>1, VisitedExists
<1> HIDE DEF V
<1>3. \A x \in MetPairs : x \in Q /\ x[1] \in 1 .. n
  BY <1>1 DEF MetPairs
<1>4. Good(0)
  <2>1. V[0] = << >>
    BY <1>1, <1>2 DEF More
  <2>2. Len(<< >>) = 0 /\ << >> \in Seq(Q)
    OBVIOUS
  <2>3. Once(<< >>) /\ \A x : ~Has(<< >>, x)
    BY <2>2 DEF Once, Has
  <2>4. \A x \in MetPairs : ~(x[1] <= 0)
    BY <1>1, <1>3
  <2> QED
    BY <2>1, <2>2, <2>3, <2>4
<1>5. ASSUME NEW m \in 1 .. n, Good(m - 1)
      PROVE  Good(m)
  <2> DEFINE v == V[m - 1]
             l == IF Len(v) < limit THEN limit - Len(v) ELSE 1
             w == PairsOf(m)
             t == Upto(l, w)
  <2>1. v \in Seq(Q) /\ Once(v)
    BY <1>5
  <2>2. \A x : Has(v, x) => x \in MetPairs /\ x[1] <= m - 1
    BY <1>5
  <2>3. Len(v) >= limit \/ \A x \in MetPairs : x[1] <= m - 1 => Has(v, x)
    BY <1>5
  <2>4. V[m] = v \o t
    <3>1. m \in 0 .. n /\ m # 0
      BY <1>1
    <3>2. V[m] = More(limit, V, m)
      BY <1>2, <3>1
    <3>3. More(limit, V, m) = v \o t
      BY <3>1, Zenon DEF More
    <3> QED
      BY <3>2, <3>3
  <2>5. w \in Seq(Q) /\ Once(w)
    BY <1>1, PairsOfLeaf
  <2>6. \A x : Has(w, x) <=> x \in MetPairs /\ x[1] = m
    BY <1>1, PairsOfLeaf
  <2> HIDE DEF v, w, L
  <2>7. Len(v) \in Nat /\ l \in Nat
    BY <2>1
  <2> HIDE DEF l, Q
  <2>8. t \in Seq(Q) /\ Len(t) \in Nat
    <3>1. t \in Seq(Q)
      BY <2>5, <2>7, UptoLimit
    <3> QED
      BY <3>1
  <2>9. Once(t)
    BY <2>5, <2>7, UptoHas
  <2>10. \A x : Has(t, x) => x \in MetPairs /\ x[1] = m
    <3>1. \A x : Has(t, x) => Has(w, x)
      BY <2>5, <2>7, UptoHas
    <3> QED
      BY <2>6, <3>1
  <2>11. Len(t) = l \/ \A x : Has(w, x) => Has(t, x)
    BY <2>5, <2>7, UptoHas
  <2> HIDE DEF t
  <2>12. \A x : ~(Has(v, x) /\ Has(t, x))
    BY <1>1, <1>3, <2>2, <2>10
  <2>13. v \o t \in Seq(Q) /\ Len(v \o t) = Len(v) + Len(t)
    BY <2>1, <2>8
  <2>14. \A x : Has(v \o t, x) <=> Has(v, x) \/ Has(t, x)
    BY <2>1, <2>8, Joined
  <2>15. Once(v \o t)
    BY <2>1, <2>8, <2>9, <2>12, Joined
  <2>16. \A x : Has(v \o t, x) => x \in MetPairs /\ x[1] <= m
    <3> TAKE x
    <3>1. CASE Has(v, x)
      <4>1. x \in MetPairs /\ x[1] <= m - 1 /\ x[1] \in 1 .. n
        BY <1>3, <2>2, <3>1
      <4> QED
        BY <1>1, <4>1
    <3>2. CASE Has(t, x)
      BY <1>1, <2>10, <3>2
    <3> QED
      BY <2>14, <3>1, <3>2
  <2>17. Len(v \o t) >= limit \/ \A x \in MetPairs : x[1] <= m => Has(v \o t, x)
    <3>1. CASE Len(v) >= limit
      BY <2>7, <2>8, <2>13, <3>1
    <3>2. CASE ~(Len(v) >= limit) /\ Len(t) = l
      <4>1. l = limit - Len(v)
        BY <2>7, <3>2 DEF l
      <4> QED
        BY <2>7, <2>13, <3>2, <4>1
    <3>3. CASE ~(Len(v) >= limit) /\ \A x : Has(w, x) => Has(t, x)
      <4> SUFFICES ASSUME NEW x \in MetPairs, x[1] <= m PROVE Has(v \o t, x)
        OBVIOUS
      <4>1. x[1] = m \/ x[1] <= m - 1
        BY <1>1, <1>3
      <4> QED
        BY <2>3, <2>6, <2>14, <3>3, <4>1
    <3> QED
      BY <2>11, <3>1, <3>2, <3>3
  <2> QED
    BY <2>4, <2>13, <2>15, <2>16, <2>17
<1>6. Good(n)
  <2>1. CASE n = 0
    <3> HIDE DEF Good
    <3> QED
      BY <1>4, <2>1
  <2>2. CASE n # 0
    <3>1. ASSUME NEW m \in 1 .. n, \A k \in 1 .. n : k < m => k \in G
          PROVE  m \in G
      <4>1. m = 1 \/ (m - 1 \in 1 .. n /\ m - 1 < m)
        BY <1>1
      <4>2. Good(m - 1)
        <5>1. CASE m = 1
          <6>1. m - 1 = 0
            BY <5>1
          <6> HIDE DEF Good
          <6> QED
            BY <1>4, <6>1
        <5>2. CASE m - 1 \in 1 .. n /\ m - 1 < m
          <6>1. m - 1 \in G
            BY <3>1, <5>2
          <6> HIDE DEF Good
          <6> QED
            BY <6>1
        <5> QED
          BY <4>1, <5>1, <5>2
      <4> HIDE DEF Good
      <4> QED
        BY <1>5, <4>2
    <3>2. n \in 1 .. n
      BY <1>1, <2>2
    <3>3. n \in G
      <4> HIDE DEF G
      <4> QED
        BY <1>1, <3>1, <3>2, StepByStep
    <3> HIDE DEF Good
    <3> QED
      BY <3>3
  <2> QED
    BY <2>1, <2>2
<1>7. \A x \in MetPairs : x[1] <= n
  BY <1>1, <1>3
<1> QED
  BY <1>6, <1>7 DEF V

LEMMA PairsFound ==
  ASSUME TreeInv, PromiseInv, pc = "body", call.op = "queryPairs", NEW limit \in Nat
  PROVE  LET u == PairsResult(limit)
         IN  /\ u \in Seq(LeavesIn(nodes) \X LeavesIn(nodes)) /\ Once(u)
             /\ \A x : Has(u, x) => x \in MetPairs
             /\ Len(u) >= limit \/ \A x \in MetPairs : Has(u, x)
<1>1. Whole(nodes)
  BY DEF PromiseInv, Asked
<1>2. LeavesIn(nodes) = 1 .. numItems /\ numItems \in Nat
  <2>1. CASE root = 0
    BY <2>1, NothingBuilt
  <2>2. CASE root # 0
    BY <2>2 DEF TreeInv, Built, Locals
  <2> QED
    BY <2>1, <2>2
<1>3. CASE numItems < 2
  <2>1. PairsResult(limit) = << >>
    BY <1>3, PairsAreVisited
  <2>2. \A x : x \notin MetPairs
    <3> SUFFICES ASSUME NEW x \in MetPairs PROVE FALSE
      OBVIOUS
    <3>1. x[1] \in 1 .. numItems /\ x[2] \in 1 .. numItems /\ x[1] < x[2]
      BY <1>2 DEF MetPairs
    <3> QED
      BY <1>2, <1>3, <3>1
  <2>3. Len(<< >>) = 0 /\ << >> \in Seq(LeavesIn(nodes) \X LeavesIn(nodes))
    OBVIOUS
  <2> QED
    BY <2>1, <2>2, <2>3 DEF Once, Has
<1>4. CASE ~(numItems < 2)
  <2>1. root # 0
    BY <1>4, NothingBuilt
  <2>2. ~isLeaf(nodes[root])
    BY <1>2, <1>4, <2>1, BuiltIsTree, LoneLeaf
  <2>3. PairsResult(limit) = Visited(limit)[numItems]
    BY <1>4, PairsAreVisited
  <2> QED
    BY <1>1, <2>1, <2>2, <2>3, VisitedPairs
<1> QED
  BY <1>3, <1>4

\* A pair of leaves as the abstract index sees it.
Two(x) == {Entry(x[1]), Entry(x[2])}

LEMMA OfTwo ==
  ASSUME NEW P, IsFiniteSet(P)
  PROVE  Cardinality(P) = 2 <=> \E d, e : d # e /\ P = {d, e}
<1>1. ASSUME NEW d, NEW e, d # e, P = {d, e}
      PROVE  Cardinality(P) = 2
  <2>1. IsFiniteSet({d}) /\ Cardinality({d}) = 1
    BY FS_Singleton
  <2>2. P = {d} \cup {e} /\ e \notin {d}
    BY <1>1
  <2>3. Cardinality({d} \cup {e}) = Cardinality({d}) + 1
    BY <2>1, <2>2, FS_AddElement
  <2> QED
    BY <2>1, <2>2, <2>3
<1>2. ASSUME Cardinality(P) = 2
      PROVE  \E d, e : d # e /\ P = {d, e}
  <2>1. ExistsBijection(1 .. 2, P)
    BY <1>2, FS_CardinalityType
  <2>2. PICK f \in Bijection(1 .. 2, P) : TRUE
    BY <2>1 DEF ExistsBijection
  <2>3. /\ f[1] \in P /\ f[2] \in P /\ f[1] # f[2]
        /\ \A x \in P : x = f[1] \/ x = f[2]
    <3>1. f \in Injection(1 .. 2, P) /\ f \in Surjection(1 .. 2, P)
      BY DEF Bijection
    <3>2. /\ f \in [1 .. 2 -> P] /\ \A i, j \in 1 .. 2 : f[i] = f[j] => i = j
          /\ \A x \in P : \E i \in 1 .. 2 : f[i] = x
      BY <3>1 DEF Injection, Surjection, IsInjective
    <3>3. \A i : i \in 1 .. 2 <=> i = 1 \/ i = 2
      OBVIOUS
    <3>4. 1 # 2
      OBVIOUS
    <3> QED
      BY <3>2, <3>3, <3>4
  <2> QED
    BY <2>3
<1> QED
  BY <1>1, <1>2

\* What meets is not null, meets itself, and is met in turn.
LEMMA MeetingIsMutual ==
  ASSUME NEW e \in Boxes, NEW f \in Boxes
  PROVE  intersects(e, e) /\ (intersects(e, f) <=> intersects(f, e))
<1>1. ~isNull(e) /\ ~isNull(f)
  BY TreeAssumption DEF isNull
<1>2. e.minx <= e.maxx /\ e.miny <= e.maxy
  BY DEF Boxes
<1> QED
  BY <1>1, <1>2 DEF intersects

\* The pairs of leaves that meet are the pairs of entries that do.
LEMMA PairsAreMeetingPairs ==
  ASSUME TreeInv, Told(nodes), Whole(nodes)
  PROVE  /\ \A x \in MetPairs : Two(x) \in Promise!MeetingPairs
         /\ \A P \in Promise!MeetingPairs : \E x \in MetPairs : P = Two(x)
         /\ \A x, y \in MetPairs : Two(x) = Two(y) => x = y
         /\ IsFiniteSet(Promise!MeetingPairs)
<1> DEFINE L == LeavesIn(nodes)
           E == {Entry(q) : q \in L}
           M == Promise!MeetingPairs
<1>1. L = LiveLeaves
  BY DEF Whole, LiveLeaves
<1>2. E = {Entry(p) : p \in {q \in Leaves : ~nodes[q].deleted}}
  BY <1>1, LiveAre
<1>3. M = {P \in SUBSET E : /\ Promise!Cardinality(P) = 2
                            /\ \A d, e \in P : intersects(d.bounds, e.bounds)}
  BY <1>2 DEF Promise!MeetingPairs
<1>4. \A p, q \in L : Entry(p) = Entry(q) => p = q
  <2> SUFFICES ASSUME NEW p \in L, NEW q \in L, Entry(p) = Entry(q) PROVE p = q
    OBVIOUS
  <2>1. nodes[p].ordinal = nodes[q].ordinal
    BY DEF Entry
  <2> QED
    BY <2>1 DEF Told
<1>5. \A q \in L : Entry(q).bounds = nodes[q].bounds /\ nodes[q].bounds \in Boxes /\ q \in Nat
  BY LiveAre DEF Entry, Node
<1>6. IsFiniteSet(E)
  <2>1. IsFiniteSet(L)
    <3>1. nodes \in Seq(Node)
      BY DEF TreeInv
    <3>2. Len(nodes) \in Int /\ 1 \in Int /\ L \in SUBSET (1 .. Len(nodes))
      BY <3>1 DEF LeavesIn
    <3>3. IsFiniteSet(1 .. Len(nodes))
      BY <3>2, FS_Interval
    <3> QED
      BY <3>2, <3>3, FS_Subset
  <2> DEFINE f == [q \in L |-> Entry(q)]
  <2>2. f \in Bijection(L, E)
    <3>1. f \in [L -> E] /\ (\A p, q \in L : f[p] = f[q] => p = q) /\ \A x \in E : \E q \in L : f[q] = x
      BY <1>4
    <3> HIDE DEF f, L, E
    <3> QED
      BY <3>1 DEF Bijection, Injection, Surjection, IsInjective
  <2>3. ExistsBijection(L, E)
    BY <2>2 DEF ExistsBijection
  <2> HIDE DEF L, E
  <2> QED
    BY <2>1, <2>3, FS_Bijection
<1> HIDE DEF M
<1>7. IsFiniteSet(M)
  <2>1. IsFiniteSet(SUBSET E)
    BY <1>6, FS_SUBSET
  <2>2. M \in SUBSET (SUBSET E)
    BY <1>3
  <2> QED
    BY <2>1, <2>2, FS_Subset
<1>8. \A P \in SUBSET E : IsFiniteSet(P) /\ Promise!Cardinality(P) = Cardinality(P)
  <2> TAKE P \in SUBSET E
  <2> HIDE DEF E
  <2>1. IsFiniteSet(P)
    BY <1>6, FS_Subset
  <2> QED
    BY <2>1, SameCardinality
<1>9. ASSUME NEW x \in MetPairs
      PROVE  Two(x) \in M
  <2>1. /\ x[1] \in L /\ x[2] \in L /\ x[1] < x[2]
        /\ intersects(nodes[x[2]].bounds, nodes[x[1]].bounds)
    BY DEF MetPairs
  <2> DEFINE a == x[1]
             b == x[2]
  <2>2. a \in L /\ b \in L /\ a # b /\ intersects(nodes[b].bounds, nodes[a].bounds)
    BY <1>5, <2>1
  <2>3. Two(x) = {Entry(a), Entry(b)}
    BY DEF Two
  <2> HIDE DEF a, b
  <2>4. Entry(a) # Entry(b) /\ Two(x) \in SUBSET E
    BY <1>4, <2>2, <2>3
  <2>5. Promise!Cardinality(Two(x)) = 2
    <3> HIDE DEF E
    <3> QED
      BY <1>8, <2>3, <2>4, OfTwo
  <2>6. /\ intersects(nodes[a].bounds, nodes[a].bounds) /\ intersects(nodes[b].bounds, nodes[b].bounds)
        /\ intersects(nodes[a].bounds, nodes[b].bounds)
    BY <1>5, <2>2, MeetingIsMutual
  <2>7. \A d, e \in Two(x) : intersects(d.bounds, e.bounds)
    BY <1>5, <2>2, <2>3, <2>6
  <2> QED
    BY <1>3, <2>4, <2>5, <2>7
<1>10. ASSUME NEW P \in M
       PROVE  \E x \in MetPairs : P = Two(x)
  <2>1. /\ P \in SUBSET E /\ Promise!Cardinality(P) = 2
        /\ \A d, e \in P : intersects(d.bounds, e.bounds)
    BY <1>3
  <2>2. PICK d, e : d # e /\ P = {d, e}
    <3> HIDE DEF E
    <3> QED
      BY <1>8, <2>1, OfTwo
  <2>3. PICK a \in L, b \in L : d = Entry(a) /\ e = Entry(b)
    BY <2>1, <2>2
  <2>4. /\ a # b /\ a \in Nat /\ b \in Nat
        /\ intersects(nodes[a].bounds, nodes[b].bounds) /\ intersects(nodes[b].bounds, nodes[a].bounds)
    BY <1>5, <2>1, <2>2, <2>3
  <2>5. CASE a < b
    <3>1. << a, b >> \in MetPairs /\ Two(<< a, b >>) = P
      BY <2>2, <2>3, <2>4, <2>5 DEF MetPairs, Two
    <3> QED
      BY <3>1
  <2>6. CASE b < a
    <3>1. << b, a >> \in MetPairs /\ Two(<< b, a >>) = P
      BY <2>2, <2>3, <2>4, <2>6 DEF MetPairs, Two
    <3> QED
      BY <3>1
  <2> QED
    BY <2>4, <2>5, <2>6
<1>11. ASSUME NEW x \in MetPairs, NEW y \in MetPairs, Two(x) = Two(y)
       PROVE  x = y
  <2>1. /\ x[1] \in L /\ x[2] \in L /\ x[1] < x[2] /\ y[1] \in L /\ y[2] \in L /\ y[1] < y[2]
        /\ x = << x[1], x[2] >> /\ y = << y[1], y[2] >>
    BY DEF MetPairs
  <2>2. /\ Entry(x[1]) \in {Entry(y[1]), Entry(y[2])}
        /\ Entry(x[2]) \in {Entry(y[1]), Entry(y[2])}
    BY <1>11 DEF Two
  <2>3. (x[1] = y[1] \/ x[1] = y[2]) /\ (x[2] = y[1] \/ x[2] = y[2])
    BY <1>4, <2>1, <2>2
  <2>4. x[1] \in Nat /\ x[2] \in Nat /\ y[1] \in Nat /\ y[2] \in Nat
    BY <1>5, <2>1
  <2>5. x[1] = y[1] /\ x[2] = y[2]
    BY <2>1, <2>3, <2>4
  <2> QED
    BY <2>1, <2>5
<1> QED
  BY <1>7, <1>9, <1>10, <1>11 DEF M

LEMMA AnswerOfPairs ==
  ASSUME TreeInv, PromiseInv, Body, call.op = "queryPairs"
  PROVE  Promise!AnswerPairs
<1> DEFINE limit == call.limit
           u == PairsResult(limit)
           L == LeavesIn(nodes)
           M == Promise!MeetingPairs
           A == Entries(out)'
           B == Promise!AsSets(A)
<1>1. /\ pc = "body" /\ pc' = "idle" /\ call' = call /\ nodes' = nodes /\ out' = u
  BY DEF Body
<1>2. call \in Requests /\ call # NoCall /\ limit \in Nat
  BY <1>1, Requested, TreeAssumption DEF PromiseInv, Asked
<1>3. Told(nodes) /\ Whole(nodes)
  BY <1>1 DEF PromiseInv, Asked
<1>4. u \in Seq(L \X L) /\ Once(u)
  BY <1>1, <1>2, PairsFound
<1>5. (\A x : Has(u, x) => x \in MetPairs) /\ (Len(u) >= limit \/ \A x \in MetPairs : Has(u, x))
  BY <1>1, <1>2, PairsFound
<1>6. /\ \A x \in MetPairs : Two(x) \in M
      /\ \A P \in M : \E x \in MetPairs : P = Two(x)
      /\ \A x, y \in MetPairs : Two(x) = Two(y) => x = y
      /\ IsFiniteSet(M)
  BY <1>3, PairsAreMeetingPairs
<1> HIDE DEF u, M
<1>7. Len(u) \in Nat /\ DOMAIN u = 1 .. Len(u) /\ \A k \in 1 .. Len(u) : u[k] \in MetPairs
  BY <1>4, <1>5 DEF Has
<1>8. A = [k \in DOMAIN u |-> << Entry(u[k][1]), Entry(u[k][2]) >>]
  BY <1>1 DEF Entries, Entry
<1> HIDE DEF A
<1>9. B = [k \in DOMAIN A |-> {A[k][1], A[k][2]}]
  BY DEF Promise!AsSets
<1>10. Len(B) = Len(u) /\ DOMAIN B = 1 .. Len(u) /\ \A k \in 1 .. Len(u) : B[k] = Two(u[k])
  <2>1. DOMAIN A = 1 .. Len(u)
    BY <1>7, <1>8
  <2>2. \A k \in 1 .. Len(u) : {A[k][1], A[k][2]} = Two(u[k])
    BY <1>7, <1>8 DEF Two
  <2>3. B = [k \in 1 .. Len(u) |-> Two(u[k])]
    BY <1>9, <2>1, <2>2
  <2> HIDE DEF B
  <2> QED
    BY <1>7, <2>3
<1> HIDE DEF B
<1>11. \A k \in DOMAIN B : B[k] \in M
  BY <1>6, <1>7, <1>10
<1>12. \A j, k \in DOMAIN B : j # k => B[j] # B[k]
  BY <1>4, <1>6, <1>7, <1>10 DEF Once
<1>13. Cardinality(M) \in Nat
  BY <1>6, FS_CardinalityType
<1>14. (\A x \in MetPairs : Has(u, x)) => Cardinality(M) = Len(u)
  <2> HAVE \A x \in MetPairs : Has(u, x)
  <2>1. B \in Seq(M)
    <3>1. B = [k \in 1 .. Len(u) |-> B[k]]
      <4>1. B = [k \in DOMAIN B |-> B[k]]
        BY <1>9
      <4> QED
        BY <1>10, <4>1
    <3>2. B \in [1 .. Len(u) -> M]
      BY <1>10, <1>11, <3>1
    <3> QED
      BY <1>7, <3>2
  <2>2. Once(B)
    BY <1>10, <1>12 DEF Once
  <2>3. ASSUME NEW P \in M PROVE Has(B, P)
    <3>1. PICK x \in MetPairs : P = Two(x)
      BY <1>6
    <3>2. PICK k \in 1 .. Len(u) : u[k] = x
      <4>1. Has(u, x)
        OBVIOUS
      <4> QED
        BY <4>1 DEF Has
    <3> QED
      BY <1>10, <3>1, <3>2 DEF Has
  <2>4. \A P : Has(B, P) <=> P \in M
    <3>1. ASSUME NEW P, Has(B, P) PROVE P \in M
      BY <1>10, <1>11, <3>1 DEF Has
    <3> QED
      BY <2>3, <3>1
  <2> QED
    BY <1>10, <2>1, <2>2, <2>4, Counted
<1>15. Len(B) >= Promise!Lowest(limit, Promise!Cardinality(M))
  <2>1. Promise!Cardinality(M) = Cardinality(M)
    BY SameCardinality
  <2>2. Promise!Lowest(limit, Cardinality(M)) <= limit /\ Promise!Lowest(limit, Cardinality(M)) <= Cardinality(M)
        /\ Promise!Lowest(limit, Cardinality(M)) \in Nat
    BY <1>2, <1>13 DEF Promise!Lowest
  <2> QED
    BY <1>2, <1>5, <1>7, <1>10, <1>13, <1>14, <2>1, <2>2
<1>16. Promise!ListsAtLeast(B, M, limit)
  BY <1>11, <1>12, <1>15 DEF Promise!ListsAtLeast
<1>17. UNCHANGED {Entry(p) : p \in {q \in Leaves : ~nodes[q].deleted}}
  BY <1>1 DEF Entry, Leaves, isLeaf
<1>18. Promise!ListsAtLeast(Promise!AsSets(Entries(out)'), Promise!MeetingPairs, call.limit)
  BY <1>16 DEF A, B, M
<1> HIDE DEF limit
<1> QED
  BY <1>1, <1>2, <1>17, <1>18 DEF Promise!AnswerPairs

------------------------------------------------------------------------------
(***************************************************************************)
(* Every step is one of the abstract index, or none.                       *)
(***************************************************************************)
LEMMA InsertAdds ==
  ASSUME TreeInv, MayInsert, NEW i \in Item, NEW e \in Envelope, insert(i, e)
  PROVE  Promise!Add
<1> DEFINE E == {Entry(p) : p \in {q \in Leaves : ~nodes[q].deleted}}
           n == Len(nodes)
<1>1. root = 0 /\ pc = "idle" /\ pc' = "idle" /\ out' = << >> /\ call' = call
  BY DEF MayInsert, built, insert
<1>2. nodes \in Seq(Node) /\ n \in Nat
  BY DEF TreeInv
<1>3. IsFiniteSet(E)
  <2>1. DOMAIN nodes = 1 .. n /\ Leaves \in SUBSET (1 .. n)
    BY <1>2 DEF Leaves
  <2> DEFINE S == {q \in Leaves : ~nodes[q].deleted}
             f == [p \in 1 .. n |-> Entry(p)]
  <2>2. IsFiniteSet(1 .. n)
    BY <1>2, FS_Interval
  <2>3. S \in SUBSET (1 .. n)
    BY <2>1
  <2>4. IsFiniteSet(S)
    BY <2>2, <2>3, FS_Subset
  <2> HIDE DEF S
  <2> DEFINE g == [p \in S |-> Entry(p)]
  <2>5. g \in Surjection(S, {Entry(p) : p \in S})
    BY DEF Surjection
  <2>6. IsFiniteSet({Entry(p) : p \in S})
    BY <2>4, <2>5, FS_Surjection
  <2> QED
    BY <2>6 DEF S
<1>4. \E x : E' \subseteq E \cup {x} /\ E \subseteq E'
  <2>1. CASE isNull(e)
    <3>1. nodes' = nodes
      BY <2>1 DEF insert
    <3>2. E' = E
      BY <3>1 DEF Entry, Leaves, isLeaf
    <3> QED
      BY <3>2
  <2>2. CASE ~isNull(e)
    <3>1. nodes' = Append(nodes, Leaf(i, e, n + 1))
      BY <2>2 DEF insert
    <3>2. /\ DOMAIN nodes' = 1 .. n + 1 /\ DOMAIN nodes = 1 .. n
          /\ \A p \in 1 .. n : nodes'[p] = nodes[p] /\ p \in 1 .. n + 1
          /\ \A p \in 1 .. n + 1 : p \in 1 .. n \/ p = n + 1
      BY <1>2, <3>1
    <3>3. \A p \in 1 .. n : Entry(p)' = Entry(p)
      BY <3>2 DEF Entry
    <3> DEFINE S == {q \in Leaves : ~nodes[q].deleted}
    <3>4. S' \subseteq S \cup {n + 1} /\ S \subseteq S' /\ S \subseteq 1 .. n
      BY <3>2 DEF Leaves, isLeaf
    <3>5. PICK m : m = n + 1
      OBVIOUS
    <3> DEFINE x == Entry(m)'
    <3>6. E' = {Entry(p)' : p \in S'}
      OBVIOUS
    <3> HIDE DEF S
    <3>7. ASSUME NEW y \in E' PROVE y \in E \cup {x}
      <4>1. PICK p \in S' : y = Entry(p)'
        BY <3>6, <3>7
      <4>2. CASE p = m
        BY <4>1, <4>2
      <4>3. CASE p \in S
        <5>1. y = Entry(p)
          BY <3>3, <3>4, <4>1, <4>3
        <5> QED
          BY <4>3, <5>1 DEF S
      <4> QED
        BY <3>4, <3>5, <4>2, <4>3
    <3>8. ASSUME NEW y \in E PROVE y \in E'
      <4>1. PICK p \in S : y = Entry(p)
        BY <3>8 DEF S
      <4>2. p \in S' /\ y = Entry(p)'
        BY <3>3, <3>4, <4>1
      <4> QED
        BY <3>6, <4>2
    <3> HIDE DEF E, x
    <3>9. E' \subseteq E \cup {x} /\ E \subseteq E'
      BY <3>7, <3>8
    <3> QED
      BY <3>9
  <2> QED
    BY <2>1, <2>2
<1> HIDE DEF E
<1>5. PICK x : E' \subseteq E \cup {x} /\ E \subseteq E'
  BY <1>4
<1>6. Cardinality(E') <= Cardinality(E) + 1
  <2>1. IsFiniteSet(E \cup {x}) /\ Cardinality(E \cup {x}) <= Cardinality(E) + 1 /\ Cardinality(E \cup {x}) \in Nat
    <3>1. IsFiniteSet(E \cup {x}) /\ Cardinality(E \cup {x}) = IF x \in E THEN Cardinality(E) ELSE Cardinality(E) + 1
      BY <1>3, FS_AddElement
    <3>2. Cardinality(E) \in Nat
      BY <1>3, FS_CardinalityType
    <3> QED
      BY <3>1, <3>2
  <2>2. IsFiniteSet(E') /\ Cardinality(E') <= Cardinality(E \cup {x})
    <3>1. E' \in SUBSET (E \cup {x})
      BY <1>5
    <3> QED
      BY <2>1, <3>1, FS_Subset
  <2>3. Cardinality(E') \in Nat /\ Cardinality(E) \in Nat
    BY <1>3, <2>2, FS_CardinalityType
  <2> QED
    BY <2>1, <2>2, <2>3
<1>7. Promise!Cardinality(E') <= Promise!Cardinality(E) + 1
  <2>1. Promise!Cardinality(E') = Cardinality(E') /\ Promise!Cardinality(E) = Cardinality(E)
    BY SameCardinality
  <2> QED
    BY <1>6, <2>1
<1>8. Entries(out)' = << >>
  BY <1>1 DEF Entries
<1> QED
  BY <1>1, <1>5, <1>7, <1>8 DEF Promise!Add, E

LEMMA CallAsks ==
  ASSUME NEW c \in Requests, Call(c)
  PROVE  Promise!Ask(c)
<1>1. pc = "idle" /\ pc' # "idle" /\ call' = c /\ nodes' = nodes
  BY DEF Call, treeVars
<1>2. UNCHANGED {Entry(p) : p \in {q \in Leaves : ~nodes[q].deleted}}
  BY <1>1 DEF Entry, Leaves, isLeaf
<1> QED
  BY <1>1, <1>2 DEF Promise!Ask

\* The steps of a build are none of the abstract index.
LEMMA BuildStutters ==
  ASSUME TreeInv, TreeInv', StartBuild \/ SortLevel \/ PackSlice \/ EndLevel \/ EndBuild
  PROVE  UNCHANGED Promise!vars
<1>1. pc # "idle" /\ pc' # "idle" /\ call' = call
  BY DEF StartBuild, SortLevel, PackSlice, EndLevel, EndBuild
<1>2. EntriesOf(nodes') = EntriesOf(nodes)
  <2>1. nodes \in Seq(Node) /\ nodes' \in Seq(Node)
    BY DEF TreeInv
  <2>2. CASE StartBuild \/ EndLevel \/ EndBuild
    BY <2>2 DEF StartBuild, EndLevel, EndBuild, treeVars
  <2>3. CASE SortLevel
    BY <2>1, <2>3, SortLevelKeeps, RearrangedIsSame
  <2>4. CASE PackSlice
    BY <2>1, <2>4, PackSliceKeeps, RearrangedIsSame
  <2> QED
    BY <2>2, <2>3, <2>4
<1>3. {Entry(p) : p \in {q \in Leaves : ~nodes[q].deleted}} = EntriesOf(nodes)
  BY LiveAre
<1>4. {Entry(p) : p \in {q \in Leaves : ~nodes[q].deleted}}' = EntriesOf(nodes')
  <2>1. DOMAIN nodes' = 1 .. Len(nodes')
    BY DEF TreeInv
  <2>2. Leaves' = LeavesIn(nodes')
    BY <2>1 DEF Leaves, LeavesIn, isLeaf
  <2> QED
    BY <2>2 DEF EntriesOf, Entry, EntryOf
<1> QED
  BY <1>1, <1>2, <1>3, <1>4 DEF Promise!vars

LEMMA InitIsIndex == Init => Promise!Init
<1> SUFFICES ASSUME Init PROVE Promise!Init
  OBVIOUS
<1>1. nodes = << >> /\ pc = "idle" /\ out = << >>
  BY DEF Init
<1>2. Leaves = {}
  BY <1>1 DEF Leaves
<1>3. Entries(out) = << >>
  BY <1>1 DEF Entries
<1> QED
  BY <1>1, <1>2, <1>3 DEF Promise!Init

LEMMA PromiseKept ==
  ASSUME TreeInv, TreeInv', PromiseInv, Careful, Next
  PROVE  PromiseInv'
<1>1. CASE MayInsert /\ \E i \in Item, e \in Envelope : insert(i, e)
  BY <1>1, InsertPromises
<1>2. CASE \E c \in Requests : Call(c)
  BY <1>2, CallPromises
<1>3. CASE StartBuild
  BY <1>3, StartBuildPromises
<1>4. CASE SortLevel
  <2>1. pc = "level" /\ pc' = "slice" /\ UNCHANGED << root, numItems, call >>
    BY <1>4 DEF SortLevel
  <2> QED
    BY <1>4, <2>1, SortLevelKeeps, RearrangePromises
<1>5. CASE PackSlice
  <2>1. pc = "slice" /\ pc' = "slice" /\ UNCHANGED << root, numItems, call >>
    BY <1>5 DEF PackSlice
  <2> QED
    BY <1>5, <2>1, PackSliceKeeps, RearrangePromises
<1>6. CASE EndLevel
  BY <1>6, EndLevelPromises
<1>7. CASE EndBuild
  BY <1>7, EndBuildPromises
<1>8. CASE Body
  BY <1>8, BodyPromises
<1>9. CASE iterate
  BY <1>9, IteratePromises
<1> QED
  BY <1>1, <1>2, <1>3, <1>4, <1>5, <1>6, <1>7, <1>8, <1>9 DEF Next

LEMMA StepIsOfIndex ==
  ASSUME TreeInv, TreeInv', PromiseInv, Next
  PROVE  Promise!Next \/ UNCHANGED Promise!vars
<1>1. CASE MayInsert /\ \E i \in Item, e \in Envelope : insert(i, e)
  <2>1. Promise!Add
    BY <1>1, InsertAdds
  <2> QED
    BY <2>1 DEF Promise!Next
<1>2. CASE \E c \in Requests : Call(c)
  <2>1. PICK c \in Requests : Call(c)
    BY <1>2
  <2>2. Promise!Ask(c)
    BY <2>1, CallAsks
  <2> QED
    BY <2>2 DEF Promise!Next
<1>3. CASE StartBuild \/ SortLevel \/ PackSlice \/ EndLevel \/ EndBuild
  BY <1>3, BuildStutters
<1>4. CASE Body
  <2>1. call.op \in {"query", "queryPairs", "items", "remove"}
    BY <1>4 DEF Body
  <2>2. Promise!AnswerQuery \/ Promise!AnswerPairs \/ Promise!AnswerItems \/ Promise!AnswerRemove
    BY <1>4, <2>1, AnswerOfQuery, AnswerOfPairs, AnswerOfItems, AnswerOfRemove
  <2> QED
    BY <2>2 DEF Promise!Next
<1>5. CASE iterate
  <2>1. Promise!Enumerate
    BY <1>5, AnswerOfIterate
  <2> QED
    BY <2>1 DEF Promise!Next
<1> QED
  BY <1>1, <1>2, <1>3, <1>4, <1>5 DEF Next

(***************************************************************************)
(* For a client that stays within what the code supports, and for every    *)
(* capacity, number of items and order in which the sorts may leave equal  *)
(* keys: a tree answers as a set of entries would.  No query misses or     *)
(* repeats an entry, no pair is missed or repeated, remove takes out       *)
(* exactly one entry of the item and nothing that was removed comes back.  *)
(***************************************************************************)
THEOREM TreesActAsIndexes ==
  ASSUME Careful
  PROVE  Spec => ActsAsIndex
<1>1. TreeInv /\ TreeInv' /\ PromiseInv /\ [Next]_vars => PromiseInv'
  <2> SUFFICES ASSUME TreeInv, TreeInv', PromiseInv, [Next]_vars PROVE PromiseInv'
    OBVIOUS
  <2>1. CASE UNCHANGED vars
    BY <2>1 DEF vars, treeVars, buildVars, PromiseInv, Told, Whole, Fresh, Asked, Ready, RootLives, LeavesIn
  <2> QED
    BY <2>1, PromiseKept
<1>2. TreeInv /\ TreeInv' /\ PromiseInv /\ [Next]_vars => [Promise!Next]_(Promise!vars)
  <2> SUFFICES ASSUME TreeInv, TreeInv', PromiseInv, [Next]_vars
               PROVE  Promise!Next \/ UNCHANGED Promise!vars
    OBVIOUS
  <2>1. CASE UNCHANGED vars
    <3>1. nodes' = nodes /\ pc' = pc /\ call' = call /\ out' = out
      BY <2>1 DEF vars, treeVars
    <3> QED
      BY <3>1 DEF Promise!vars, Entry, Leaves, isLeaf, Entries
  <2> QED
    BY <2>1, StepIsOfIndex
<1>3. Spec => []PromiseInv
  BY <1>1, InitPromise, TreeInvariance, PTL DEF Spec
<1> QED
  BY <1>2, <1>3, InitIsIndex, TreeInvariance, PTL DEF Spec, ActsAsIndex, Promise!Spec
==============================================================================
