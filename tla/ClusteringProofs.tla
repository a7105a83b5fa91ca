---------------------------- MODULE ClusteringProofs ---------------------------
(***************************************************************************)
(* What union-find, the finders built on it and Kruskal's algorithm do for *)
(* every number of components or nodes, and every input that               *)
(* InputAssumption or CurvesAssumption admits.                             *)
(*                                                                         *)
(* root(), find() and the loop over a list of neighbors are recursive      *)
(* functions: that they exist, and are what their recursion says, follows  *)
(* from a height that goes down with every step (RecursionExists).  In a   *)
(* forest such a height exists, find() and join() leave a forest, and      *)
(* what they do to the roots is all that the rest needs to know.           *)
(*                                                                         *)
(* The inductive invariant FinderInv says, besides the types, whose        *)
(* neighbors have been settled (VisitedAreSettled), how far the current    *)
(* component is (CurrentSoFar, JoinedSoFar), and that who is in no cluster *)
(* is alone in its tree, so that nobody is taken twice (MembersOnly).      *)
(* With it every step is a step of DensityClusters, or none at all, and    *)
(* what is proved there of any clustering holds here                       *)
(* (ClustersRefineThePromise, ClustersAreCorrect); the last part shows     *)
(* that the numbers callers get are those clusters (IdsAreTheClusters).    *)
(*                                                                         *)
(* The rest is about SpanningTree::mst, which keeps a forest of the same   *)
(* kind.  The inductive invariant TreeInv says that the trees of the       *)
(* forest are what the chosen curves join (TreesAreJoined), that each of   *)
(* these is needed (NoneIsSpare), and that any set of curves that connects *)
(* everything can be changed, without getting longer, into one that has    *)
(* all of them (ChoiceExtends).  That the shortest edge between two trees  *)
(* keeps this true is EdgesExchange; in the end nothing is left to choose  *)
(* (TreesSpanMinimally, NumbersAreTheComponents).                          *)
(***************************************************************************)
EXTENDS ClusterFinder, SpanningTree, TLAPS,
        NaturalsInduction, WellFoundedInduction, FiniteSetTheorems

------------------------------------------------------------------------------
(***************************************************************************)
(* Functions defined by recursion along a descending chain.                *)
(***************************************************************************)
\* Every non-empty set of natural numbers has a least element.
LEMMA LeastElement ==
  ASSUME NEW T \in SUBSET Nat, T # {}
  PROVE  \E x \in T : \A y \in T : x <= y
<1> DEFINE Before == {ss \in Nat \X Nat : ss[1] < ss[2]}
<1>1. IsWellFoundedOn(Before, Nat)
  BY NatLessThanWellFounded, Zenon DEF OpToRel
<1>2. \E x \in T : \A y \in T : ~(<<y, x>> \in Before)
  <2> HIDE DEF Before
  <2> QED
    BY <1>1, WFMin, Zenon
<1>3. PICK x \in T : \A y \in T : ~(<<y, x>> \in Before)
  BY <1>2
<1>4. ASSUME NEW y \in T
      PROVE  x <= y
  <2>1. ~(y < x)
    BY <1>3
  <2> QED
    BY <2>1
<1> QED
  BY <1>4

\* c leads from element to element, with h going down, until it stands still.
Descends(D, c, h) ==
  c \in [D -> D] /\ h \in [D -> Nat] /\ \A k \in D : c[k] # k => h[c[k]] < h[k]

\* What f is where c stands still, and how it follows c elsewhere, up to height n.
Follows(D, c, h, base, go, f, n) ==
  \A k \in D : h[k] <= n => f[k] = IF c[k] = k THEN base[k] ELSE go[k][f[c[k]]]

\* Two functions that follow the same recursion agree as far as both do.
LEMMA RecursionUnique ==
  ASSUME NEW D, NEW c, NEW h, Descends(D, c, h),
         NEW base, NEW go, NEW f, NEW g, NEW n \in Nat,
         Follows(D, c, h, base, go, f, n), Follows(D, c, h, base, go, g, n)
  PROVE  \A k \in D : h[k] <= n => f[k] = g[k]
<1> DEFINE B == {k \in D : h[k] <= n /\ f[k] # g[k]}
           T == {h[k] : k \in B}
<1> SUFFICES ASSUME B # {} PROVE FALSE
  OBVIOUS
<1>1. T \in SUBSET Nat /\ T # {}
  BY DEF Descends
<1>2. PICK m \in T : \A y \in T : m <= y
  BY <1>1, LeastElement
<1>3. PICK k \in B : h[k] = m
  BY <1>2
<1>4. c[k] # k
  BY <1>3 DEF Follows
<1>5. c[k] \in D /\ h[c[k]] < h[k] /\ h[c[k]] \in Nat /\ h[k] \in Nat
  BY <1>3, <1>4 DEF Descends
<1>6. c[k] \notin B
  BY <1>1, <1>2, <1>3, <1>5
<1>7. f[c[k]] = g[c[k]]
  BY <1>3, <1>5, <1>6
<1> QED
  BY <1>3, <1>4, <1>7 DEF Follows

\* f is a function that c, base and go define by recursion.
Solution(D, V, c, base, go, f) ==
  f \in [D -> V] /\ \A k \in D : f[k] = IF c[k] = k THEN base[k] ELSE go[k][f[c[k]]]

\* A recursion that descends defines a function.
LEMMA RecursionExists ==
  ASSUME NEW D, NEW V, NEW c, NEW h, Descends(D, c, h),
         NEW base, base \in [D -> V], NEW go, go \in [D -> [V -> V]]
  PROVE  \E f : Solution(D, V, c, base, go, f)
<1> DEFINE Solves(f, n) ==
             /\ f \in [D -> V]
             /\ \A k \in D : h[k] <= n => f[k] = IF c[k] = k THEN base[k] ELSE go[k][f[c[k]]]
           B == {n \in Nat : ~\E f : Solves(f, n)}
<1>1. \A k \in D : c[k] \in D /\ h[k] \in Nat /\ h[c[k]] \in Nat /\ (c[k] # k => h[c[k]] < h[k])
  BY DEF Descends
<1>2. B = {}
  <2> SUFFICES ASSUME B # {} PROVE FALSE
    OBVIOUS
  <2>1. PICK n \in B : \A m \in B : n <= m
    <3>1. B \in SUBSET Nat
      OBVIOUS
    <3> HIDE DEF B
    <3> QED
      BY <3>1, LeastElement
  <2>2. n # 0
    <3>1. \A k \in D : h[k] <= 0 => c[k] = k
      BY <1>1
    <3>2. Solves(base, 0)
      BY <3>1
    <3> QED
      BY <3>2
  <2>3. n - 1 \in Nat /\ n - 1 \notin B
    BY <2>1, <2>2
  <2>4. PICK g : Solves(g, n - 1)
    BY <2>3
  <2> DEFINE f == [k \in D |-> IF c[k] = k THEN base[k] ELSE go[k][g[c[k]]]]
  <2>5. f \in [D -> V]
    BY <1>1, <2>4
  <2>6. ASSUME NEW k \in D, h[k] <= n
        PROVE  f[k] = IF c[k] = k THEN base[k] ELSE go[k][f[c[k]]]
    <3>1. CASE c[k] = k
      BY <3>1
    <3>2. CASE c[k] # k
      <4>1. c[k] \in D /\ h[c[k]] <= n - 1
        BY <1>1, <2>6, <3>2
      <4>2. g[c[k]] = f[c[k]]
        BY <2>4, <4>1
      <4> QED
        BY <3>2, <4>2
    <3> QED
      BY <3>1, <3>2
  <2>7. Solves(f, n)
    <3> HIDE DEF f
    <3> QED
      BY <2>5, <2>6
  <2> QED
    BY <2>1, <2>7
<1> DEFINE F(n) == CHOOSE f : Solves(f, n)
<1>3. \A n \in Nat : Solves(F(n), n)
  <2> TAKE n \in Nat
  <2>1. \E f : Solves(f, n)
    BY <1>2
  <2> HIDE DEF Solves
  <2> QED
    BY <2>1
<1> HIDE DEF F
<1>4. ASSUME NEW k \in D, NEW n \in Nat, h[k] <= n
      PROVE  F(n)[k] = F(h[k])[k]
  <2>1. Solves(F(n), n) /\ Solves(F(h[k]), h[k]) /\ h[k] \in Nat
    BY <1>1, <1>3
  <2>2. \A j \in D : h[j] <= h[k] =>
          /\ F(n)[j] = IF c[j] = j THEN base[j] ELSE go[j][F(n)[c[j]]]
          /\ F(h[k])[j] = IF c[j] = j THEN base[j] ELSE go[j][F(h[k])[c[j]]]
    <3> TAKE j \in D
    <3> HAVE h[j] <= h[k]
    <3>1. h[j] <= n
      BY <1>1, <1>4, <2>1
    <3> QED
      BY <2>1, <3>1
  <2>3. \A j \in D : h[j] <= h[k] => F(n)[j] = F(h[k])[j]
    <3>1. Follows(D, c, h, base, go, F(n), h[k]) /\ Follows(D, c, h, base, go, F(h[k]), h[k])
      BY <2>2 DEF Follows
    <3> QED
      BY <2>1, <3>1, RecursionUnique
  <2> QED
    BY <1>1, <2>3
<1> DEFINE f == [k \in D |-> F(h[k])[k]]
<1>5. f \in [D -> V]
  BY <1>1, <1>3
<1>6. ASSUME NEW k \in D
      PROVE  f[k] = IF c[k] = k THEN base[k] ELSE go[k][f[c[k]]]
  <2>1. f[k] = IF c[k] = k THEN base[k] ELSE go[k][F(h[k])[c[k]]]
    <3>1. Solves(F(h[k]), h[k]) /\ h[k] \in Nat
      BY <1>1, <1>3
    <3> QED
      BY <3>1
  <2>2. c[k] # k => F(h[k])[c[k]] = f[c[k]]
    BY <1>1, <1>4
  <2> QED
    BY <2>1, <2>2
<1> HIDE DEF f
<1> QED
  BY <1>5, <1>6 DEF Solution

\* Of any elements one stands still or leads away from them.
LEMMA LowestElement ==
  ASSUME NEW D, NEW c, NEW h, Descends(D, c, h), NEW B \in SUBSET D, B # {}
  PROVE  \E k \in B : c[k] = k \/ c[k] \notin B
<1> DEFINE T == {h[k] : k \in B}
<1>1. T \in SUBSET Nat /\ T # {}
  BY DEF Descends
<1>2. PICK m \in T : \A y \in T : m <= y
  BY <1>1, LeastElement
<1>3. PICK k \in B : h[k] = m
  BY <1>2
<1>4. c[k] # k => h[c[k]] < h[k] /\ h[c[k]] \in Nat /\ h[k] \in Nat
  BY DEF Descends
<1>5. c[k] \in B => h[k] <= h[c[k]]
  BY <1>2, <1>3
<1> QED
  BY <1>4, <1>5

------------------------------------------------------------------------------
(***************************************************************************)
(* UnionFind.                                                              *)
(***************************************************************************)
IsForest(D, c) == \E h : Descends(D, c, h)

\* root() climbs to an element that is its own parent.
LEMMA RootFollows ==
  ASSUME NEW D, NEW c, IsForest(D, c)
  PROVE  /\ c \in [D -> D]
         /\ \A i \in D : /\ root(c, i) \in D
                         /\ root(c, i) = IF c[i] = i THEN i ELSE root(c, c[i])
                         /\ c[root(c, i)] = root(c, i)
<1>1. PICK h : Descends(D, c, h)
  BY DEF IsForest
<1>2. c \in [D -> D] /\ DOMAIN c = D
  BY <1>1 DEF Descends
<1> DEFINE Climbs(f) == f = [k \in DOMAIN c |-> IF c[k] = k THEN k ELSE f[c[k]]]
           up == CHOOSE f : Climbs(f)
           base == [k \in D |-> k]
           go == [k \in D |-> [v \in D |-> v]]
<1>3. PICK f : Solution(D, D, c, base, go, f)
  <2>1. base \in [D -> D] /\ go \in [D -> [D -> D]]
    OBVIOUS
  <2> HIDE DEF base, go
  <2> QED
    BY <1>1, <2>1, RecursionExists
<1>4. Climbs(f)
  <2>1. \A k \in D : f[k] = IF c[k] = k THEN k ELSE f[c[k]]
    BY <1>2, <1>3 DEF Solution
  <2> QED
    BY <1>2, <1>3, <2>1 DEF Solution
<1>5. Climbs(up)
  <2> HIDE DEF Climbs
  <2> QED
    BY <1>4
<1>6. \A i : root(c, i) = up[i]
  BY DEF root
<1> HIDE DEF up
<1>7. \A k \in D : up[k] = IF c[k] = k THEN k ELSE up[c[k]]
  BY <1>2, <1>5
<1> DEFINE B == {k \in D : ~(up[k] \in D /\ c[up[k]] = up[k])}
<1>8. B = {}
  <2> SUFFICES ASSUME B # {} PROVE FALSE
    OBVIOUS
  <2>1. PICK k \in B : c[k] = k \/ c[k] \notin B
    <3>1. B \in SUBSET D
      OBVIOUS
    <3> HIDE DEF B
    <3> QED
      BY <1>1, <3>1, LowestElement
  <2> QED
    BY <1>2, <1>7, <2>1
<1>9. \A k \in D : up[k] \in D /\ c[up[k]] = up[k]
  BY <1>8
<1> QED
  BY <1>2, <1>6, <1>7, <1>9

\* An element that is not a root is above its root.
LEMMA RootIsBelow ==
  ASSUME NEW D, NEW c, NEW h, Descends(D, c, h)
  PROVE  \A k \in D : c[k] # k => h[root(c, k)] < h[k]
<1>1. IsForest(D, c)
  BY DEF IsForest
<1>2. /\ c \in [D -> D] /\ h \in [D -> Nat]
      /\ \A k \in D : c[k] # k => h[c[k]] < h[k]
      /\ \A k \in D : root(c, k) \in D /\ root(c, k) = IF c[k] = k THEN k ELSE root(c, c[k])
  BY <1>1, RootFollows DEF Descends
<1> DEFINE B == {k \in D : c[k] # k /\ ~(h[root(c, k)] < h[k])}
<1> SUFFICES ASSUME B # {} PROVE FALSE
  OBVIOUS
<1>3. PICK k \in B : c[k] = k \/ c[k] \notin B
  <2>1. B \in SUBSET D
    OBVIOUS
  <2> HIDE DEF B
  <2> QED
    BY <2>1, LowestElement
<1>4. /\ c[k] \in D /\ c[k] # k /\ h[c[k]] < h[k] /\ root(c, k) = root(c, c[k])
      /\ h[k] \in Nat /\ h[c[k]] \in Nat /\ h[root(c, k)] \in Nat
  BY <1>2, <1>3
<1>5. CASE c[c[k]] = c[k]
  BY <1>2, <1>3, <1>4, <1>5
<1>6. CASE c[c[k]] # c[k]
  BY <1>2, <1>3, <1>4, <1>6
<1> QED
  BY <1>5, <1>6

\* Whatever points to its root instead has the same root.
LEMMA ShortcutsKeepRoots ==
  ASSUME NEW D, NEW c, IsForest(D, c), NEW d \in [D -> D],
         \A k \in D : d[k] = c[k] \/ (c[k] # k /\ d[k] = root(c, k))
  PROVE  IsForest(D, d) /\ \A k \in D : root(d, k) = root(c, k)
<1>1. PICK h : Descends(D, c, h)
  BY DEF IsForest
<1>2. \A k \in D : /\ root(c, k) \in D /\ c[root(c, k)] = root(c, k)
                   /\ root(c, k) = IF c[k] = k THEN k ELSE root(c, c[k])
                   /\ c[k] # k => h[root(c, k)] < h[k] /\ h[c[k]] < h[k]
                   /\ h[k] \in Nat /\ c[k] \in D
  BY <1>1, RootFollows, RootIsBelow DEF Descends
<1>3. \A k \in D : /\ c[k] = k => d[k] = k
                   /\ c[k] # k => d[k] # k /\ h[d[k]] < h[k] /\ root(c, d[k]) = root(c, k)
  <2> TAKE k \in D
  <2>1. CASE d[k] = c[k]
    BY <1>2, <2>1
  <2>2. CASE c[k] # k /\ d[k] = root(c, k)
    BY <1>2, <2>2
  <2> QED
    BY <2>1, <2>2
<1>4. Descends(D, d, h)
  BY <1>1, <1>3 DEF Descends
<1>5. IsForest(D, d)
  BY <1>4 DEF IsForest
<1>6. \A k \in D : root(d, k) = IF d[k] = k THEN k ELSE root(d, d[k])
  BY <1>5, RootFollows
<1> DEFINE B == {k \in D : root(d, k) # root(c, k)}
<1>7. B = {}
  <2> SUFFICES ASSUME B # {} PROVE FALSE
    OBVIOUS
  <2>1. PICK k \in B : d[k] = k \/ d[k] \notin B
    <3>1. B \in SUBSET D
      OBVIOUS
    <3> HIDE DEF B
    <3> QED
      BY <1>4, <3>1, LowestElement
  <2> QED
    BY <1>2, <1>3, <1>6, <2>1
<1> QED
  BY <1>5, <1>7

\* find() only makes paths shorter.
LEMMA FindKeepsRoots ==
  ASSUME NEW D, NEW c, IsForest(D, c), NEW i \in D
  PROVE  IsForest(D, find(c, i)) /\ \A k \in D : root(find(c, i), k) = root(c, k)
<1>1. PICK h : Descends(D, c, h)
  BY DEF IsForest
<1>2. /\ c \in [D -> D] /\ DOMAIN c = D
      /\ \A k \in D : root(c, k) \in D /\ root(c, k) = IF c[k] = k THEN k ELSE root(c, c[k])
  BY RootFollows
<1> DEFINE Collects(f) == f = [k \in DOMAIN c |-> IF c[k] = k THEN {} ELSE {k} \cup f[c[k]]]
           way == CHOOSE f : Collects(f)
           base == [k \in D |-> {}]
           go == [k \in D |-> [v \in SUBSET D |-> {k} \cup v]]
<1>3. PICK f : Solution(D, SUBSET D, c, base, go, f)
  <2>1. base \in [D -> SUBSET D] /\ go \in [D -> [SUBSET D -> SUBSET D]]
    OBVIOUS
  <2> HIDE DEF base, go
  <2> QED
    BY <1>1, <2>1, RecursionExists
<1>4. Collects(f)
  <2>1. \A k \in D : f[k] = IF c[k] = k THEN {} ELSE {k} \cup f[c[k]]
    BY <1>2, <1>3 DEF Solution
  <2> QED
    BY <1>2, <1>3, <2>1 DEF Solution
<1>5. Collects(way)
  <2> HIDE DEF Collects
  <2> QED
    BY <1>4
<1>6. find(c, i) = [k \in DOMAIN c |-> IF k \in way[i] THEN root(c, i) ELSE c[k]]
  BY DEF find
<1> HIDE DEF way
<1>7. \A k \in D : way[k] = IF c[k] = k THEN {} ELSE {k} \cup way[c[k]]
  BY <1>2, <1>5
<1> DEFINE B == {k \in D : ~\A x \in way[k] : x \in D => c[x] # x /\ root(c, x) = root(c, k)}
<1>8. B = {}
  <2> SUFFICES ASSUME B # {} PROVE FALSE
    OBVIOUS
  <2>1. PICK k \in B : c[k] = k \/ c[k] \notin B
    <3>1. B \in SUBSET D
      OBVIOUS
    <3> HIDE DEF B
    <3> QED
      BY <1>1, <3>1, LowestElement
  <2>2. way[k] = {} \/ (c[k] # k /\ c[k] \in D /\ way[k] = {k} \cup way[c[k]])
    BY <1>2, <1>7
  <2>3. way[k] # {}
    BY <2>1
  <2>4. \A x \in way[c[k]] : x \in D => c[x] # x /\ root(c, x) = root(c, c[k])
    BY <2>1, <2>2, <2>3
  <2> QED
    BY <1>2, <2>1, <2>2, <2>3, <2>4
<1>9. \A x \in way[i] : x \in D => c[x] # x /\ root(c, x) = root(c, i)
  BY <1>8
<1> QED
  BY <1>2, <1>6, <1>9, ShortcutsKeepRoots

\* Putting one root under another makes two trees one.
LEMMA LinkedRoots ==
  ASSUME NEW D, NEW c, IsForest(D, c), NEW a \in D, NEW b \in D, c[a] = a, c[b] = b, a # b,
         NEW d \in [D -> D], d[a] = b, \A k \in D : k # a => d[k] = c[k]
  PROVE  /\ IsForest(D, d)
         /\ \A k \in D : root(d, k) = IF root(c, k) = a THEN b ELSE root(c, k)
<1>1. PICK h : Descends(D, c, h)
  BY DEF IsForest
<1>2. /\ c \in [D -> D] /\ h \in [D -> Nat]
      /\ \A k \in D : /\ root(c, k) \in D /\ c[root(c, k)] = root(c, k)
                      /\ root(c, k) = IF c[k] = k THEN k ELSE root(c, c[k])
                      /\ c[k] # k => h[c[k]] < h[k]
  BY <1>1, RootFollows DEF Descends
<1>3. root(c, a) = a /\ root(c, b) = b
  BY <1>2
<1> DEFINE g == [k \in D |-> IF root(c, k) = a THEN h[k] + h[b] + 1 ELSE h[k]]
<1>4. g \in [D -> Nat]
  BY <1>2
<1>5. ASSUME NEW k \in D, d[k] # k PROVE g[d[k]] < g[k]
  <2>1. CASE k = a
    BY <1>2, <1>3, <1>4, <2>1
  <2>2. CASE k # a
    <3>1. d[k] = c[k] /\ c[k] \in D /\ root(c, c[k]) = root(c, k) /\ h[c[k]] < h[k]
      BY <1>2, <1>4, <1>5, <2>2
    <3>2. h[c[k]] \in Nat /\ h[k] \in Nat /\ h[b] \in Nat
      BY <1>2, <3>1
    <3> QED
      BY <3>1, <3>2
  <2> QED
    BY <2>1, <2>2
<1> HIDE DEF g
<1>6. Descends(D, d, g)
  BY <1>4, <1>5 DEF Descends
<1>7. IsForest(D, d)
  BY <1>6 DEF IsForest
<1>8. \A k \in D : root(d, k) = IF d[k] = k THEN k ELSE root(d, d[k])
  BY <1>7, RootFollows
<1> DEFINE B == {k \in D : root(d, k) # IF root(c, k) = a THEN b ELSE root(c, k)}
<1>9. B = {}
  <2> SUFFICES ASSUME B # {} PROVE FALSE
    OBVIOUS
  <2>1. PICK k \in B : d[k] = k \/ d[k] \notin B
    <3>1. B \in SUBSET D
      OBVIOUS
    <3> HIDE DEF B
    <3> QED
      BY <1>6, <3>1, LowestElement
  <2>2. d[b] = b /\ root(d, b) = b
    BY <1>4, <1>8
  <2>3. CASE k = a
    BY <1>3, <1>4, <1>8, <2>1, <2>2, <2>3
  <2>4. CASE k # a
    BY <1>2, <1>3, <1>4, <1>8, <2>1, <2>4
  <2> QED
    BY <2>3, <2>4
<1> QED
  BY <1>7, <1>9

\* What a UnionFind object may be.
Forests == [clusters : [Component -> Component], sizes : [Component -> Int], num_clusters : Int]
IsUnionFind(f) == f \in Forests /\ IsForest(Component, f.clusters)

\* Who is in the same tree, and which finder is at work.
Top(i) == root(uf.clusters, i)
Scanning == pc # "idle" /\ input.finder = "dbscan"

\* Types; nothing is left of a call when it has returned.
CFTypes ==
  /\ pc \in {"idle", "process", "done"}
  /\ IsUnionFind(uf)
  /\ p \in 0..components /\ hits \subseteq Component /\ (hits # {} => p > 0)
  /\ neighbors \in Seq(Component)
  /\ in_a_cluster \in [Component -> BOOLEAN] /\ is_in_core \in [Component -> BOOLEAN]
  /\ pc = "idle" => /\ input = NoInput /\ p = 0 /\ uf = Forest(components)
                    /\ neighbors = <<>>
  /\ pc # "idle" => input \in Input
  /\ pc # "process" => hits = {}

\* Whose hits have all been looked at.
Visited == {i \in Component : i < p /\ (i = current => hits = {})}

\* Only members share clusters, and known cores are cores and members.
MembersOnly ==
  Scanning =>
    /\ \A x \in Component : ~in_a_cluster[x] => \A y \in Component : Top(x) = Top(y) => x = y
    /\ \A x \in Component : is_in_core[x] => x \in Cores /\ in_a_cluster[x]
    /\ input.minPoints <= 1 => \A x \in Component : is_in_core[x]

\* What a core that has been visited has done about q.
Settled(i, q) == in_a_cluster[q] /\ (q \in Visited \cap Cores => Top(i) = Top(q))

\* Cores that have been visited took all that is near them.
VisitedAreSettled ==
  Scanning => \A i \in Visited \cap Cores :
                is_in_core[i] /\ \A q \in Neighborhood(i) : Settled(i, q)

\* The hits of the component that is visited, so far.
CurrentIsFollowed ==
  /\ Neighborhood(current) \subseteq Hits(current)
  /\ KnownCore => is_in_core[current]
  /\ \A q \in Neighborhood(current) \ hits :
       IF KnownCore THEN Settled(current, q) ELSE \E n \in DOMAIN neighbors : neighbors[n] = q
  /\ \A n \in DOMAIN neighbors : neighbors[n] \in Neighborhood(current) \ hits
  /\ \A m, n \in DOMAIN neighbors : neighbors[m] = neighbors[n] => m = n

\* The same, once there are hits to look at.
CurrentSoFar == Scanning /\ hits # {} => CurrentIsFollowed

\* Whoever should be joined is, except for hits not looked at yet.
JoinedSoFar ==
  pc # "idle" /\ input.finder = "join" =>
    \A i, q \in Component :
      i < p /\ Near(i, q) /\ input.points[i] >= input.points[q] /\ ~(i = current /\ q \in hits)
        => Top(i) = Top(q)

\* The inductive invariant.
FinderInv ==
  /\ CFTypes /\ MembersOnly /\ VisitedAreSettled /\ CurrentSoFar /\ JoinedSoFar
  /\ pc = "done" => ids = getClusterIds

------------------------------------------------------------------------------
\* A new forest has every component alone.
LEMMA NewForest ==
  /\ IsUnionFind(Forest(components))
  /\ \A k \in Component : root(Forest(components).clusters, k) = k
<1> DEFINE c == [i \in Component |-> i]
           h == [i \in Component |-> 0]
<1>1. Forest(components) =
        [clusters |-> c, sizes |-> [i \in Component |-> 1], num_clusters |-> components]
  BY DEF Forest, Component
<1>2. Descends(Component, c, h)
  BY DEF Descends
<1>3. IsForest(Component, c)
  BY <1>2 DEF IsForest
<1>4. c \in [Component -> Component] /\ \A i \in Component : c[i] = i
  OBVIOUS
<1>5. components \in Int
  BY InputAssumption
<1> HIDE DEF c
<1>6. IsUnionFind(Forest(components))
  BY <1>1, <1>3, <1>4, <1>5 DEF IsUnionFind, Forests
<1>7. \A k \in Component : root(c, k) = k
  BY <1>3, <1>4, RootFollows
<1> QED
  BY <1>1, <1>6, <1>7

\* same() changes paths, not roots.
LEMMA AskedKeepsRoots ==
  ASSUME NEW f, IsUnionFind(f), NEW i \in Component, NEW j \in Component
  PROVE  /\ IsUnionFind(Asked(f, i, j))
         /\ \A k \in Component : root(Asked(f, i, j).clusters, k) = root(f.clusters, k)
         /\ Asked(f, i, j).sizes = f.sizes /\ Asked(f, i, j).num_clusters = f.num_clusters
<1> DEFINE c == f.clusters
           d == find(find(c, i), j)
<1>1. IsForest(Component, c) /\ f \in Forests
  BY DEF IsUnionFind
<1>2. IsForest(Component, d) /\ \A k \in Component : root(d, k) = root(c, k)
  <2>1. IsForest(Component, find(c, i)) /\ \A k \in Component : root(find(c, i), k) = root(c, k)
    BY <1>1, FindKeepsRoots
  <2>2. /\ IsForest(Component, find(find(c, i), j))
        /\ \A k \in Component : root(find(find(c, i), j), k) = root(find(c, i), k)
    <3> DEFINE e == find(c, i)
    <3>1. IsForest(Component, e)
      BY <2>1
    <3> HIDE DEF e
    <3>2. IsForest(Component, find(e, j)) /\ \A k \in Component : root(find(e, j), k) = root(e, k)
      BY <3>1, FindKeepsRoots
    <3> QED
      BY <3>2 DEF e
  <2> QED
    BY <2>1, <2>2
<1>3. d \in [Component -> Component]
  BY <1>2, RootFollows
<1>4. CASE i = j
  BY <1>4 DEF Asked
<1>5. CASE i # j
  <2>1. Asked(f, i, j) = [f EXCEPT !.clusters = d]
    BY <1>5 DEF Asked
  <2> HIDE DEF d
  <2> QED
    BY <1>1, <1>2, <1>3, <2>1 DEF IsUnionFind, Forests
<1> QED
  BY <1>4, <1>5

\* Two trees, or one, become one, whose root is one of theirs.
LEMMA JoinMerges ==
  ASSUME NEW f, IsUnionFind(f), NEW i \in Component, NEW j \in Component
  PROVE  /\ IsUnionFind(join(f, i, j))
         /\ \E r \in {i, j} : \A k \in Component :
              root(join(f, i, j).clusters, k) =
                IF root(f.clusters, k) \in {root(f.clusters, i), root(f.clusters, j)}
                THEN root(f.clusters, r) ELSE root(f.clusters, k)
<1> DEFINE found == Asked(f, i, j)
           x == root(f.clusters, i)
           y == root(f.clusters, j)
           swap == f.sizes[y] > f.sizes[x] \/ (f.sizes[x] = f.sizes[y] /\ y <= x)
           a == IF swap THEN y ELSE x
           b == IF swap THEN x ELSE y
           d == [found.clusters EXCEPT ![a] = b]
           s == [f.sizes EXCEPT ![b] = @ + f.sizes[a], ![a] = 0]
<1>1. /\ f \in Forests /\ IsForest(Component, f.clusters)
      /\ IsUnionFind(found) /\ IsForest(Component, found.clusters)
      /\ \A k \in Component : root(found.clusters, k) = root(f.clusters, k)
      /\ found \in Forests
  BY AskedKeepsRoots DEF IsUnionFind
<1>2. x \in Component /\ y \in Component
  BY <1>1, RootFollows
<1>3. found.clusters[x] = x /\ found.clusters[y] = y
  BY <1>1, RootFollows
<1>4. join(f, i, j) = IF x = y THEN found
                      ELSE [clusters |-> d, sizes |-> s, num_clusters |-> f.num_clusters - 1]
  BY DEF join
<1>5. CASE x = y
  BY <1>1, <1>4, <1>5
<1>6. CASE x # y
  <2>1. a \in Component /\ b \in Component /\ a # b /\ {a, b} = {x, y}
    BY <1>2, <1>6
  <2>2. found.clusters[a] = a /\ found.clusters[b] = b
    BY <1>3
  <2> HIDE DEF a, b, x, y, found
  <2>3. /\ d \in [Component -> Component] /\ d[a] = b
        /\ \A k \in Component : k # a => d[k] = found.clusters[k]
    BY <1>1, <2>1, RootFollows
  <2>4. /\ IsForest(Component, d)
        /\ \A k \in Component :
             root(d, k) = IF root(found.clusters, k) = a THEN b ELSE root(found.clusters, k)
    <3> HIDE DEF d
    <3> QED
      BY <1>1, <2>1, <2>2, <2>3, LinkedRoots
  <2>5. s \in [Component -> Int] /\ f.num_clusters - 1 \in Int
    <3>1. f.sizes \in [Component -> Int] /\ f.num_clusters \in Int
      BY <1>1 DEF Forests
    <3> QED
      BY <2>1, <3>1
  <2> HIDE DEF d, s
  <2>6. join(f, i, j) = [clusters |-> d, sizes |-> s, num_clusters |-> f.num_clusters - 1]
    BY <1>4, <1>6
  <2>7. IsUnionFind(join(f, i, j)) /\ join(f, i, j).clusters = d
    BY <2>3, <2>4, <2>5, <2>6 DEF IsUnionFind, Forests
  <2>8. PICK r \in {i, j} : b = root(f.clusters, r)
    BY <2>1 DEF x, y
  <2>9. \A k \in Component :
          root(d, k) = IF root(f.clusters, k) \in {x, y} THEN b ELSE root(f.clusters, k)
    BY <1>1, <2>1, <2>4
  <2> QED
    BY <2>7, <2>8, <2>9 DEF x, y
<1> QED
  BY <1>5, <1>6

\* The trees of i and of all in Q have become one, which has the root of one of them.
GrownBy(f, i, Q, g) ==
  \E r \in {i} \cup Q : \A k \in Component :
    root(g.clusters, k) = IF \E q \in {i} \cup Q : root(f.clusters, k) = root(f.clusters, q)
                          THEN root(f.clusters, r) ELSE root(f.clusters, k)

\* One join more, and one tree has grown by one element more.
LEMMA JoinGrows ==
  ASSUME NEW f, NEW g, IsUnionFind(g), NEW i \in Component, NEW q \in Component,
         NEW Q \in SUBSET Component, GrownBy(f, i, Q, g)
  PROVE  IsUnionFind(join(g, i, q)) /\ GrownBy(f, i, Q \cup {q}, join(g, i, q))
<1>1. PICK r \in {i} \cup Q : \A k \in Component :
        root(g.clusters, k) = IF \E x \in {i} \cup Q : root(f.clusters, k) = root(f.clusters, x)
                              THEN root(f.clusters, r) ELSE root(f.clusters, k)
  BY DEF GrownBy
<1>2. IsUnionFind(join(g, i, q))
  BY JoinMerges
<1>3. PICK t \in {i, q} : \A k \in Component :
        root(join(g, i, q).clusters, k) =
          IF root(g.clusters, k) \in {root(g.clusters, i), root(g.clusters, q)}
          THEN root(g.clusters, t) ELSE root(g.clusters, k)
  BY JoinMerges
<1> DEFINE d == join(g, i, q)
           T == {i} \cup Q
<1> HIDE DEF d
<1>4. root(g.clusters, i) = root(f.clusters, r)
  BY <1>1
<1>5. PICK s \in T \cup {q} : root(g.clusters, t) = root(f.clusters, s)
  BY <1>1, <1>3
<1>6. \A k \in Component :
        root(d.clusters, k) = IF \E x \in T \cup {q} : root(f.clusters, k) = root(f.clusters, x)
                              THEN root(f.clusters, s) ELSE root(f.clusters, k)
  <2> TAKE k \in Component
  <2>1. CASE \E x \in T : root(f.clusters, k) = root(f.clusters, x)
    BY <1>1, <1>3, <1>4, <1>5, <2>1 DEF d
  <2>2. CASE ~(\E x \in T : root(f.clusters, k) = root(f.clusters, x))
    <3>1. root(g.clusters, k) = root(f.clusters, k)
      BY <1>1, <2>2
    <3>2. root(g.clusters, k) # root(g.clusters, i)
      BY <1>4, <2>2, <3>1
    <3>3. root(d.clusters, k) = IF root(g.clusters, k) = root(g.clusters, q)
                                THEN root(f.clusters, s) ELSE root(f.clusters, k)
      BY <1>3, <1>5, <3>1, <3>2 DEF d
    <3>4. root(g.clusters, k) = root(g.clusters, q) <=> root(f.clusters, k) = root(f.clusters, q)
      BY <1>1, <2>2, <3>1
    <3> QED
      BY <2>2, <3>3, <3>4
  <2> QED
    BY <2>1, <2>2
<1>7. T \cup {q} = {i} \cup (Q \cup {q})
  OBVIOUS
<1> HIDE DEF T
<1> QED
  BY <1>2, <1>6, <1>7 DEF d, GrownBy

------------------------------------------------------------------------------
\* The first n of qs have been united with the current component, those in Q by a join.
UnitedSoFar(qs, n, taken, core, state, Q) ==
  /\ IsUnionFind(state.forest) /\ state.taken \in [Component -> BOOLEAN]
  /\ GrownBy(uf, current, Q, state.forest)
  /\ \A x \in Component : state.taken[x] <=> (taken[x] \/ x \in Q)
  /\ \A q \in Q : (\E m \in 1..n : qs[m] = q) /\ (core[q] \/ ~taken[q])
  /\ \A m \in 1..n : state.taken[qs[m]] /\ (core[qs[m]] => qs[m] \in Q)

\* One more turn of the loop over the neighbors.
LEMMA OneMoreUnited ==
  ASSUME IsUnionFind(uf), current \in Component, NEW qs \in Seq(Component), NEW n \in 1..Len(qs),
         NEW taken \in [Component -> BOOLEAN], NEW core \in [Component -> BOOLEAN],
         NEW state, NEW Q \in SUBSET Component, UnitedSoFar(qs, n - 1, taken, core, state, Q)
  PROVE  \E R \in SUBSET Component :
           UnitedSoFar(qs, n, taken, core, unionIfAvailable(state, qs[n], core), R)
<1> DEFINE q == qs[n]
<1>1. q \in Component /\ n \in Nat /\ \A m \in 1..n : qs[m] \in Component
  OBVIOUS
<1>2. \A m \in 1..n : m = n \/ m \in 1..(n - 1)
  OBVIOUS
<1>3. \A m \in 1..(n - 1) : m \in 1..n
  OBVIOUS
<1>4. n \in 1..n
  OBVIOUS
<1>5. CASE state.taken[q] /\ ~core[q]
  <2>1. unionIfAvailable(state, q, core) = state
    BY <1>5 DEF unionIfAvailable
  <2>2. UnitedSoFar(qs, n, taken, core, state, Q)
    BY <1>1, <1>2, <1>3, <1>5 DEF UnitedSoFar
  <2> QED
    BY <2>1, <2>2
<1>6. CASE ~(state.taken[q] /\ ~core[q])
  <2> DEFINE next == [forest |-> join(state.forest, current, q),
                      taken |-> [state.taken EXCEPT ![q] = TRUE]]
  <2>1. unionIfAvailable(state, q, core) = next
    BY <1>6 DEF unionIfAvailable
  <2>2. IsUnionFind(next.forest) /\ GrownBy(uf, current, Q \cup {q}, next.forest)
    BY <1>1, JoinGrows DEF UnitedSoFar
  <2>3. /\ next.taken \in [Component -> BOOLEAN]
        /\ \A x \in Component : next.taken[x] <=> (state.taken[x] \/ x = q)
    BY <1>1 DEF UnitedSoFar
  <2> HIDE DEF next
  <2>4. \A x \in Component : next.taken[x] <=> (taken[x] \/ x \in Q \cup {q})
    BY <2>3 DEF UnitedSoFar
  <2>5. \A x \in Q \cup {q} : (\E m \in 1..n : qs[m] = x) /\ (core[x] \/ ~taken[x])
    BY <1>1, <1>3, <1>4, <1>6 DEF UnitedSoFar
  <2>6. \A m \in 1..n : next.taken[qs[m]] /\ (core[qs[m]] => qs[m] \in Q \cup {q})
    BY <1>1, <1>2, <2>3 DEF UnitedSoFar
  <2>7. UnitedSoFar(qs, n, taken, core, next, Q \cup {q})
    BY <2>2, <2>3, <2>4, <2>5, <2>6 DEF UnitedSoFar
  <2> QED
    BY <1>1, <2>1, <2>7
<1> QED
  BY <1>5, <1>6

\* What Union does to the forest and to who is in a cluster.
LEMMA UnionUnites ==
  ASSUME IsUnionFind(uf), current \in Component, NEW qs \in Seq(Component),
         NEW taken \in [Component -> BOOLEAN], NEW core \in [Component -> BOOLEAN],
         Union(qs, taken, core)
  PROVE  \E Q \in SUBSET Component :
           UnitedSoFar(qs, Len(qs), taken, core, [forest |-> uf', taken |-> in_a_cluster'], Q)
<1> DEFINE D == 0..Len(qs)
           start == [forest |-> uf, taken |-> taken]
           V == [forest : {f \in Forests : IsUnionFind(f)}, taken : [Component -> BOOLEAN]]
           c == [n \in D |-> IF n = 0 THEN 0 ELSE n - 1]
           h == [n \in D |-> n]
           base == [n \in D |-> start]
           go == [n \in D |-> [v \in V |-> IF n = 0 THEN v ELSE unionIfAvailable(v, qs[n], core)]]
           Unites(f) == f = [n \in D |-> IF n = 0 THEN start
                                         ELSE unionIfAvailable(f[n - 1], qs[n], core)]
           after == CHOOSE f : Unites(f)
<1>1. /\ Len(qs) \in Nat
      /\ \A n \in D : n # 0 => n \in 1..Len(qs) /\ n - 1 \in D /\ qs[n] \in Component
  OBVIOUS
<1>2. Descends(D, c, h)
  BY <1>1 DEF Descends
<1>3. \A v \in V, x \in Component : unionIfAvailable(v, x, core) \in V
  <2> TAKE v \in V, x \in Component
  <2>1. IsUnionFind(join(v.forest, current, x))
    BY JoinMerges
  <2>2. [v.taken EXCEPT ![x] = TRUE] \in [Component -> BOOLEAN]
    OBVIOUS
  <2> QED
    BY <2>1, <2>2 DEF unionIfAvailable, IsUnionFind
<1>4. start \in V
  BY DEF IsUnionFind
<1>5. base \in [D -> V]
  <2> HIDE DEF V, start
  <2> QED
    BY <1>4
<1>6. go \in [D -> [V -> V]]
  <2> HIDE DEF V
  <2> QED
    BY <1>1, <1>3
<1>7. PICK f : Solution(D, V, c, base, go, f)
  <2> HIDE DEF D, V, c, h, base, go
  <2> QED
    BY <1>2, <1>5, <1>6, RecursionExists
<1>8. Unites(f)
  <2>1. \A n \in D : f[n] \in V /\ f[n] = IF c[n] = n THEN base[n] ELSE go[n][f[c[n]]]
    <3> HIDE DEF D, V, c, base, go
    <3> QED
      BY <1>7 DEF Solution
  <2>2. \A n \in D : f[n] = IF n = 0 THEN start ELSE unionIfAvailable(f[n - 1], qs[n], core)
    <3> TAKE n \in D
    <3>1. CASE n = 0
      <4> HIDE DEF V, start
      <4> QED
        BY <1>1, <2>1, <3>1
    <3>2. CASE n # 0
      <4>1. c[n] = n - 1 /\ n - 1 \in D /\ f[n - 1] \in V
        BY <1>1, <2>1, <3>2
      <4>2. f[n] = go[n][f[n - 1]]
        <5> HIDE DEF V, go, base
        <5> QED
          BY <1>1, <2>1, <3>2, <4>1
      <4> HIDE DEF V
      <4> QED
        BY <3>2, <4>1, <4>2
    <3> QED
      BY <3>1, <3>2
  <2>3. f \in [D -> V]
    BY <1>7 DEF Solution
  <2> HIDE DEF V, D
  <2> QED
    BY <2>2, <2>3
<1>9. Unites(after)
  <2> HIDE DEF Unites
  <2> QED
    BY <1>8
<1>10. uf' = after[Len(qs)].forest /\ in_a_cluster' = after[Len(qs)].taken
  BY DEF Union
<1>11. /\ DOMAIN after = D
       /\ \A n \in D : after[n] = IF n = 0 THEN start ELSE unionIfAvailable(after[n - 1], qs[n], core)
  <2> HIDE DEF after, D, start
  <2> QED
    BY <1>9
<1> HIDE DEF after
<1> DEFINE Done(n) == \E Q \in SUBSET Component : UnitedSoFar(qs, n, taken, core, after[n], Q)
           B == {n \in D : ~Done(n)}
<1>12. B = {}
  <2> SUFFICES ASSUME B # {} PROVE FALSE
    OBVIOUS
  <2>1. PICK n \in B : \A m \in B : n <= m
    <3>1. B \in SUBSET Nat
      OBVIOUS
    <3> HIDE DEF B
    <3> QED
      BY <3>1, LeastElement
  <2>2. n # 0
    <3>1. GrownBy(uf, current, {}, uf)
      BY DEF GrownBy
    <3>2. UnitedSoFar(qs, 0, taken, core, start, {})
      BY <3>1 DEF UnitedSoFar
    <3>3. after[0] = start
      <4>1. 0 \in D
        BY <1>1
      <4> HIDE DEF D, start
      <4> QED
        BY <1>11, <4>1
    <3> QED
      BY <2>1, <3>2, <3>3
  <2>3. n \in 1..Len(qs) /\ n - 1 \in D /\ n - 1 \notin B
    BY <1>1, <2>1, <2>2
  <2>4. Done(n - 1)
    BY <2>3
  <2>5. Done(n)
    <3>1. PICK Q \in SUBSET Component : UnitedSoFar(qs, n - 1, taken, core, after[n - 1], Q)
      BY <2>4
    <3>2. PICK R \in SUBSET Component :
            UnitedSoFar(qs, n, taken, core, unionIfAvailable(after[n - 1], qs[n], core), R)
      BY <2>3, <3>1, OneMoreUnited
    <3>3. n \in D
      BY <2>1
    <3>4. after[n] = unionIfAvailable(after[n - 1], qs[n], core)
      <4> HIDE DEF D, start
      <4> QED
        BY <1>11, <2>2, <3>3
    <3> QED
      BY <3>2, <3>4
  <2> QED
    BY <2>1, <2>5
<1>13. Done(Len(qs))
  BY <1>1, <1>12
<1>14. PICK Q \in SUBSET Component : UnitedSoFar(qs, Len(qs), taken, core, after[Len(qs)], Q)
  BY <1>13
<1>15. UnitedSoFar(qs, Len(qs), taken, core, [forest |-> uf', taken |-> in_a_cluster'], Q)
  BY <1>10, <1>14 DEF UnitedSoFar
<1> QED
  BY <1>15

\* Finite sets and the sequences of their elements.
LEMMA DistinctAreFew ==
  ASSUME NEW S, IsFiniteSet(S), NEW s \in Seq(S), \A m, n \in DOMAIN s : s[m] = s[n] => m = n
  PROVE  Len(s) <= Cardinality(S)
<1>1. s \in [1..Len(s) -> S] /\ DOMAIN s = 1..Len(s) /\ Len(s) \in Nat
  OBVIOUS
<1>2. s \in Injection(1..Len(s), S)
  BY <1>1 DEF Injection, IsInjective
<1>3. Cardinality(1..Len(s)) = Len(s)
  <2>1. \A n \in Nat : Cardinality(1..n) = n
    BY FS_Interval
  <2> QED
    BY <1>1, <2>1
<1> QED
  BY <1>2, <1>3, FS_Injection

\* A list without repetitions that names all of S is as long as S is large.
LEMMA ListedAreFew ==
  ASSUME NEW S, NEW s \in Seq(S), NEW T \in SUBSET S, \A x \in T : \E n \in DOMAIN s : s[n] = x
  PROVE  Cardinality(T) <= Len(s)
<1> DEFINE R == {s[n] : n \in DOMAIN s}
           f == [n \in 1..Len(s) |-> s[n]]
<1>1. DOMAIN s = 1..Len(s) /\ Len(s) \in Nat
  OBVIOUS
<1>2. f \in Surjection(1..Len(s), R)
  BY <1>1 DEF Surjection
<1>3. IsFiniteSet(1..Len(s)) /\ Cardinality(1..Len(s)) = Len(s)
  BY <1>1, FS_Interval
<1> HIDE DEF f
<1>4. IsFiniteSet(R) /\ Cardinality(R) <= Len(s)
  BY <1>2, <1>3, FS_Surjection
<1>5. T \in SUBSET R
  OBVIOUS
<1> HIDE DEF R
<1>6. Cardinality(T) <= Cardinality(R) /\ Cardinality(T) \in Nat /\ Cardinality(R) \in Nat
  BY <1>4, <1>5, FS_Subset, FS_CardinalityType
<1> QED
  BY <1>1, <1>4, <1>6

\* There are finitely many components.
LEMMA ComponentsAreFinite ==
  ASSUME NEW T \in SUBSET Component
  PROVE  IsFiniteSet(T) /\ Cardinality(T) \in Nat
<1>1. IsFiniteSet(Component)
  BY InputAssumption, FS_Interval DEF Component
<1> QED
  BY <1>1, FS_Subset, FS_CardinalityType

\* What the input of a call that is on the way says.
InputFacts ==
  /\ input.finder \in {"join", "dbscan"} /\ input.minPoints \in Nat
  /\ \A i, j \in Component : Near(i, j) => Near(j, i)
  /\ \A i \in Component : i \in Neighborhood(i) /\ Neighborhood(i) \subseteq Component
  /\ \A i \in Component : Neighborhood(i) \subseteq Hits(i) \/ Neighborhood(i) = {i}
  /\ \A i \in Component : input.turn[i] \in Nat /\ input.points[i] \in Nat
  /\ input.near \subseteq Component \X Component

\* Every input of a call is like that.
LEMMA InputsAreSound ==
  ASSUME input \in Input  PROVE InputFacts
<1>1. /\ input.finder \in {"join", "dbscan"} /\ input.minPoints \in Nat
      /\ input.near \subseteq Component \X Component
      /\ \A i \in Component : <<i, i>> \in input.near
      /\ \A i, j \in Component :
           <<i, j>> \in input.near => <<j, i>> \in input.near /\ {i, j} \in input.found
      /\ \A i, j \in Component : <<i, j>> \in input.near /\ i \in input.empty => i = j
      /\ input.turn \in [Component -> Nat] /\ input.points \in [Component -> Nat]
  BY InputAssumption
<1>2. \A i, j \in Component : Near(i, j) => Near(j, i)
  BY <1>1 DEF Near
<1>3. \A i \in Component : i \in Neighborhood(i) /\ Neighborhood(i) \subseteq Component
  BY <1>1 DEF Neighborhood, Near
<1>4. \A i \in Component : Neighborhood(i) \subseteq Hits(i) \/ Neighborhood(i) = {i}
  <2> TAKE i \in Component
  <2>1. CASE i \in input.empty
    BY <1>1, <1>3, <2>1 DEF Neighborhood, Near
  <2>2. CASE i \notin input.empty
    <3> SUFFICES ASSUME NEW j \in Neighborhood(i) PROVE j \in Hits(i)
      OBVIOUS
    <3>1. j \in Component /\ <<i, j>> \in input.near
      BY DEF Neighborhood, Near
    <3>2. j \notin input.empty /\ {i, j} \in input.found
      BY <1>1, <2>2, <3>1
    <3> QED
      BY <2>2, <3>1, <3>2 DEF Hits
  <2> QED
    BY <2>1, <2>2
<1> QED
  BY <1>1, <1>2, <1>3, <1>4 DEF InputFacts

\* Some hit is next as long as there are hits.
LEMMA NextHitIsAHit ==
  ASSUME InputFacts, hits \subseteq Component, hits # {}
  PROVE  NextHit \in hits
<1> DEFINE T == {input.turn[j] : j \in hits}
<1>1. T \in SUBSET Nat /\ T # {}
  BY DEF InputFacts
<1>2. \E m \in T : \A y \in T : m <= y
  <2> HIDE DEF T
  <2> QED
    BY <1>1, LeastElement
<1>3. \E j \in hits : \A k \in hits : input.turn[j] <= input.turn[k]
  BY <1>2
<1> QED
  BY <1>3 DEF NextHit

\* What becoming one tree means for who shares a tree.
LEMMA GrownTogether ==
  ASSUME NEW f, NEW g, NEW i \in Component, NEW Q \in SUBSET Component, GrownBy(f, i, Q, g)
  PROVE  /\ \A x, y \in Component : root(f.clusters, x) = root(f.clusters, y)
                                      => root(g.clusters, x) = root(g.clusters, y)
         /\ \A q \in Q : root(g.clusters, i) = root(g.clusters, q)
         /\ \A x, y \in Component :
              root(g.clusters, x) = root(g.clusters, y) =>
                \/ root(f.clusters, x) = root(f.clusters, y)
                \/ \E q \in {i} \cup Q : root(f.clusters, x) = root(f.clusters, q)
<1>1. PICK r \in {i} \cup Q : \A k \in Component :
        root(g.clusters, k) = IF \E q \in {i} \cup Q : root(f.clusters, k) = root(f.clusters, q)
                              THEN root(f.clusters, r) ELSE root(f.clusters, k)
  BY DEF GrownBy
<1>2. \A x, y \in Component : root(f.clusters, x) = root(f.clusters, y)
                                => root(g.clusters, x) = root(g.clusters, y)
  BY <1>1
<1>3. \A q \in Q : root(g.clusters, i) = root(g.clusters, q)
  BY <1>1
<1>4. ASSUME NEW x \in Component, NEW y \in Component,
             root(g.clusters, x) = root(g.clusters, y),
             ~\E q \in {i} \cup Q : root(f.clusters, x) = root(f.clusters, q)
      PROVE  root(f.clusters, x) = root(f.clusters, y)
  BY <1>1, <1>4
<1> QED
  BY <1>2, <1>3, <1>4

\* A step that looks at a hit of the current component, and forgets nothing.
Visits ==
  /\ InputFacts /\ Scanning /\ current \in Component /\ hits \subseteq Component
  /\ input' = input /\ pc' = pc /\ p' = p
  /\ \A x \in Component : /\ in_a_cluster[x] => in_a_cluster'[x]
                          /\ is_in_core[x] => is_in_core'[x]
  /\ \A x, y \in Component : Top(x) = Top(y) => Top(x)' = Top(y)'

\* What such a step leaves alone.
LEMMA VisitsFrame ==
  ASSUME Visits
  PROVE  /\ InputFacts' /\ Scanning' /\ current' = current /\ Cores' = Cores
         /\ \A i : Neighborhood(i)' = Neighborhood(i) /\ Hits(i)' = Hits(i)
         /\ \A i, j : Near(i, j)' <=> Near(i, j)
<1>1. input' = input /\ pc' = pc /\ p' = p
  BY DEF Visits
<1>2. /\ \A i : Neighborhood(i)' = Neighborhood(i) /\ Hits(i)' = Hits(i)
      /\ \A i, j : Near(i, j)' <=> Near(i, j)
  BY <1>1 DEF Neighborhood, Hits, Near
<1>3. Cores' = Cores
  BY <1>1, <1>2 DEF Cores
<1>4. Scanning' /\ InputFacts'
  BY <1>1, <1>2 DEF Visits, Scanning, InputFacts
<1> QED
  BY <1>1, <1>2, <1>3, <1>4 DEF current

\* Such a step settles its hit when it settles what remained of it.
LEMMA VisitsSettle ==
  ASSUME Visits, hits # {}, VisitedAreSettled, CFTypes', CurrentIsFollowed'
  PROVE  VisitedAreSettled'
<1>1. /\ InputFacts' /\ Scanning' /\ current' = current /\ Cores' = Cores
      /\ \A i : Neighborhood(i)' = Neighborhood(i)
  BY VisitsFrame
<1>2. /\ Visited \subseteq Component /\ current \notin Visited
      /\ \A i \in Visited' : (i \in Visited \/ i = current) /\ (i = current => hits' = {})
      /\ Visited \subseteq Visited'
  BY <1>1 DEF Visited, Visits
<1>3. ASSUME hits' = {}, current \in Cores
      PROVE  is_in_core'[current] /\ \A q \in Neighborhood(current) : Settled(current, q)'
  <2>1. CASE KnownCore'
    BY <1>1, <1>3, <2>1 DEF CurrentIsFollowed
  <2>2. CASE ~KnownCore'
    <3>1. neighbors' \in Seq(Component) /\ input'.minPoints \in Nat
      BY <1>1 DEF CFTypes, InputFacts
    <3>2. Neighborhood(current) \in SUBSET Component
      BY DEF Neighborhood
    <3>3. \A q \in Neighborhood(current) : \E n \in DOMAIN neighbors' : neighbors'[n] = q
      BY <1>1, <1>3, <2>2 DEF CurrentIsFollowed
    <3>4. Cardinality(Neighborhood(current)) <= Len(neighbors')
      BY <3>1, <3>2, <3>3, ListedAreFew
    <3>5. Cardinality(Neighborhood(current)) \in Nat
      BY <3>2, ComponentsAreFinite
    <3>6. Len(neighbors') < input'.minPoints /\ Len(neighbors') \in Nat
      BY <2>2, <3>1 DEF KnownCore
    <3>7. ~(Cardinality(Neighborhood(current)) >= input'.minPoints)
      BY <3>1, <3>4, <3>5, <3>6
    <3>8. input.minPoints = input'.minPoints /\ input.finder = "dbscan"
      BY DEF Visits, Scanning
    <3> QED
      BY <1>3, <3>7, <3>8 DEF Cores, Visits, Scanning
  <2> QED
    BY <2>1, <2>2
<1> SUFFICES ASSUME NEW i \in Visited', i \in Cores
             PROVE  is_in_core'[i] /\ \A q \in Neighborhood(i) : Settled(i, q)'
  BY <1>1 DEF VisitedAreSettled
<1>4. CASE i = current
  BY <1>1, <1>2, <1>3, <1>4
<1>5. CASE i # current
  <2>1. i \in Visited /\ i \in Component
    BY <1>2, <1>5
  <2>2. is_in_core[i] /\ \A q \in Neighborhood(i) : Settled(i, q)
    BY <2>1 DEF VisitedAreSettled, Visits
  <2>3. is_in_core'[i]
    BY <2>1, <2>2 DEF Visits
  <2>4. ASSUME NEW q \in Neighborhood(i) PROVE Settled(i, q)'
    <3>1. q \in Component /\ Near(i, q) /\ Near(q, i) /\ i \in Neighborhood(q)
      BY <2>1 DEF Neighborhood, Visits, InputFacts
    <3>2. in_a_cluster'[q]
      BY <2>2, <3>1 DEF Settled, Visits
    <3>3. ASSUME q \in Visited' \cap Cores' PROVE Top(i)' = Top(q)'
      <4>1. CASE q \in Visited
        BY <1>1, <2>1, <2>2, <3>1, <3>3, <4>1 DEF Settled, Visits
      <4>2. CASE q = current /\ hits' = {}
        <5>1. Settled(current, i)'
          BY <1>1, <1>3, <3>1, <3>3, <4>2
        <5> QED
          BY <1>1, <4>2, <5>1 DEF Settled
      <4> QED
        BY <1>2, <3>3, <4>1, <4>2
    <3> QED
      BY <3>2, <3>3 DEF Settled
  <2> QED
    BY <2>3, <2>4
<1> QED
  BY <1>4, <1>5

\* A core takes Q into its cluster.
Grows(Q) ==
  /\ InputFacts /\ Scanning /\ current \in Cores /\ current \in Component
  /\ hits \subseteq Component
  /\ input' = input /\ pc' = pc /\ p' = p
  /\ GrownBy(uf, current, Q, uf')
  /\ \A x \in Component : /\ in_a_cluster'[x] <=> (in_a_cluster[x] \/ x \in {current} \cup Q)
                          /\ is_in_core'[x] <=> (is_in_core[x] \/ x = current)

\* A step that grows a cluster keeps who shares one, and unites what it took.
LEMMA GrowingVisits ==
  ASSUME NEW Q \in SUBSET Component, Grows(Q), MembersOnly
  PROVE  Visits /\ MembersOnly' /\ \A q \in Q : Top(current)' = Top(q)'
<1>1. /\ \A x, y \in Component : Top(x) = Top(y) => Top(x)' = Top(y)'
      /\ \A q \in Q : root(uf'.clusters, current) = Top(q)'
      /\ \A x, y \in Component :
           Top(x)' = Top(y)' => Top(x) = Top(y) \/ \E q \in {current} \cup Q : Top(x) = Top(q)
  <2>1. current \in Component /\ GrownBy(uf, current, Q, uf')
    BY DEF Grows
  <2> QED
    BY <2>1, GrownTogether DEF Top
<1>2. Visits
  BY <1>1 DEF Grows, Visits
<1>3. current' = current /\ Scanning' /\ Cores' = Cores /\ input' = input
  BY <1>2, VisitsFrame DEF Visits
<1>4. ASSUME NEW x \in Component, ~in_a_cluster'[x], NEW y \in Component, Top(x)' = Top(y)'
      PROVE  x = y
  <2>1. ~in_a_cluster[x] /\ x \notin {current} \cup Q
    BY <1>4 DEF Grows
  <2>2. \A z \in Component : Top(x) = Top(z) => x = z
    BY <2>1 DEF MembersOnly, Grows
  <2>3. {current} \cup Q \subseteq Component
    BY DEF Grows
  <2> QED
    BY <1>1, <1>4, <2>1, <2>2, <2>3
<1>5. \A x \in Component : is_in_core'[x] => x \in Cores /\ in_a_cluster'[x]
  BY DEF Grows, MembersOnly
<1>6. input.minPoints <= 1 => \A x \in Component : is_in_core'[x]
  BY DEF Grows, MembersOnly
<1>7. MembersOnly'
  BY <1>3, <1>4, <1>5, <1>6 DEF MembersOnly
<1> QED
  BY <1>1, <1>2, <1>3, <1>7 DEF Top

\* What the actions that look at a hit start from.
LEMMA DbscanStarts ==
  ASSUME FinderInv, Dbscan
  PROVE  /\ InputFacts /\ Scanning /\ current \in Component /\ hits \subseteq Component
         /\ NextHit \in hits /\ NextHit \in Component /\ CurrentIsFollowed /\ MembersOnly
         /\ IsUnionFind(uf) /\ VisitedAreSettled /\ pc = "process" /\ input.finder = "dbscan"
         /\ neighbors \in Seq(Component) /\ input.minPoints \in Nat /\ Len(neighbors) \in Nat
         /\ in_a_cluster \in [Component -> BOOLEAN] /\ is_in_core \in [Component -> BOOLEAN]
<1>1. input \in Input /\ pc = "process" /\ input.finder = "dbscan" /\ hits # {} /\ CFTypes
  BY DEF FinderInv, CFTypes, Dbscan
<1>2. InputFacts
  BY <1>1, InputsAreSound
<1>3. NextHit \in hits /\ hits \subseteq Component
  BY <1>1, <1>2, NextHitIsAHit DEF CFTypes
<1>4. current \in Component
  <2>1. p \in 0..components /\ p > 0 /\ components \in Nat
    BY <1>1, InputAssumption DEF CFTypes
  <2> QED
    BY <2>1 DEF Component, current
<1>5. Scanning /\ CurrentIsFollowed
  BY <1>1 DEF FinderInv, CurrentSoFar, Scanning
<1>6. Len(neighbors) \in Nat /\ neighbors \in Seq(Component)
  BY <1>1 DEF CFTypes
<1> QED
  BY <1>1, <1>2, <1>3, <1>4, <1>5, <1>6 DEF FinderInv, CFTypes, InputFacts

\* A hit with nothing to learn from is settled already, or not near.
LEMMA SkipKeeps == FinderInv /\ SkipHit => FinderInv'
<1> SUFFICES ASSUME FinderInv, SkipHit PROVE FinderInv'
  OBVIOUS
<1> DEFINE q == NextHit
<1>1. Dbscan /\ (NothingToLearn(q) \/ ~Near(current, q)) /\ hits' = hits \ {q}
  BY DEF SkipHit
<1>2. /\ InputFacts /\ Scanning /\ current \in Component /\ hits \subseteq Component /\ hits # {}
      /\ q \in hits /\ q \in Component /\ CurrentIsFollowed /\ MembersOnly
      /\ IsUnionFind(uf) /\ VisitedAreSettled /\ pc = "process"
  BY <1>1, DbscanStarts DEF Dbscan
<1>3. input' = input /\ pc' = pc /\ p' = p
  BY DEF SkipHit
<1>4. neighbors' = neighbors /\ in_a_cluster' = in_a_cluster /\ is_in_core' = is_in_core /\ ids' = ids
  BY DEF SkipHit
<1>5. IsUnionFind(uf') /\ \A x \in Component : Top(x)' = Top(x)
  <2>1. CASE KnownCore
    <3>1. uf' = Asked(uf, current, q)
      BY <2>1 DEF SkipHit
    <3> HIDE DEF q
    <3> QED
      BY <1>2, <3>1, AskedKeepsRoots DEF Top
  <2>2. CASE ~KnownCore
    BY <1>2, <2>2 DEF SkipHit, Top
  <2> QED
    BY <2>1, <2>2
<1>6. Visits
  BY <1>2, <1>3, <1>4, <1>5 DEF Visits
<1>7. /\ InputFacts' /\ Scanning' /\ current' = current /\ Cores' = Cores
      /\ \A i : Neighborhood(i)' = Neighborhood(i) /\ Hits(i)' = Hits(i)
  BY <1>6, VisitsFrame
<1> HIDE DEF q
<1>8. CFTypes'
  BY <1>1, <1>2, <1>3, <1>4, <1>5 DEF CFTypes, FinderInv
<1>9. MembersOnly'
  BY <1>2, <1>3, <1>4, <1>5, <1>7 DEF MembersOnly
<1>10. KnownCore' <=> KnownCore
  BY <1>3, <1>4 DEF KnownCore
<1>11. \A x \in Visited' : x \in Visited \/ x = current
  BY <1>3, <1>7 DEF Visited
\* Why the core has nothing to learn from q.
<1>12. ASSUME q \in Neighborhood(current) PROVE KnownCore /\ Settled(current, q)
  <2>1. NothingToLearn(q)
    BY <1>1, <1>12 DEF Neighborhood
  <2>2. KnownCore /\ is_in_core[current]
    BY <1>2, <2>1 DEF NothingToLearn, CurrentIsFollowed
  <2>3. CASE same(uf, current, q)
    <3>1. Top(current) = Top(q)
      BY <2>3 DEF same, Top
    <3>2. in_a_cluster[current]
      BY <1>2, <2>2 DEF MembersOnly
    <3>3. in_a_cluster[q]
      BY <1>2, <3>1, <3>2 DEF MembersOnly
    <3> QED
      BY <2>2, <3>1, <3>3 DEF Settled
  <2>4. CASE in_a_cluster[q] /\ ~is_in_core[q]
    BY <1>2, <2>2, <2>4 DEF Settled, VisitedAreSettled
  <2> QED
    BY <2>1, <2>3, <2>4 DEF NothingToLearn
<1>13. \A x \in Neighborhood(current) : Settled(current, x) => Settled(current, x)'
  <2> SUFFICES ASSUME NEW x \in Neighborhood(current), Settled(current, x)
               PROVE  Settled(current, x)'
    BY <1>7
  <2>1. x \in Component
    BY DEF Neighborhood
  <2> QED
    BY <1>2, <1>4, <1>5, <1>7, <1>11, <2>1 DEF Settled
<1>14. \A x \in Neighborhood(current) \ hits' : x \in Neighborhood(current) \ hits \/ x = q
  BY <1>1
<1>15. CurrentIsFollowed'
  <2>1. (Neighborhood(current) \subseteq Hits(current))'
    BY <1>2, <1>7 DEF CurrentIsFollowed
  <2>2. (KnownCore => is_in_core[current])'
    BY <1>2, <1>4, <1>7, <1>10 DEF CurrentIsFollowed
  <2>3. ASSUME NEW x \in Neighborhood(current) \ hits'
        PROVE  IF KnownCore' THEN Settled(current, x)'
               ELSE \E n \in DOMAIN neighbors' : neighbors'[n] = x
    BY <1>2, <1>4, <1>10, <1>12, <1>13, <1>14 DEF CurrentIsFollowed
  <2>4. (\A n \in DOMAIN neighbors : neighbors[n] \in Neighborhood(current) \ hits)'
    BY <1>1, <1>2, <1>4, <1>7 DEF CurrentIsFollowed
  <2>5. (\A m, n \in DOMAIN neighbors : neighbors[m] = neighbors[n] => m = n)'
    BY <1>2, <1>4 DEF CurrentIsFollowed
  <2> QED
    BY <1>7, <2>1, <2>2, <2>3, <2>4, <2>5 DEF CurrentIsFollowed
<1>16. VisitedAreSettled'
  BY <1>2, <1>6, <1>8, <1>15, VisitsSettle
<1> QED
  BY <1>2, <1>3, <1>7, <1>8, <1>9, <1>15, <1>16 DEF FinderInv, CurrentSoFar, JoinedSoFar,
     Scanning

\* What was settled stays settled when a cluster grows.
LEMMA VisitsKeepSettled ==
  ASSUME Visits, NEW x \in Neighborhood(current), Settled(current, x)
  PROVE  Settled(current, x)'
<1>1. /\ current' = current /\ Cores' = Cores
      /\ \A i \in Visited' : i \in Visited \/ i = current
  <2>1. current' = current /\ Cores' = Cores /\ p' = p
    BY VisitsFrame DEF Visits
  <2> QED
    BY <2>1 DEF Visited, Visits
<1>2. x \in Component
  BY DEF Neighborhood
<1>3. in_a_cluster'[x]
  BY <1>2 DEF Visits, Settled
<1>4. x \in Visited' /\ x \in Cores => Top(current)' = Top(x)'
  <2> SUFFICES ASSUME x \in Visited', x \in Cores PROVE root(uf'.clusters, current) = Top(x)'
    BY <1>1 DEF Top
  <2>1. CASE x = current
    BY <2>1 DEF Top
  <2>2. CASE x \in Visited
    <3>1. Top(current) = Top(x)
      BY <2>2 DEF Settled
    <3>2. \A y, z \in Component : Top(y) = Top(z) => Top(y)' = Top(z)'
      BY DEF Visits
    <3>3. current \in Component
      BY DEF Visits
    <3> QED
      BY <1>2, <3>1, <3>2, <3>3 DEF Top
  <2> QED
    BY <1>1, <2>1, <2>2
<1> QED
  BY <1>1, <1>3, <1>4 DEF Settled

\* A core takes neighbors, other cores or some that were in no cluster yet.
CoreTakes ==
  /\ IsUnionFind(uf') /\ in_a_cluster' \in [Component -> BOOLEAN]
  /\ \E Q \in SUBSET Neighborhood(current) :
       Grows(Q) /\ \A q \in Q : is_in_core'[q] \/ ~in_a_cluster[q]

\* What is united by a core are its neighbors; then all of them are settled.
LEMMA UnitedGrow ==
  ASSUME Scanning, InputFacts, current \in Cores, current \in Component, hits \subseteq Component,
         MembersOnly, VisitedAreSettled, IsUnionFind(uf),
         in_a_cluster \in [Component -> BOOLEAN], is_in_core \in [Component -> BOOLEAN],
         input' = input, pc' = pc, p' = p,
         NEW qs \in Seq(Component), \A n \in DOMAIN qs : qs[n] \in Neighborhood(current),
         is_in_core' = [is_in_core EXCEPT ![current] = TRUE],
         Union(qs, [in_a_cluster EXCEPT ![current] = TRUE], is_in_core')
  PROVE  /\ CoreTakes
         /\ \A n \in DOMAIN qs : Settled(current, qs[n])'
<1> DEFINE taken == [in_a_cluster EXCEPT ![current] = TRUE]
           state == [forest |-> uf', taken |-> in_a_cluster']
<1>1. /\ taken \in [Component -> BOOLEAN]
      /\ is_in_core' \in [Component -> BOOLEAN]
      /\ \A x \in Component : /\ taken[x] <=> (in_a_cluster[x] \/ x = current)
                              /\ is_in_core'[x] <=> (is_in_core[x] \/ x = current)
  OBVIOUS
<1> HIDE DEF taken
<1>2. PICK Q \in SUBSET Component : UnitedSoFar(qs, Len(qs), taken, is_in_core', state, Q)
  <2>1. Union(qs, taken, is_in_core')
    BY DEF taken
  <2>2. current \in Component /\ IsUnionFind(uf) /\ qs \in Seq(Component)
    OBVIOUS
  <2> DEFINE core == is_in_core'
  <2>3. core \in [Component -> BOOLEAN] /\ Union(qs, taken, core)
    BY <1>1, <2>1
  <2> HIDE DEF core
  <2>4. \E Q \in SUBSET Component : UnitedSoFar(qs, Len(qs), taken, core, state, Q)
    BY <1>1, <2>2, <2>3, UnionUnites
  <2> QED
    BY <2>4 DEF core
<1>3. DOMAIN qs = 1..Len(qs)
  OBVIOUS
<1>4. /\ IsUnionFind(uf') /\ in_a_cluster' \in [Component -> BOOLEAN]
      /\ GrownBy(uf, current, Q, uf')
      /\ \A x \in Component : in_a_cluster'[x] <=> (in_a_cluster[x] \/ x \in {current} \cup Q)
      /\ \A q \in Q : (\E m \in DOMAIN qs : qs[m] = q) /\ (is_in_core'[q] \/ ~in_a_cluster[q])
      /\ \A m \in DOMAIN qs : in_a_cluster'[qs[m]] /\ (is_in_core'[qs[m]] => qs[m] \in Q)
  BY <1>1, <1>2, <1>3 DEF UnitedSoFar
<1>5. Grows(Q)
  BY <1>1, <1>4 DEF Grows
<1>6. Q \in SUBSET Neighborhood(current)
  BY <1>4
<1>7. /\ Visits /\ \A q \in Q : Top(current)' = Top(q)'
      /\ current' = current /\ Cores' = Cores
  BY <1>5, GrowingVisits, VisitsFrame
<1>8. \A i \in Visited' : i \in Visited \/ i = current
  BY <1>7 DEF Visited
<1>9. ASSUME NEW n \in DOMAIN qs PROVE Settled(current, qs[n])'
  <2> DEFINE x == qs[n]
  <2>1. x \in Component /\ in_a_cluster'[x]
    BY <1>4
  <2>2. x \in Visited' /\ x \in Cores => Top(current)' = Top(x)'
    <3> SUFFICES ASSUME x \in Visited', x \in Cores PROVE Top(current)' = Top(x)'
      OBVIOUS
    <3>1. CASE x = current
      BY <1>7, <3>1
    <3>2. CASE x \in Visited
      <4>1. is_in_core[x]
        BY <3>2 DEF VisitedAreSettled
      <4>2. x \in Q
        BY <1>1, <1>4, <2>1, <4>1
      <4> QED
        BY <1>7, <4>2
    <3> QED
      BY <1>8, <3>1, <3>2
  <2> QED
    BY <1>7, <2>1, <2>2 DEF Settled
<1> QED
  BY <1>4, <1>5, <1>6, <1>9 DEF CoreTakes

\* Uniting a list of neighbors is a visit that takes them.
LEMMA TakingVisits ==
  ASSUME CoreTakes, MembersOnly
  PROVE  Visits /\ MembersOnly'
<1>1. \A Q \in SUBSET Neighborhood(current) : Q \in SUBSET Component
  BY DEF Neighborhood
<1> QED
  BY <1>1, GrowingVisits DEF CoreTakes

\* A known core takes the hit it visits.
LEMMA UnionTakes ==
  ASSUME FinderInv, UnionNeighbor
  PROVE  CoreTakes /\ \A x : x = NextHit => Settled(current, x)'
<1>0. PICK q : q = NextHit
  OBVIOUS
<1> DEFINE qs == <<q>>
<1>1. /\ Dbscan /\ Near(current, q) /\ KnownCore
      /\ Union(qs, in_a_cluster, is_in_core)
      /\ input' = input /\ pc' = pc /\ p' = p /\ is_in_core' = is_in_core
  BY <1>0 DEF UnionNeighbor
<1>2. /\ InputFacts /\ Scanning /\ current \in Component /\ hits \subseteq Component
      /\ q \in Component /\ CurrentIsFollowed /\ MembersOnly
      /\ IsUnionFind(uf) /\ VisitedAreSettled
      /\ in_a_cluster \in [Component -> BOOLEAN] /\ is_in_core \in [Component -> BOOLEAN]
  BY <1>0, <1>1, DbscanStarts
<1>3. is_in_core[current] /\ in_a_cluster[current] /\ current \in Cores
  BY <1>1, <1>2 DEF CurrentIsFollowed, MembersOnly
<1>4. /\ is_in_core' = [is_in_core EXCEPT ![current] = TRUE]
      /\ in_a_cluster = [in_a_cluster EXCEPT ![current] = TRUE]
  BY <1>1, <1>2, <1>3
<1>5. Union(qs, [in_a_cluster EXCEPT ![current] = TRUE], is_in_core')
  BY <1>1, <1>4
<1>6. q \in Neighborhood(current)
  BY <1>1, <1>2 DEF Neighborhood
<1>7. qs \in Seq(Component) /\ \A n \in DOMAIN qs : qs[n] \in Neighborhood(current)
  BY <1>2, <1>6
<1> HIDE DEF qs
<1>8. CoreTakes /\ \A n \in DOMAIN qs : Settled(current, qs[n])'
  BY <1>1, <1>2, <1>3, <1>4, <1>5, <1>7, UnitedGrow
<1>9. 1 \in DOMAIN qs /\ qs[1] = q
  BY DEF qs
<1> QED
  BY <1>0, <1>8, <1>9

\* UnionNeighbor.
LEMMA UnionKeeps == FinderInv /\ UnionNeighbor => FinderInv'
<1> SUFFICES ASSUME FinderInv, UnionNeighbor PROVE FinderInv'
  OBVIOUS
<1>0. PICK q : q = NextHit
  OBVIOUS
<1>1. /\ Dbscan /\ Near(current, q) /\ KnownCore /\ hits' = hits \ {q}
      /\ input' = input /\ pc' = pc /\ p' = p
      /\ neighbors' = neighbors /\ is_in_core' = is_in_core
  BY <1>0 DEF UnionNeighbor
<1>2. /\ InputFacts /\ Scanning /\ current \in Component /\ hits \subseteq Component /\ hits # {}
      /\ q \in hits /\ CurrentIsFollowed /\ MembersOnly /\ VisitedAreSettled /\ pc = "process"
  BY <1>0, <1>1, DbscanStarts DEF Dbscan
<1>3. /\ IsUnionFind(uf') /\ in_a_cluster' \in [Component -> BOOLEAN]
      /\ Settled(current, q)' /\ Visits /\ MembersOnly'
  BY <1>0, <1>2, UnionTakes, TakingVisits DEF CoreTakes
<1>4. /\ InputFacts' /\ Scanning' /\ current' = current /\ Cores' = Cores
      /\ \A i : Neighborhood(i)' = Neighborhood(i) /\ Hits(i)' = Hits(i)
  BY <1>3, VisitsFrame
<1>5. CFTypes'
  BY <1>1, <1>2, <1>3 DEF CFTypes, FinderInv
<1>6. KnownCore' /\ is_in_core'[current']
  BY <1>1, <1>2, <1>4 DEF KnownCore, CurrentIsFollowed
<1>7. CurrentIsFollowed'
  <2>1. (Neighborhood(current) \subseteq Hits(current))'
    BY <1>2, <1>4 DEF CurrentIsFollowed
  <2>2. ASSUME NEW x \in Neighborhood(current) \ hits' PROVE Settled(current, x)'
    <3>1. CASE x = q
      BY <1>3, <3>1
    <3>2. CASE x # q
      BY <1>1, <1>2, <1>3, <3>2, VisitsKeepSettled DEF CurrentIsFollowed
    <3> QED
      BY <3>1, <3>2
  <2>3. (\A n \in DOMAIN neighbors : neighbors[n] \in Neighborhood(current) \ hits)'
    BY <1>1, <1>2, <1>4 DEF CurrentIsFollowed
  <2>4. (\A m, n \in DOMAIN neighbors : neighbors[m] = neighbors[n] => m = n)'
    BY <1>1, <1>2 DEF CurrentIsFollowed
  <2> QED
    BY <1>4, <1>6, <2>1, <2>2, <2>3, <2>4 DEF CurrentIsFollowed
<1>8. VisitedAreSettled'
  BY <1>2, <1>3, <1>5, <1>7, VisitsSettle
<1> QED
  BY <1>1, <1>2, <1>3, <1>4, <1>5, <1>7, <1>8 DEF FinderInv, CurrentSoFar, JoinedSoFar, Scanning

\* The neighbors of a component that has just turned out to be a core.
LEMMA EnoughNeighbors ==
  ASSUME InputFacts, Scanning, current \in Component, NEW qs \in Seq(Component),
         \A n \in DOMAIN qs : qs[n] \in Neighborhood(current),
         \A m, n \in DOMAIN qs : qs[m] = qs[n] => m = n, Len(qs) = input.minPoints
  PROVE  current \in Cores
<1> DEFINE N == Neighborhood(current)
<1>1. N \in SUBSET Component
  BY DEF Neighborhood
<1>2. qs \in Seq(N)
  <2>1. Len(qs) \in Nat /\ DOMAIN qs = 1..Len(qs) /\ qs = [n \in 1..Len(qs) |-> qs[n]]
    OBVIOUS
  <2> HIDE DEF N
  <2>2. \A n \in 1..Len(qs) : qs[n] \in N
    BY <2>1 DEF N
  <2> QED
    BY <2>1, <2>2
<1>3. IsFiniteSet(N) /\ Cardinality(N) \in Nat
  BY <1>1, ComponentsAreFinite
<1>4. Len(qs) <= Cardinality(N)
  <2> HIDE DEF N
  <2> QED
    BY <1>2, <1>3, DistinctAreFew
<1>5. Cardinality(N) >= input.minPoints
  BY <1>3, <1>4 DEF InputFacts
<1> QED
  BY <1>5 DEF Cores, Scanning

\* The list of neighbors after one more.
LEMMA KeptNeighbors ==
  ASSUME FinderInv, KeepNeighbor
  PROVE  /\ neighbors' \in Seq(Component) /\ Len(neighbors') = Len(neighbors) + 1
         /\ (KnownCore' <=> Len(neighbors') = input.minPoints)
         /\ \A n \in DOMAIN neighbors' : neighbors'[n] \in Neighborhood(current) \ hits'
         /\ \A m, n \in DOMAIN neighbors' : neighbors'[m] = neighbors'[n] => m = n
         /\ \A x \in Neighborhood(current) \ hits' : \E n \in DOMAIN neighbors' : neighbors'[n] = x
<1>0. PICK q : q = NextHit
  OBVIOUS
<1>1. /\ Dbscan /\ Near(current, q) /\ ~KnownCore /\ hits' = hits \ {q}
      /\ neighbors' = Append(neighbors, q) /\ input' = input
  BY <1>0 DEF KeepNeighbor
<1>2. /\ q \in hits /\ q \in Component /\ CurrentIsFollowed /\ neighbors \in Seq(Component)
      /\ input.minPoints \in Nat /\ Len(neighbors) \in Nat
  BY <1>0, <1>1, DbscanStarts
<1>3. q \in Neighborhood(current)
  BY <1>1, <1>2 DEF Neighborhood
<1>4. /\ neighbors' \in Seq(Component) /\ Len(neighbors') = Len(neighbors) + 1
      /\ DOMAIN neighbors' = 1..Len(neighbors') /\ DOMAIN neighbors = 1..Len(neighbors)
      /\ \A n \in DOMAIN neighbors : n \in DOMAIN neighbors' /\ neighbors'[n] = neighbors[n]
      /\ Len(neighbors') \in DOMAIN neighbors' /\ neighbors'[Len(neighbors')] = q
      /\ \A n \in DOMAIN neighbors' : n \in DOMAIN neighbors \/ n = Len(neighbors')
  BY <1>1, <1>2
<1>5. KnownCore' <=> Len(neighbors') = input.minPoints
  BY <1>1, <1>2, <1>4 DEF KnownCore
<1>6. \A n \in DOMAIN neighbors' : neighbors'[n] \in Neighborhood(current) \ hits'
  BY <1>1, <1>2, <1>3, <1>4 DEF CurrentIsFollowed
<1>7. \A m, n \in DOMAIN neighbors' : neighbors'[m] = neighbors'[n] => m = n
  BY <1>1, <1>2, <1>4 DEF CurrentIsFollowed
<1>8. \A x \in Neighborhood(current) \ hits' : \E n \in DOMAIN neighbors' : neighbors'[n] = x
  BY <1>1, <1>2, <1>4 DEF CurrentIsFollowed
<1> QED
  BY <1>4, <1>5, <1>6, <1>7, <1>8

\* The component that has just turned out to be a core takes all it has kept.
LEMMA KeepTakes ==
  ASSUME FinderInv, KeepNeighbor, KnownCore'
  PROVE  /\ CoreTakes /\ is_in_core' = [is_in_core EXCEPT ![current] = TRUE]
         /\ \A x \in Neighborhood(current) \ hits' : Settled(current, x)'
<1>1. PICK qs : qs = neighbors'
  OBVIOUS
<1>2. /\ qs \in Seq(Component) /\ Len(qs) = input.minPoints
      /\ \A n \in DOMAIN qs : qs[n] \in Neighborhood(current)
      /\ \A m, n \in DOMAIN qs : qs[m] = qs[n] => m = n
      /\ \A x \in Neighborhood(current) \ hits' : \E n \in DOMAIN qs : qs[n] = x
  BY <1>1, KeptNeighbors
<1>3. /\ Dbscan /\ input' = input /\ pc' = pc /\ p' = p
      /\ is_in_core' = [is_in_core EXCEPT ![current] = TRUE]
      /\ Union(qs, [in_a_cluster EXCEPT ![current] = TRUE], is_in_core')
  BY <1>1, <1>2 DEF KeepNeighbor
<1>4. /\ InputFacts /\ Scanning /\ current \in Component /\ hits \subseteq Component
      /\ MembersOnly /\ IsUnionFind(uf) /\ VisitedAreSettled
      /\ in_a_cluster \in [Component -> BOOLEAN] /\ is_in_core \in [Component -> BOOLEAN]
  BY <1>3, DbscanStarts
<1>5. current \in Cores
  BY <1>2, <1>4, EnoughNeighbors
<1>6. CoreTakes /\ \A n \in DOMAIN qs : Settled(current, qs[n])'
  BY <1>2, <1>3, <1>4, <1>5, UnitedGrow
<1> QED
  BY <1>2, <1>3, <1>6

\* KeepNeighbor, whether or not the neighbor makes it a core.
LEMMA KeepKeeps == FinderInv /\ KeepNeighbor => FinderInv'
<1> SUFFICES ASSUME FinderInv, KeepNeighbor PROVE FinderInv'
  OBVIOUS
<1>0. PICK q : q = NextHit
  OBVIOUS
<1>1. /\ Dbscan /\ hits' = hits \ {q}
      /\ input' = input /\ pc' = pc /\ p' = p
      /\ Len(neighbors') # input.minPoints => UNCHANGED <<uf, in_a_cluster, is_in_core>>
  BY <1>0 DEF KeepNeighbor
<1>2. /\ InputFacts /\ Scanning /\ current \in Component /\ hits \subseteq Component /\ hits # {}
      /\ CurrentIsFollowed /\ MembersOnly
      /\ IsUnionFind(uf) /\ VisitedAreSettled /\ pc = "process"
      /\ in_a_cluster \in [Component -> BOOLEAN] /\ is_in_core \in [Component -> BOOLEAN]
  BY <1>1, DbscanStarts DEF Dbscan
<1>3. /\ neighbors' \in Seq(Component)
      /\ (KnownCore' <=> Len(neighbors') = input.minPoints)
      /\ \A n \in DOMAIN neighbors' : neighbors'[n] \in Neighborhood(current) \ hits'
      /\ \A m, n \in DOMAIN neighbors' : neighbors'[m] = neighbors'[n] => m = n
      /\ \A x \in Neighborhood(current) \ hits' : \E n \in DOMAIN neighbors' : neighbors'[n] = x
  BY KeptNeighbors
<1>4. /\ Visits /\ MembersOnly'
      /\ IsUnionFind(uf') /\ in_a_cluster' \in [Component -> BOOLEAN]
      /\ is_in_core' \in [Component -> BOOLEAN] /\ (KnownCore' => is_in_core'[current])
  <2>1. CASE KnownCore'
    BY <1>2, <2>1, KeepTakes, TakingVisits DEF CoreTakes
  <2>2. CASE ~KnownCore'
    <3>1. uf' = uf /\ in_a_cluster' = in_a_cluster /\ is_in_core' = is_in_core
      BY <1>1, <1>3, <2>2
    <3>2. \A x \in Component : Top(x)' = Top(x)
      BY <3>1 DEF Top
    <3>3. Visits
      BY <1>1, <1>2, <3>1, <3>2 DEF Visits
    <3>4. Scanning' /\ Cores' = Cores
      BY <3>3, VisitsFrame
    <3>5. MembersOnly'
      BY <1>1, <1>2, <3>1, <3>2, <3>4 DEF MembersOnly
    <3> QED
      BY <1>2, <2>2, <3>1, <3>3, <3>5
  <2> QED
    BY <2>1, <2>2
<1>5. /\ InputFacts' /\ Scanning' /\ current' = current /\ Cores' = Cores
      /\ \A i : Neighborhood(i)' = Neighborhood(i) /\ Hits(i)' = Hits(i)
  BY <1>4, VisitsFrame
<1>6. CFTypes'
  <2>1. /\ CFTypes /\ pc' = "process" /\ hits' \subseteq Component /\ input' = input /\ p' = p
        /\ hits' # {} => p > 0
    BY <1>1, <1>2 DEF FinderInv, CFTypes
  <2>2. /\ pc' \in {"idle", "process", "done"} /\ p' \in 0..components
        /\ pc' # "idle" /\ input' \in Input
    BY <1>2, <2>1 DEF CFTypes
  <2> QED
    BY <1>3, <1>4, <2>1, <2>2 DEF CFTypes
<1>7. CurrentIsFollowed'
  <2>1. (Neighborhood(current) \subseteq Hits(current))'
    BY <1>2, <1>5 DEF CurrentIsFollowed
  <2>2. (KnownCore => is_in_core[current])'
    BY <1>4, <1>5
  <2>3. ASSUME KnownCore' PROVE \A x \in Neighborhood(current) \ hits' : Settled(current, x)'
    BY <2>3, KeepTakes
  <2> QED
    BY <1>3, <1>5, <2>1, <2>2, <2>3 DEF CurrentIsFollowed
<1>8. VisitedAreSettled'
  BY <1>2, <1>4, <1>6, <1>7, VisitsSettle
<1> QED
  BY <1>1, <1>2, <1>4, <1>5, <1>6, <1>7, <1>8 DEF FinderInv, CurrentSoFar, JoinedSoFar, Scanning

\* Joining two components makes their trees one.
LEMMA JoinGrown ==
  ASSUME IsUnionFind(uf), NEW i \in Component, NEW q \in Component
  PROVE  IsUnionFind(join(uf, i, q)) /\ GrownBy(uf, i, {q}, join(uf, i, q))
<1>1. GrownBy(uf, i, {}, uf)
  BY DEF GrownBy
<1>2. IsUnionFind(join(uf, i, q)) /\ GrownBy(uf, i, {} \cup {q}, join(uf, i, q))
  BY <1>1, JoinGrows
<1> QED
  BY <1>2

\* VisitToJoin.
LEMMA JoinKeeps == FinderInv /\ VisitToJoin => FinderInv'
<1> SUFFICES ASSUME FinderInv, VisitToJoin PROVE FinderInv'
  OBVIOUS
<1>0. PICK q : q = NextHit
  OBVIOUS
<1>1. /\ pc = "process" /\ input.finder = "join" /\ hits # {} /\ hits' = hits \ {q}
      /\ input' = input /\ pc' = pc /\ p' = p /\ neighbors' = neighbors
      /\ in_a_cluster' = in_a_cluster /\ is_in_core' = is_in_core /\ ids' = ids
      /\ uf' = IF /\ ~same(uf, current, q)
                  /\ input.points[current] >= input.points[q] /\ Near(current, q)
               THEN join(uf, current, q) ELSE Asked(uf, current, q)
  BY <1>0 DEF VisitToJoin
<1>2. /\ CFTypes /\ input \in Input /\ IsUnionFind(uf) /\ JoinedSoFar
      /\ p \in 0..components /\ hits \subseteq Component /\ p > 0
  BY <1>1 DEF FinderInv, CFTypes
<1>3. InputFacts /\ q \in hits /\ q \in Component
  BY <1>0, <1>1, <1>2, InputsAreSound, NextHitIsAHit
<1>4. current \in Component
  BY <1>2, InputAssumption DEF Component, current
<1>5. /\ IsUnionFind(uf') /\ \A x, y \in Component : Top(x) = Top(y) => Top(x)' = Top(y)'
      /\ input.points[current] >= input.points[q] /\ Near(current, q)
           => root(uf'.clusters, current) = root(uf'.clusters, q)
  <2>1. CASE /\ ~same(uf, current, q)
             /\ input.points[current] >= input.points[q] /\ Near(current, q)
    <3>1. uf' = join(uf, current, q)
      BY <1>1, <2>1
    <3>2. IsUnionFind(uf') /\ GrownBy(uf, current, {q}, uf')
      <4>1. PICK i \in Component : i = current
        BY <1>4
      <4>2. IsUnionFind(join(uf, i, q)) /\ GrownBy(uf, i, {q}, join(uf, i, q))
        BY <1>2, <1>3, JoinGrown
      <4> QED
        BY <3>1, <4>1, <4>2
    <3>3. {q} \in SUBSET Component
      BY <1>3
    <3> QED
      <4>1. \A x, y \in Component : root(uf.clusters, x) = root(uf.clusters, y)
                                       => root(uf'.clusters, x) = root(uf'.clusters, y)
        BY <1>4, <3>2, <3>3, GrownTogether
      <4>2. root(uf'.clusters, current) = root(uf'.clusters, q)
        <5>1. PICK Q : Q = {q}
          OBVIOUS
        <5>2. Q \in SUBSET Component /\ GrownBy(uf, current, Q, uf') /\ q \in Q
          BY <3>2, <3>3, <5>1
        <5>3. \A x \in Q : root(uf'.clusters, current) = root(uf'.clusters, x)
          BY <1>4, <5>2, GrownTogether
        <5> QED
          BY <5>2, <5>3
      <4> QED
        BY <3>2, <4>1, <4>2 DEF Top
  <2>2. CASE ~(/\ ~same(uf, current, q)
               /\ input.points[current] >= input.points[q] /\ Near(current, q))
    <3>1. uf' = Asked(uf, current, q)
      BY <1>1, <2>2
    <3>2. IsUnionFind(uf') /\ \A x \in Component : root(uf'.clusters, x) = root(uf.clusters, x)
      BY <1>2, <1>3, <1>4, <3>1, AskedKeepsRoots
    <3> QED
      BY <1>3, <1>4, <2>2, <3>2 DEF Top, same
  <2> QED
    BY <2>1, <2>2
<1>6. CFTypes'
  BY <1>1, <1>2, <1>5 DEF CFTypes
<1>7. JoinedSoFar'
  <2> SUFFICES ASSUME NEW i \in Component, NEW x \in Component, i < p, Near(i, x),
                      input.points[i] >= input.points[x], ~(i = current /\ x \in hits')
               PROVE  Top(i)' = Top(x)'
    BY <1>1 DEF JoinedSoFar, current, Near
  <2>1. CASE i = current /\ x = q
    BY <1>5, <2>1 DEF Top
  <2>2. CASE ~(i = current /\ x = q)
    <3>1. ~(i = current /\ x \in hits)
      BY <1>1, <2>2
    <3>2. Top(i) = Top(x)
      BY <1>1, <1>2, <3>1 DEF JoinedSoFar
    <3> QED
      BY <1>5, <3>2
  <2> QED
    BY <2>1, <2>2
<1> QED
  BY <1>1, <1>6, <1>7 DEF FinderInv, MembersOnly, VisitedAreSettled, CurrentSoFar, Scanning

\* InputsAreSound, of the input after a step.
LEMMA NewInputsAreSound == (input \in Input => InputFacts)'
<1>1. input \in Input => InputFacts
  BY InputsAreSound
<1> QED
  BY <1>1, PTL

\* A call that begins.
LEMMA CallKeeps == FinderInv /\ Call => FinderInv'
<1> SUFFICES ASSUME FinderInv, Call PROVE FinderInv'
  OBVIOUS
<1>1. /\ pc = "idle" /\ pc' = "process" /\ input' \in Input
      /\ in_a_cluster' = (IF allInputsInCluster(input') THEN Everybody ELSE Nobody)
      /\ is_in_core' = (IF allInputsInCluster(input') THEN Everybody ELSE Nobody)
      /\ uf' = uf /\ p' = p /\ hits' = hits /\ neighbors' = neighbors /\ ids' = ids
  BY DEF Call
<1>2. CFTypes /\ p = 0 /\ uf = Forest(components) /\ hits = {} /\ IsUnionFind(uf) /\ neighbors = <<>>
  BY <1>1 DEF FinderInv, CFTypes
<1>3. InputFacts'
  BY <1>1, NewInputsAreSound
<1>4. CFTypes'
  <2>1. in_a_cluster' \in [Component -> BOOLEAN] /\ is_in_core' \in [Component -> BOOLEAN]
    BY <1>1 DEF Everybody, Nobody
  <2> QED
    BY <1>1, <1>2, <2>1 DEF CFTypes
<1>5. \A x \in Component : Top(x)' = x
  BY <1>1, <1>2, NewForest DEF Top
<1>6. \A x \in Component : /\ in_a_cluster'[x] <=> allInputsInCluster(input')
                           /\ is_in_core'[x] <=> allInputsInCluster(input')
  BY <1>1 DEF Everybody, Nobody
<1>7. allInputsInCluster(input') => \A x \in Component : x \in Cores'
  <2> SUFFICES ASSUME allInputsInCluster(input'), NEW x \in Component PROVE x \in Cores'
    OBVIOUS
  <2> DEFINE N == Neighborhood(x)'
  <2>1. x \in N /\ N \in SUBSET Component /\ input'.minPoints \in Nat
    BY <1>3 DEF InputFacts
  <2>2. IsFiniteSet(N) /\ Cardinality(N) \in Nat
    BY <2>1, ComponentsAreFinite
  <2>3. Cardinality(N) # 0
    <3> HIDE DEF N
    <3> QED
      BY <2>1, <2>2, FS_EmptySet
  <2>4. Cardinality(N) >= input'.minPoints
    BY <2>1, <2>2, <2>3 DEF allInputsInCluster
  <2> QED
    BY <1>1, <2>4 DEF Cores
<1>8. MembersOnly'
  BY <1>5, <1>6, <1>7 DEF MembersOnly, Scanning, allInputsInCluster
<1>9. VisitedAreSettled' /\ JoinedSoFar'
  <2>1. \A x \in Component : ~(x < p')
    BY <1>1, <1>2, InputAssumption DEF Component
  <2> QED
    BY <2>1 DEF VisitedAreSettled, Visited, JoinedSoFar
<1> QED
  BY <1>1, <1>2, <1>4, <1>8, <1>9 DEF FinderInv, CurrentSoFar

\* The next component; one with too few hits is no core.
LEMMA TakeKeeps == FinderInv /\ TakeComponent => FinderInv'
<1> SUFFICES ASSUME FinderInv, TakeComponent PROVE FinderInv'
  OBVIOUS
<1> DEFINE few == input.finder = "dbscan" /\ Cardinality(Hits(p)) < input.minPoints
<1>1. /\ pc = "process" /\ hits = {} /\ p < components /\ p' = p + 1
      /\ hits' = (IF few THEN {} ELSE Hits(p)) /\ neighbors' = <<>>
      /\ input' = input /\ pc' = pc /\ uf' = uf /\ ids' = ids
      /\ in_a_cluster' = in_a_cluster /\ is_in_core' = is_in_core
  BY DEF TakeComponent
<1>2. /\ CFTypes /\ input \in Input /\ p \in 0..components /\ components \in Nat /\ InputFacts
  BY <1>1, InputAssumption, InputsAreSound DEF FinderInv, CFTypes
<1>3. current' = p /\ p \in Component /\ \A i \in Component : i < p' <=> i < p \/ i = p
  BY <1>1, <1>2 DEF current, Component
<1>4. /\ Cores' = Cores /\ (Scanning' <=> Scanning)
      /\ \A i : Neighborhood(i)' = Neighborhood(i) /\ Hits(i)' = Hits(i)
      /\ \A i : Top(i)' = Top(i)
  BY <1>1 DEF Cores, Scanning, Neighborhood, Hits, Near, Top
<1>5. Hits(p) \subseteq Component
  BY DEF Hits
<1>6. CFTypes'
  BY <1>1, <1>2, <1>5 DEF CFTypes
<1>7. MembersOnly'
  BY <1>1, <1>4 DEF FinderInv, MembersOnly
<1>8. Visited = {i \in Component : i < p}
  BY <1>1 DEF Visited
\* A component whose hits are too few is no core, unless it is empty and all are.
<1>9. ASSUME Scanning, hits' = {}, p \in Cores
      PROVE  is_in_core[p] /\ Neighborhood(p) = {p}
  <2>1. IsFiniteSet(Neighborhood(p)) /\ IsFiniteSet(Hits(p))
        /\ Cardinality(Neighborhood(p)) \in Nat /\ Cardinality(Hits(p)) \in Nat
    BY <1>3, <1>5, ComponentsAreFinite DEF Neighborhood
  <2>2. Cardinality(Neighborhood(p)) >= input.minPoints /\ input.minPoints \in Nat
    BY <1>2, <1>9 DEF Cores, Scanning, InputFacts
  <2>3. p \in Neighborhood(p)
    BY <1>2, <1>3 DEF InputFacts
  <2>4. ASSUME Neighborhood(p) \subseteq Hits(p) PROVE FALSE
    <3>1. Cardinality(Neighborhood(p)) <= Cardinality(Hits(p))
      BY <2>1, <2>4, FS_Subset
    <3>2. ~few
      BY <2>1, <2>2, <3>1
    <3> QED
      BY <1>1, <1>9, <2>3, <2>4, <3>2
  <2>5. Neighborhood(p) = {p}
    BY <1>2, <1>3, <2>4 DEF InputFacts
  <2>6. Cardinality(Neighborhood(p)) = 1
    BY <2>5, FS_Singleton
  <2>7. is_in_core[p]
    BY <1>3, <1>9, <2>2, <2>6 DEF FinderInv, MembersOnly
  <2> QED
    BY <2>5, <2>7
<1>10. VisitedAreSettled'
  <2> SUFFICES ASSUME Scanning, NEW i \in Visited', i \in Cores
               PROVE  is_in_core[i] /\ \A q \in Neighborhood(i) : Settled(i, q)'
    BY <1>1, <1>4 DEF VisitedAreSettled
  <2>1. i \in Component /\ (i \in Visited \/ (i = p /\ hits' = {}))
    BY <1>3, <1>8 DEF Visited
  <2>2. CASE i = p /\ hits' = {}
    <3>1. is_in_core[p] /\ Neighborhood(p) = {p}
      BY <1>9, <2>2
    <3>2. in_a_cluster[p]
      BY <1>3, <3>1 DEF FinderInv, MembersOnly
    <3> QED
      BY <1>1, <2>2, <3>1, <3>2 DEF Settled
  <2>3. CASE i \in Visited
    <3>1. is_in_core[i] /\ \A q \in Neighborhood(i) : Settled(i, q)
      BY <2>3 DEF FinderInv, VisitedAreSettled
    <3>2. ASSUME NEW q \in Neighborhood(i) PROVE Settled(i, q)'
      <4>1. in_a_cluster'[q]
        BY <1>1, <3>1 DEF Settled
      <4>2. ASSUME q \in Visited', q \in Cores PROVE Top(i) = Top(q)
        <5>1. q \in Visited \/ (q = p /\ hits' = {})
          BY <1>3, <1>8, <4>2 DEF Visited
        <5>2. CASE q \in Visited
          BY <3>1, <4>2, <5>2 DEF Settled
        <5>3. CASE q = p /\ hits' = {}
          <6>1. i \in Neighborhood(p)
            BY <1>2, <1>3, <2>1, <5>3 DEF Neighborhood, InputFacts
          <6>2. Neighborhood(p) = {p}
            BY <1>9, <4>2, <5>3
          <6> QED
            BY <5>3, <6>1, <6>2
        <5> QED
          BY <5>1, <5>2, <5>3
      <4> QED
        BY <1>4, <4>1, <4>2 DEF Settled
    <3> QED
      BY <3>1, <3>2
  <2> QED
    BY <2>1, <2>2, <2>3
<1>11. CurrentSoFar'
  <2> SUFFICES ASSUME Scanning, hits' # {} PROVE CurrentIsFollowed'
    BY <1>4 DEF CurrentSoFar
  <2>1. hits' = Hits(p)
    BY <1>1
  <2>2. Neighborhood(p) \subseteq Hits(p)
    <3>1. CASE Neighborhood(p) = {p}
      <4>1. input.empty \cap {p} = {}
        BY <2>1 DEF Hits
      <4> QED
        BY <1>1, <1>2, <1>3, <3>1, <4>1, InputAssumption DEF Hits, Neighborhood, Near
    <3> QED
      BY <1>2, <1>3, <3>1 DEF InputFacts
  <2>3. KnownCore' => is_in_core'[p]
    <3>1. Len(neighbors') = 0
      BY <1>1
    <3>2. KnownCore' => input.minPoints <= 1
      BY <1>1, <1>2, <3>1 DEF KnownCore, InputFacts
    <3> QED
      BY <1>1, <1>3, <3>2 DEF FinderInv, MembersOnly
  <2>4. DOMAIN neighbors' = {}
    BY <1>1
  <2> QED
    BY <1>3, <1>4, <2>1, <2>2, <2>3, <2>4 DEF CurrentIsFollowed
<1>12. JoinedSoFar'
  <2> SUFFICES ASSUME pc = "process", input.finder = "join",
                      NEW i \in Component, NEW q \in Component,
                      i < p', Near(i, q), input.points[i] >= input.points[q],
                      ~(i = p /\ q \in hits')
               PROVE  Top(i) = Top(q)
    BY <1>1, <1>3, <1>4 DEF JoinedSoFar, Near
  <2>1. CASE i < p
    BY <1>1, <2>1 DEF FinderInv, JoinedSoFar
  <2>2. CASE i = p
    <3>1. hits' = Hits(p) /\ q \in Neighborhood(p)
      BY <1>1, <2>2 DEF Neighborhood
    <3>2. Neighborhood(p) = {p}
      BY <1>2, <1>3, <2>2, <3>1 DEF InputFacts
    <3> QED
      BY <2>2, <3>1, <3>2
  <2> QED
    BY <1>3, <2>1, <2>2
<1> QED
  BY <1>1, <1>6, <1>7, <1>10, <1>11, <1>12 DEF FinderInv

\* A finder that has not been called.
LEMMA InitFinds == Init => FinderInv
<1> SUFFICES ASSUME Init PROVE FinderInv
  OBVIOUS
<1>1. IsUnionFind(uf) /\ components \in Nat
  BY NewForest, InputAssumption DEF Init
<1>2. in_a_cluster \in [Component -> BOOLEAN] /\ is_in_core \in [Component -> BOOLEAN]
  BY DEF Init, Nobody
<1>3. CFTypes
  BY <1>1, <1>2 DEF Init, CFTypes
<1> QED
  BY <1>3 DEF Init, FinderInv, MembersOnly, VisitedAreSettled, CurrentSoFar, JoinedSoFar,
     Scanning

\* A call that returns leaves nothing behind.
LEMMA ReturnKeeps == FinderInv /\ Return => FinderInv'
<1> SUFFICES ASSUME FinderInv, Return PROVE FinderInv'
  OBVIOUS
<1>1. IsUnionFind(uf') /\ components \in Nat
  BY NewForest, InputAssumption DEF Return
<1>2. in_a_cluster' \in [Component -> BOOLEAN] /\ is_in_core' \in [Component -> BOOLEAN]
  BY DEF Return, Nobody
<1>3. hits' = {}
  BY DEF Return, FinderInv, CFTypes
<1>4. CFTypes'
  BY <1>1, <1>2, <1>3 DEF Return, CFTypes
<1> QED
  BY <1>3, <1>4 DEF Return, FinderInv, MembersOnly, VisitedAreSettled, CurrentSoFar,
     JoinedSoFar, Scanning

\* Forests with the same roots have the same numbers.
LEMMA SameClusters ==
  ASSUME input' = input, pc # "idle", pc' # "idle", uf' = uf, p' = p, hits' = hits,
         neighbors' = neighbors, in_a_cluster' = in_a_cluster, is_in_core' = is_in_core,
         CFTypes', FinderInv
  PROVE  MembersOnly' /\ VisitedAreSettled' /\ CurrentSoFar' /\ JoinedSoFar'
         /\ getClusterIds' = getClusterIds
<1>1. /\ Cores' = Cores /\ (Scanning' <=> Scanning) /\ Visited' = Visited /\ current' = current
      /\ \A i : Neighborhood(i)' = Neighborhood(i) /\ Hits(i)' = Hits(i)
      /\ \A i, j : Near(i, j)' <=> Near(i, j)
      /\ \A i : Top(i)' = Top(i)
      /\ (KnownCore' <=> KnownCore)
  BY DEF Cores, Scanning, Neighborhood, Hits, Near, Top, Visited, current, KnownCore
<1>2. \A i, q : Settled(i, q)' <=> Settled(i, q)
  BY <1>1 DEF Settled
<1>3. MembersOnly'
  BY <1>1 DEF FinderInv, MembersOnly
<1>4. VisitedAreSettled'
  BY <1>1, <1>2 DEF FinderInv, VisitedAreSettled
<1>5. CurrentIsFollowed' <=> CurrentIsFollowed
  BY <1>1, <1>2 DEF CurrentIsFollowed
<1>6. CurrentSoFar'
  BY <1>1, <1>5 DEF FinderInv, CurrentSoFar
<1>7. JoinedSoFar'
  BY <1>1 DEF FinderInv, JoinedSoFar
<1>8. getClusterIds' = getClusterIds
  BY DEF getClusterIds, included
<1> QED
  BY <1>3, <1>4, <1>6, <1>7, <1>8

\* The numbers are those of the forest when all has been visited.
LEMMA GetKeeps == FinderInv /\ GetClusters => FinderInv'
<1> SUFFICES ASSUME FinderInv, GetClusters PROVE FinderInv'
  OBVIOUS
<1>1. CFTypes'
  BY DEF FinderInv, CFTypes, GetClusters
<1>2. MembersOnly' /\ VisitedAreSettled' /\ CurrentSoFar' /\ JoinedSoFar'
      /\ getClusterIds' = getClusterIds
  BY <1>1, SameClusters DEF GetClusters
<1> QED
  BY <1>1, <1>2 DEF GetClusters, FinderInv

\* A step that changes nothing.
LEMMA StutterKeeps == FinderInv /\ UNCHANGED vars => FinderInv'
<1> SUFFICES ASSUME FinderInv, UNCHANGED vars PROVE FinderInv'
  OBVIOUS
<1>1. CFTypes'
  BY DEF FinderInv, CFTypes, vars
<1>2. CASE pc = "idle"
  <2>1. p' = 0 /\ hits' = {} /\ pc' = "idle"
    BY <1>2 DEF FinderInv, CFTypes, vars
  <2> QED
    BY <1>1, <2>1 DEF FinderInv, MembersOnly, VisitedAreSettled, CurrentSoFar, JoinedSoFar,
       Scanning
<1>3. CASE pc # "idle"
  BY <1>1, <1>3, SameClusters DEF vars, FinderInv
<1> QED
  BY <1>2, <1>3

(***************************************************************************)
(* AbstractClusterFinder::cluster and the two process(): at every moment   *)
(* of every call what was visited is settled, nobody who is in no cluster  *)
(* shares a tree, only cores are known as cores, and the array of parents  *)
(* is a forest, so that find() comes to an end.                            *)
(***************************************************************************)
THEOREM ClustersInvariance == Spec => []FinderInv
<1>1. FinderInv /\ [Next]_vars => FinderInv'
  BY CallKeeps, TakeKeeps, JoinKeeps, SkipKeeps, KeepKeeps, UnionKeeps, GetKeeps, ReturnKeeps,
     StutterKeeps DEF Next
<1> QED
  BY <1>1, InitFinds, PTL DEF Spec

------------------------------------------------------------------------------
\* A finder that has not been called promises nothing yet.
LEMMA InitPromises == Init => Promise!Init
<1> SUFFICES ASSUME Init PROVE Promise!Init
  OBVIOUS
<1>1. ClusterOf(uf) = [i \in Component |-> i]
  <2>1. uf.clusters = [i \in Component |-> i]
    BY DEF Init, Forest, Component
  <2>2. \A i \in Component : root(uf.clusters, i) = i
    BY NewForest DEF Init
  <2> QED
    BY <2>1, <2>2 DEF ClusterOf
<1> QED
  BY <1>1 DEF Init, Promise!Init, Cores, Phase

\* One tree more is a step of the promise.
LEMMA GrowthIsPromised ==
  ASSUME pc = "process", pc' = "process", input' = input, Cores' = Cores,
         IsUnionFind(uf), IsUnionFind(uf'), NEW i \in Component, NEW Q \in SUBSET Component,
         GrownBy(uf, i, Q, uf'), included' = included \cup {i} \cup Q
  PROVE  Promise!Grow(i, Q)
<1>1. DOMAIN uf.clusters = Component /\ DOMAIN uf'.clusters = Component
  BY DEF IsUnionFind, Forests
<1>2. PICK r \in {i} \cup Q : \A k \in Component :
        root(uf'.clusters, k) = IF \E q \in {i} \cup Q : root(uf.clusters, k) = root(uf.clusters, q)
                                THEN root(uf.clusters, r) ELSE root(uf.clusters, k)
  BY DEF GrownBy
<1>3. /\ ClusterOf(uf)' = [k \in Component |-> root(uf'.clusters, k)]
      /\ \A k \in Component : ClusterOf(uf)[k] = root(uf.clusters, k)
  BY <1>1 DEF ClusterOf
<1>4. \A k \in Component :
        root(uf'.clusters, k) = IF \E q \in {i} \cup Q : ClusterOf(uf)[k] = ClusterOf(uf)[q]
                                THEN ClusterOf(uf)[r] ELSE ClusterOf(uf)[k]
  BY <1>2, <1>3
<1>5. ClusterOf(uf)' = Promise!Joined({i} \cup Q, ClusterOf(uf)[r])
  BY <1>3, <1>4 DEF Promise!Joined
<1>6. Phase = "growing" /\ Phase' = Phase
  BY DEF Phase
<1> QED
  BY <1>5, <1>6 DEF Promise!Grow

\* Roots and members as they were: the promise stands still.
LEMMA NothingPromised ==
  ASSUME pc' = pc, input' = input, IsUnionFind(uf), IsUnionFind(uf'), in_a_cluster' = in_a_cluster,
         \A k \in Component : root(uf'.clusters, k) = root(uf.clusters, k)
  PROVE  UNCHANGED Promise!vars
<1>1. ClusterOf(uf)' = ClusterOf(uf)
  <2>1. DOMAIN uf.clusters = Component /\ DOMAIN uf'.clusters = Component
    BY DEF IsUnionFind, Forests
  <2> QED
    BY <2>1 DEF ClusterOf
<1>2. Cores' = Cores
  BY DEF Cores, Neighborhood, Near
<1>3. included' = included /\ Phase' = Phase
  BY DEF included, Phase
<1> QED
  BY <1>1, <1>2, <1>3 DEF Promise!vars

\* A call starts the promise with its input.
LEMMA CallPromises == FinderInv /\ FinderInv' /\ Call => Promise!Start
<1> SUFFICES ASSUME FinderInv, FinderInv', Call PROVE Promise!Start
  OBVIOUS
<1>1. pc = "idle" /\ pc' = "process" /\ uf' = uf /\ uf = Forest(components) /\ input' \in Input
  BY DEF Call, FinderInv, CFTypes
<1>2. InputFacts'
  BY <1>1, NewInputsAreSound
<1>3. ClusterOf(uf)' = [i \in Component |-> i]
  <2>1. uf'.clusters = [i \in Component |-> i]
    BY <1>1 DEF Forest, Component
  <2>2. \A i \in Component : root(uf'.clusters, i) = i
    BY <1>1, NewForest
  <2> QED
    BY <2>1, <2>2 DEF ClusterOf
<1>4. Phase = "idle" /\ Phase' = "growing"
  BY <1>1 DEF Phase
<1>5. /\ input'.near \in SUBSET (Component \X Component)
      /\ \A i, j \in Component : <<i, j>> \in input'.near => <<j, i>> \in input'.near
  BY <1>2 DEF InputFacts, Near
<1>6. Cores' \in SUBSET Component
  BY <1>1 DEF Cores
<1>7. included' \in SUBSET Cores'
  <2>1. CASE input'.finder = "join"
    BY <1>1, <2>1 DEF included, Cores
  <2>2. CASE input'.finder = "dbscan"
    <3>1. \A x \in Component : in_a_cluster'[x] => is_in_core'[x]
      BY DEF Call, Everybody, Nobody
    <3>2. \A x \in Component : is_in_core'[x] => x \in Cores'
      BY <1>1, <2>2 DEF FinderInv, MembersOnly, Scanning
    <3> QED
      BY <2>2, <3>1, <3>2 DEF included
  <2> QED
    BY <1>2, <2>1, <2>2 DEF InputFacts
<1> QED
  BY <1>1, <1>3, <1>4, <1>5, <1>6, <1>7 DEF Promise!Start

\* Taking a component is no step of the promise.
LEMMA TakePromises == FinderInv /\ TakeComponent => UNCHANGED Promise!vars
<1> SUFFICES ASSUME FinderInv, TakeComponent PROVE UNCHANGED Promise!vars
  OBVIOUS
<1>1. /\ pc' = pc /\ input' = input /\ uf' = uf /\ in_a_cluster' = in_a_cluster /\ IsUnionFind(uf)
  BY DEF TakeComponent, FinderInv, CFTypes
<1> QED
  BY <1>1, NothingPromised

\* Neither is skipping a hit, although it may shorten paths.
LEMMA SkipPromises == FinderInv /\ SkipHit => UNCHANGED Promise!vars
<1> SUFFICES ASSUME FinderInv, SkipHit PROVE UNCHANGED Promise!vars
  OBVIOUS
<1>1. PICK q : q = NextHit
  OBVIOUS
<1>2. /\ IsUnionFind(uf) /\ current \in Component /\ q \in Component
  BY <1>1, DbscanStarts DEF SkipHit
<1>3. /\ pc' = pc /\ input' = input /\ in_a_cluster' = in_a_cluster
      /\ uf' = (IF KnownCore THEN Asked(uf, current, q) ELSE uf)
  BY <1>1 DEF SkipHit
<1>4. IsUnionFind(uf') /\ \A k \in Component : root(uf'.clusters, k) = root(uf.clusters, k)
  BY <1>2, <1>3, AskedKeepsRoots
<1> QED
  BY <1>2, <1>3, <1>4, NothingPromised

\* One of the two may have been joined with the current component.
LEMMA JoinPromises == FinderInv /\ VisitToJoin => [Promise!Next]_(Promise!vars)
<1> SUFFICES ASSUME FinderInv, VisitToJoin PROVE [Promise!Next]_(Promise!vars)
  OBVIOUS
<1>0. PICK q : q = NextHit
  OBVIOUS
<1>1. /\ pc = "process" /\ input.finder = "join" /\ hits # {}
      /\ input' = input /\ pc' = pc /\ in_a_cluster' = in_a_cluster
      /\ uf' = IF /\ ~same(uf, current, q)
                  /\ input.points[current] >= input.points[q] /\ Near(current, q)
               THEN join(uf, current, q) ELSE Asked(uf, current, q)
  BY <1>0 DEF VisitToJoin
<1>2. /\ input \in Input /\ IsUnionFind(uf) /\ p \in 0..components /\ hits \subseteq Component /\ p > 0
  BY <1>1 DEF FinderInv, CFTypes
<1>3. InputFacts /\ q \in Component
  BY <1>0, <1>1, <1>2, InputsAreSound, NextHitIsAHit
<1>4. PICK i \in Component : i = current
  BY <1>2, InputAssumption DEF Component, current
<1>5. Cores = Component /\ Cores' = Component /\ included = Component /\ included' = Component
  BY <1>1 DEF Cores, included
<1>6. CASE uf' = join(uf, i, q) /\ Near(i, q)
  <2>1. IsUnionFind(uf') /\ GrownBy(uf, i, {q}, uf')
    BY <1>2, <1>3, <1>6, JoinGrown
  <2>2. PICK Q \in SUBSET Component : Q = {q}
    BY <1>3
  <2>3. Promise!Grow(i, Q)
    BY <1>1, <1>2, <1>5, <2>1, <2>2, GrowthIsPromised
  <2>4. Q \in SUBSET Promise!Takes(i)
    BY <1>1, <1>3, <1>5, <1>6, <2>2 DEF Promise!Takes, Promise!Near, Promise!Available, Near
  <2> QED
    BY <1>5, <2>3, <2>4 DEF Promise!Next
<1>7. CASE uf' = Asked(uf, i, q)
  <2>1. IsUnionFind(uf') /\ \A k \in Component : root(uf'.clusters, k) = root(uf.clusters, k)
    BY <1>2, <1>3, <1>7, AskedKeepsRoots
  <2> QED
    BY <1>1, <1>2, <2>1, NothingPromised
<1> QED
  BY <1>1, <1>4, <1>6, <1>7

\* A core that unites its neighbors grows.
LEMMA UnitingIsPromised ==
  ASSUME pc = "process", input.finder = "dbscan", IsUnionFind(uf), IsUnionFind(uf'),
         MembersOnly, MembersOnly',
         CoreTakes
  PROVE  Promise!Next
<1>0. PICK Q \in SUBSET Neighborhood(current) :
        Grows(Q) /\ \A q \in Q : is_in_core'[q] \/ ~in_a_cluster[q]
  BY DEF CoreTakes
<1>1. PICK i : i = current
  OBVIOUS
<1>2. /\ i \in Cores /\ i \in Component /\ pc' = pc /\ input' = input /\ Scanning
      /\ GrownBy(uf, i, Q, uf')
      /\ \A x \in Component : in_a_cluster'[x] <=> (in_a_cluster[x] \/ x \in {i} \cup Q)
      /\ Q \in SUBSET Component /\ \A q \in Q : Near(i, q)
  BY <1>0, <1>1 DEF Grows, Neighborhood
<1>3. Cores' = Cores
  BY <1>2 DEF Cores, Neighborhood, Near
<1>4. included' = included \cup {i} \cup Q
  BY <1>2 DEF included
<1>5. Promise!Grow(i, Q)
  BY <1>2, <1>3, <1>4, GrowthIsPromised
<1>6. \A q \in Q : q \in Cores \/ q \notin included
  <2>1. \A x \in Component : is_in_core'[x] => x \in Cores'
    BY <1>2 DEF MembersOnly, Scanning
  <2> QED
    BY <1>0, <1>2, <1>3, <2>1 DEF included
<1>7. Q \in SUBSET Promise!Takes(i)
  BY <1>2, <1>6 DEF Promise!Takes, Promise!Near, Promise!Available, Near
<1> QED
  BY <1>2, <1>5, <1>7 DEF Promise!Next

\* UnionNeighbor grows a cluster.
LEMMA UnionPromises == FinderInv /\ FinderInv' /\ UnionNeighbor => Promise!Next
<1> SUFFICES ASSUME FinderInv, FinderInv', UnionNeighbor PROVE Promise!Next
  OBVIOUS
<1>1. CoreTakes
  BY UnionTakes
<1>2. pc = "process" /\ input.finder = "dbscan"
  BY DEF UnionNeighbor, Dbscan
<1> QED
  BY <1>1, <1>2, UnitingIsPromised DEF FinderInv, CFTypes

\* KeepNeighbor grows one, or is no step of the promise.
LEMMA KeepPromises == FinderInv /\ FinderInv' /\ KeepNeighbor => [Promise!Next]_(Promise!vars)
<1> SUFFICES ASSUME FinderInv, FinderInv', KeepNeighbor PROVE [Promise!Next]_(Promise!vars)
  OBVIOUS
<1>1. pc = "process" /\ input.finder = "dbscan" /\ pc' = pc /\ input' = input
  BY DEF KeepNeighbor, Dbscan
<1>2. CASE KnownCore'
  <2>1. CoreTakes
    BY <1>2, KeepTakes
  <2> QED
    BY <1>1, <2>1, UnitingIsPromised DEF FinderInv, CFTypes
<1>3. CASE ~KnownCore'
  <2>1. Len(neighbors') # input.minPoints
    BY <1>3, KeptNeighbors
  <2>2. uf' = uf /\ in_a_cluster' = in_a_cluster
    BY <2>1 DEF KeepNeighbor
  <2> QED
    BY <1>1, <2>2, NothingPromised DEF FinderInv, CFTypes
<1> QED
  BY <1>2, <1>3

\* When all hits of all components have been visited, no core can take more.
LEMMA GetPromises == FinderInv /\ GetClusters => Promise!Finish
<1> SUFFICES ASSUME FinderInv, GetClusters PROVE Promise!Finish
  OBVIOUS
<1>1. /\ pc = "process" /\ hits = {} /\ p = components /\ pc' = "done"
      /\ uf' = uf /\ input' = input /\ in_a_cluster' = in_a_cluster
      /\ input \in Input /\ IsUnionFind(uf)
  BY DEF GetClusters, FinderInv, CFTypes
<1>2. /\ InputFacts /\ \A i \in Component : i < p
      /\ \A i \in Component : ClusterOf(uf)[i] = Top(i)
  BY <1>1, InputsAreSound, InputAssumption DEF Component, ClusterOf, Top, IsUnionFind, Forests
<1>3. Promise!Complete
  <2> SUFFICES ASSUME NEW i \in Cores
               PROVE  /\ i \in included
                      /\ \A q \in Component : Near(i, q) =>
                           q \in included /\ (q \in Cores => Top(i) = Top(q))
    BY <1>1, <1>2 DEF Promise!Complete, Promise!Near, Near, Cores
  <2>1. i \in Component
    BY <1>1 DEF Cores
  <2>2. CASE input.finder = "join"
    <3>1. \A x, y \in Component : Near(x, y) /\ input.points[x] >= input.points[y] => Top(x) = Top(y)
      BY <1>1, <1>2, <2>2 DEF FinderInv, JoinedSoFar
    <3>2. \A q \in Component : Near(i, q) => Top(i) = Top(q)
      BY <1>2, <2>1, <3>1 DEF InputFacts
    <3> QED
      BY <2>1, <2>2, <3>2 DEF included
  <2>3. CASE input.finder = "dbscan"
    <3>1. Visited = Component
      BY <1>1, <1>2 DEF Visited
    <3>2. Scanning /\ included = {x \in Component : in_a_cluster[x]}
      BY <1>1, <2>3 DEF Scanning, included
    <3>3. is_in_core[i] /\ \A q \in Neighborhood(i) : Settled(i, q)
      BY <2>1, <3>1, <3>2 DEF FinderInv, VisitedAreSettled
    <3>4. in_a_cluster[i]
      BY <2>1, <3>2, <3>3 DEF FinderInv, MembersOnly
    <3> QED
      BY <2>1, <3>1, <3>2, <3>3, <3>4 DEF Settled, Neighborhood
  <2> QED
    BY <1>2, <2>2, <2>3 DEF InputFacts
<1>4. Phase = "growing" /\ Phase' = "done"
  BY <1>1 DEF Phase
<1>5. ClusterOf(uf)' = ClusterOf(uf) /\ Cores' = Cores /\ included' = included
  BY <1>1 DEF ClusterOf, Cores, Neighborhood, Near, included
<1> QED
  BY <1>1, <1>3, <1>4, <1>5 DEF Promise!Finish

\* Returning forgets the promise.
LEMMA ReturnPromises == FinderInv /\ Return => Promise!Return
<1> SUFFICES ASSUME FinderInv, Return PROVE Promise!Return
  OBVIOUS
<1>1. pc = "done" /\ pc' = "idle" /\ uf' = Forest(components)
  BY DEF Return
<1>2. ClusterOf(uf)' = [i \in Component |-> i]
  <2>1. uf'.clusters = [i \in Component |-> i]
    BY <1>1 DEF Forest, Component
  <2>2. \A i \in Component : root(uf'.clusters, i) = i
    BY <1>1, NewForest
  <2> QED
    BY <2>1, <2>2 DEF ClusterOf
<1>3. Phase = "done" /\ Phase' = "idle" /\ Cores' = {}
  BY <1>1 DEF Phase, Cores
<1> QED
  BY <1>1, <1>2, <1>3 DEF Promise!Return

\* Every step is one of the promise, or none.
LEMMA NextPromises == FinderInv /\ FinderInv' /\ [Next]_vars => [Promise!Next]_(Promise!vars)
<1> SUFFICES ASSUME FinderInv, FinderInv', [Next]_vars PROVE [Promise!Next]_(Promise!vars)
  OBVIOUS
<1>1. Call => Promise!Next
  BY CallPromises DEF Promise!Next
<1>2. TakeComponent \/ SkipHit => UNCHANGED Promise!vars
  BY TakePromises, SkipPromises
<1>3. VisitToJoin \/ KeepNeighbor => [Promise!Next]_(Promise!vars)
  BY JoinPromises, KeepPromises
<1>4. UnionNeighbor => Promise!Next
  BY UnionPromises
<1>5. GetClusters \/ Return => Promise!Next
  BY GetPromises, ReturnPromises DEF Promise!Next
<1>6. UNCHANGED vars => UNCHANGED Promise!vars
  BY NothingPromised DEF vars, FinderInv, CFTypes
<1> QED
  BY <1>1, <1>2, <1>3, <1>4, <1>5, <1>6 DEF Next

(***************************************************************************)
(* cluster() with either finder implements DensityClusters: whatever it    *)
(* skips, in whatever order hits come, clusters grow only by what is near  *)
(* a core and not taken, and it answers when nothing is left to take.      *)
(***************************************************************************)
THEOREM ClustersRefineThePromise == Spec => ClustersGrowAsPromised
<1> QED
  BY InitPromises, NextPromises, ClustersInvariance, PTL DEF Spec, ClustersGrowAsPromised,
     Promise!Spec

\* The place of t in T.
Rank(T, t) == Cardinality({r \in T : r < t})

\* Places are different for different elements, and are 0, 1, 2 and so on.
LEMMA RanksNumber ==
  ASSUME NEW T \in SUBSET Nat, IsFiniteSet(T)
  PROVE  /\ \A t, u \in T : Rank(T, t) = Rank(T, u) => t = u
         /\ {Rank(T, t) : t \in T} = 0..(Cardinality(T) - 1)
         /\ Cardinality(T) \in Nat
<1>1. Cardinality(T) \in Nat
  BY FS_CardinalityType
<1>2. \A t \in T : /\ IsFiniteSet({r \in T : r < t}) /\ Rank(T, t) \in Nat
  <2> TAKE t \in T
  <2>1. {r \in T : r < t} \in SUBSET T
    OBVIOUS
  <2> QED
    BY <2>1, FS_Subset, FS_CardinalityType DEF Rank
<1>3. ASSUME NEW t \in T, NEW U \in SUBSET T, t \in U, \A r \in T : r < t => r \in U
      PROVE  Rank(T, t) < Cardinality(U)
  <2> DEFINE B == {r \in T : r < t}
  <2>1. IsFiniteSet(B) /\ Cardinality(B) \in Nat /\ t \notin B
    BY <1>2 DEF Rank
  <2>2. Cardinality(B \cup {t}) = Cardinality(B) + 1
    <3> HIDE DEF B
    <3> QED
      BY <2>1, FS_AddElement
  <2>3. IsFiniteSet(U) /\ Cardinality(U) \in Nat
    BY FS_Subset, FS_CardinalityType
  <2>4. B \cup {t} \in SUBSET U
    BY <1>3
  <2>5. Cardinality(B \cup {t}) <= Cardinality(U)
    <3> HIDE DEF B
    <3> QED
      BY <2>3, <2>4, FS_Subset
  <2>6. Rank(T, t) = Cardinality(B)
    BY DEF Rank
  <2> HIDE DEF B
  <2> QED
    BY <2>1, <2>2, <2>3, <2>5, <2>6
<1>4. \A t, u \in T : t < u => Rank(T, t) < Rank(T, u)
  <2> SUFFICES ASSUME NEW t \in T, NEW u \in T, t < u PROVE Rank(T, t) < Rank(T, u)
    OBVIOUS
  <2> DEFINE U == {r \in T : r < u}
  <2>1. U \in SUBSET T /\ t \in U /\ \A r \in T : r < t => r \in U
    OBVIOUS
  <2>2. Rank(T, u) = Cardinality(U)
    BY DEF Rank
  <2> HIDE DEF U
  <2> QED
    BY <1>3, <2>1, <2>2
<1>5. \A t, u \in T : Rank(T, t) = Rank(T, u) => t = u
  <2> SUFFICES ASSUME NEW t \in T, NEW u \in T, Rank(T, t) = Rank(T, u), t # u PROVE FALSE
    OBVIOUS
  <2>1. t < u \/ u < t
    OBVIOUS
  <2>2. Rank(T, t) < Rank(T, u) \/ Rank(T, u) < Rank(T, t)
    BY <1>4, <2>1
  <2>3. \A v \in T : Rank(T, v) \in Nat
    BY <1>2
  <2> QED
    BY <2>2, <2>3
<1>6. \A t \in T : Rank(T, t) \in 0..(Cardinality(T) - 1)
  <2> TAKE t \in T
  <2>1. Rank(T, t) \in Nat
    BY <1>2
  <2>2. Rank(T, t) < Cardinality(T)
    BY <1>3, T \in SUBSET T
  <2> QED
    BY <1>1, <2>1, <2>2
<1> DEFINE N == 0..(Cardinality(T) - 1)
           f == [t \in T |-> Rank(T, t)]
<1>7. IsFiniteSet(N) /\ Cardinality(N) = Cardinality(T)
  <2>1. \A n \in Nat : IsFiniteSet(0..(n - 1)) /\ Cardinality(0..(n - 1)) = n
    BY FS_Interval
  <2> QED
    BY <1>1, <2>1
<1>8. f \in Injection(T, N)
  BY <1>5, <1>6 DEF Injection, IsInjective
<1>9. f \in Surjection(T, N)
  <2> HIDE DEF f, N
  <2> QED
    BY <1>7, <1>8, FS_Injection
<1>10. {Rank(T, t) : t \in T} = N
  <2>1. \A n \in N : \E t \in T : Rank(T, t) = n
    BY <1>9 DEF Surjection
  <2> QED
    BY <1>6, <2>1
<1> QED
  BY <1>1, <1>5, <1>10

------------------------------------------------------------------------------
P == INSTANCE DensityClustersProofs WITH
  near <- IF pc = "idle" THEN {} ELSE input.near,
  cores <- Cores,
  cluster <- ClusterOf(uf),
  member <- IF pc = "idle" THEN {} ELSE included,
  phase <- Phase

(***************************************************************************)
(* The forest that cluster() ends with is right: cores share a tree if,    *)
(* and only if, a chain of near cores joins them, a border component is in *)
(* the tree of a core near it, and noise is alone.                         *)
(***************************************************************************)
THEOREM ClustersAreCorrect == Spec => []Promise!Correct
<1>1. Promise!Init <=> P!Init
  BY DEF Promise!Init, P!Init
<1>2. [Promise!Next]_(Promise!vars) <=> [P!Next]_(P!vars)
  BY DEF Promise!Next, P!Next, Promise!vars, P!vars, Promise!Start, P!Start, Promise!Finish, P!Finish,
         Promise!Complete, P!Complete, Promise!Near, P!Near, Promise!Return, P!Return,
         Promise!Grow, P!Grow, Promise!Takes, P!Takes, Promise!Available, P!Available,
         Promise!Joined, P!Joined
<1>3. P!Correct <=> Promise!Correct
  BY DEF P!Correct, Promise!Correct, P!Complete, Promise!Complete, P!Near, Promise!Near,
         P!ChainsOnly, Promise!ChainsOnly, P!Closed, Promise!Closed,
         P!BordersBelong, Promise!BordersBelong, P!OthersAlone, Promise!OthersAlone
<1>4. P!Spec => []P!Correct
  BY P!ClusteringIsCorrect
<1> QED
  BY <1>1, <1>2, <1>3, <1>4, ClustersRefineThePromise, PTL
     DEF ClustersGrowAsPromised, Promise!Spec, P!Spec

\* Numbers are the places of roots.
LEMMA NumbersAreRanks ==
  ASSUME FinderInv, pc = "done"
  PROVE  /\ \A i \in included : ids[i] \in Nat
         /\ \A i \in Component \ included : ids[i] = noCluster
         /\ \A i, j \in included : ids[i] = ids[j] <=> Top(i) = Top(j)
         /\ included \subseteq Component
         /\ LET numbers == {ids[i] : i \in Component} \ {noCluster}
            IN  numbers = 0..(Cardinality(numbers) - 1)
<1> DEFINE T == {Top(i) : i \in included}
           numbers == {ids[i] : i \in Component} \ {noCluster}
<1>1. included \subseteq Component
  BY DEF included
<1>2. \A i \in Component : Top(i) \in Component
  BY RootFollows DEF FinderInv, CFTypes, IsUnionFind, Top
<1>3. T \in SUBSET Component /\ Component \subseteq Nat
  BY <1>1, <1>2 DEF Component
<1>4. IsFiniteSet(T)
  <2> HIDE DEF T
  <2> QED
    BY <1>3, ComponentsAreFinite
<1>5. ids = [i \in Component |-> IF i \in included THEN Rank(T, Top(i)) ELSE noCluster]
  BY DEF FinderInv, getClusterIds, Top, Rank
<1>6. /\ \A i \in included : ids[i] = Rank(T, Top(i)) /\ Top(i) \in T
      /\ \A i \in Component \ included : ids[i] = noCluster
      /\ \A t \in T : \E i \in included : t = Top(i)
  BY <1>1, <1>5
<1> HIDE DEF T
<1>7. /\ \A t, u \in T : Rank(T, t) = Rank(T, u) => t = u
      /\ {Rank(T, t) : t \in T} = 0..(Cardinality(T) - 1) /\ Cardinality(T) \in Nat
  BY <1>3, <1>4, RanksNumber
<1>8. \A t \in T : Rank(T, t) \in Nat
  BY <1>7
<1>9. numbers = {Rank(T, t) : t \in T}
  BY <1>1, <1>6, <1>8 DEF noCluster
<1>10. numbers = 0..(Cardinality(numbers) - 1)
  <2>1. \A n \in Nat : Cardinality(0..(n - 1)) = n
    BY FS_Interval
  <2> HIDE DEF numbers
  <2> QED
    BY <1>7, <1>9, <2>1
<1> QED
  BY <1>1, <1>6, <1>7, <1>8, <1>10

(***************************************************************************)
(* getClusterIds() tells that: components have the number of their         *)
(* cluster, noise has none, and the numbers are 0, 1, 2 and so on.         *)
(***************************************************************************)
THEOREM IdsAreTheClusters == Spec => []IdsAreClusters
<1>1. FinderInv /\ Promise!Correct => IdsAreClusters
  <2> SUFFICES ASSUME FinderInv, Promise!Correct, pc = "done" PROVE IdsAreClusters
    BY DEF IdsAreClusters
  <2>1. Promise!Complete /\ Promise!ChainsOnly /\ Promise!BordersBelong
    BY DEF Promise!Correct, Phase
  <2>2. /\ \A i \in included : ids[i] \in Nat
        /\ \A i \in Component \ included : ids[i] = noCluster
        /\ \A i, j \in included : ids[i] = ids[j] <=> Top(i) = Top(j)
        /\ included \subseteq Component
        /\ LET numbers == {ids[i] : i \in Component} \ {noCluster}
           IN  numbers = 0..(Cardinality(numbers) - 1)
    BY NumbersAreRanks
  <2>3. Cores \subseteq Component /\ \A i \in Component : ClusterOf(uf)[i] = Top(i)
    BY DEF FinderInv, CFTypes, IsUnionFind, Forests, ClusterOf, Top, Cores
  <2>4. /\ Cores \subseteq included
        /\ \A i \in Cores, j \in Component :
             Near(i, j) => j \in included /\ (j \in Cores => Top(i) = Top(j))
    BY <2>1, <2>3 DEF Promise!Complete, Promise!Near, Near
  <2>5. ASSUME NEW i \in Cores PROVE {j \in Cores : ids[j] = ids[i]} = Reached(i)
    <3>1. ASSUME NEW j \in Cores, Top(j) = Top(i) PROVE j \in Reached(i)
      BY <2>1, <2>3, <3>1 DEF Promise!ChainsOnly, Reached
    <3>2. ASSUME NEW j \in Reached(i) PROVE Top(j) = Top(i)
      <4> DEFINE S == {x \in Component : x \in Cores => Top(x) = Top(i)}
      <4>1. Promise!Closed(S)
        BY <2>3, <2>4 DEF Promise!Closed, Promise!Near, Near
      <4>2. S \in SUBSET Component /\ i \in S
        BY <2>3
      <4>3. j \in Cores /\ j \in S
        <5> HIDE DEF S
        <5> QED
          BY <4>1, <4>2 DEF Reached
      <4> QED
        BY <4>3
    <3>3. \A j \in Cores : ids[j] = ids[i] <=> Top(j) = Top(i)
      BY <2>2, <2>4
    <3>4. Reached(i) \subseteq Cores
      BY DEF Reached
    <3> QED
      BY <3>1, <3>2, <3>3, <3>4
  <2>6. ASSUME NEW i \in Component \ Cores
        PROVE  LET near == {ids[j] : j \in {c \in Cores : i \in Neighborhood(c)}}
               IN  IF near = {} THEN ids[i] = noCluster ELSE ids[i] \in near
    <3> DEFINE near == {ids[j] : j \in {c \in Cores : i \in Neighborhood(c)}}
    <3>1. CASE i \in included
      <4>1. PICK c \in Cores : Near(c, i) /\ Top(c) = Top(i)
        BY <2>1, <2>3, <3>1 DEF Promise!BordersBelong, Promise!Near, Near
      <4>2. c \in {x \in Cores : i \in Neighborhood(x)}
        BY <4>1 DEF Neighborhood
      <4>3. ids[i] = ids[c]
        BY <2>2, <2>4, <3>1, <4>1
      <4> QED
        BY <4>2, <4>3
    <3>2. CASE i \notin included
      <4>1. near = {}
        BY <2>4, <3>2 DEF Neighborhood
      <4> QED
        BY <2>2, <3>2, <4>1
    <3> QED
      BY <3>1, <3>2
  <2> QED
    BY <2>2, <2>5, <2>6 DEF IdsAreClusters
<1> QED
  BY <1>1, ClustersInvariance, ClustersAreCorrect, PTL

------------------------------------------------------------------------------
(***************************************************************************)
(* Spanning trees: the weight of a set of curves.                          *)
(***************************************************************************)
AreCurves == curves \in Seq(Curve)

\* The curves that are edges have two nodes, and every curve has a weight.
LEMMA EdgesHaveEnds ==
  ASSUME AreCurves
  PROVE  /\ Len(curves) \in Nat /\ DOMAIN curves = 1..Len(curves)
         /\ \A i \in DOMAIN curves : curves[i].weight \in Nat
         /\ \A e \in AllEdges : curves[e].u \in Node /\ curves[e].v \in Node
<1>1. \A i \in DOMAIN curves : curves[i] \in Curve
  BY DEF AreCurves
<1>2. Len(curves) \in Nat /\ DOMAIN curves = 1..Len(curves)
  BY DEF AreCurves
<1>3. \A i \in DOMAIN curves :
        /\ curves[i].weight \in Nat
        /\ IsEdge(curves[i]) => curves[i].u \in Node /\ curves[i].v \in Node
  BY <1>1 DEF Curve, IsEdge
<1> QED
  BY <1>2, <1>3 DEF AllEdges

\* What the curve at i adds to the weight of E.
Adds(E, i) == IF i \in E THEN curves[i].weight ELSE 0

\* s are the sums of the weights of E up to each place.
SumsUp(E, s) ==
  /\ s \in [0..Len(curves) -> Nat] /\ s[0] = 0
  /\ \A i \in 1..Len(curves) : s[i] = s[i - 1] + Adds(E, i)

\* The weight of E is the last of its sums.
LEMMA WeightSumsUp ==
  ASSUME AreCurves, NEW E
  PROVE  \E s : SumsUp(E, s) /\ Weight(E) = s[Len(curves)]
<1> DEFINE N == Len(curves)
           Sums(s) == s = [i \in 0..N |->
                             IF i = 0 THEN 0
                             ELSE s[i - 1] + IF i \in E THEN curves[i].weight ELSE 0]
           c == [i \in 0..N |-> IF i = 0 THEN 0 ELSE i - 1]
           h == [i \in 0..N |-> i]
           base == [i \in 0..N |-> 0]
           go == [i \in 0..N |-> [x \in Nat |-> IF i = 0 THEN x ELSE x + Adds(E, i)]]
<1>1. N \in Nat /\ \A i \in 1..N : Adds(E, i) \in Nat
  BY EdgesHaveEnds DEF Adds
<1>2. PICK s : Solution(0..N, Nat, c, base, go, s)
  <2>1. Descends(0..N, c, h)
    <3> HIDE DEF N
    <3> QED
      BY <1>1 DEF Descends
  <2>2. base \in [0..N -> Nat] /\ go \in [0..N -> [Nat -> Nat]]
    <3>1. \A i \in 0..N : i # 0 => i \in 1..N
      BY <1>1
    <3> HIDE DEF N
    <3> QED
      BY <1>1, <3>1
  <2> HIDE DEF N, c, h, base, go
  <2> QED
    BY <2>1, <2>2, RecursionExists
<1>3. /\ s \in [0..N -> Nat] /\ s[0] = 0
      /\ \A i \in 1..N : s[i] = s[i - 1] + Adds(E, i)
  <2>1. /\ s \in [0..N -> Nat]
        /\ \A i \in 0..N : s[i] = IF c[i] = i THEN base[i] ELSE go[i][s[c[i]]]
    BY <1>2 DEF Solution
  <2>2. s[0] = 0
    <3>1. 0 \in 0..N /\ c[0] = 0 /\ base[0] = 0
      BY <1>1
    <3> HIDE DEF c, go, base, N
    <3> QED
      BY <2>1, <3>1
  <2>3. ASSUME NEW i \in 1..N
        PROVE  s[i] = s[i - 1] + Adds(E, i)
    <3>1. i \in 0..N /\ i # 0 /\ i - 1 \in 0..N /\ i - 1 # i
      BY <1>1
    <3>2. c[i] = i - 1
      BY <3>1
    <3>3. s[i] = go[i][s[i - 1]] /\ s[i - 1] \in Nat
      <4> HIDE DEF c, go, base, N
      <4> QED
        BY <2>1, <3>1, <3>2
    <3> HIDE DEF N
    <3> QED
      BY <3>1, <3>3
  <2> QED
    BY <2>1, <2>2, <2>3
<1>4. Sums(s)
  <2>1. \A i \in 0..N : s[i] = IF i = 0 THEN 0
                              ELSE s[i - 1] + IF i \in E THEN curves[i].weight ELSE 0
    <3>1. \A i \in 0..N : i = 0 \/ i \in 1..N
      BY <1>1
    <3> HIDE DEF N
    <3> QED
      BY <1>3, <3>1 DEF Adds
  <2> HIDE DEF N
  <2> QED
    BY <1>3, <2>1
<1>5. Sums(CHOOSE t : Sums(t))
  <2> HIDE DEF Sums
  <2> QED
    BY <1>4, Zenon
<1>6. Weight(E) = (CHOOSE t : Sums(t))[N]
  BY DEF Weight
<1> DEFINE t == CHOOSE t : Sums(t)
           Bad == {i \in Nat : i <= N /\ t[i] # s[i]}
<1>7. \A i \in 0..N : t[i] = IF i = 0 THEN 0
                            ELSE t[i - 1] + IF i \in E THEN curves[i].weight ELSE 0
  <2>1. Sums(t)
    <3> HIDE DEF Sums
    <3> QED
      BY <1>5
  <2> HIDE DEF t, N
  <2> QED
    BY <2>1
<1>8. t[N] = s[N]
  <2> HIDE DEF t, Sums
  <2>1. Bad = {}
    <3> SUFFICES ASSUME Bad # {} PROVE FALSE
      OBVIOUS
    <3>1. Bad \in SUBSET Nat
      OBVIOUS
    <3>2. PICK i \in Bad : \A j \in Bad : i <= j
      <4> HIDE DEF Bad
      <4> QED
        BY <3>1, LeastElement
    <3> HIDE DEF N
    <3>3. i \in 1..N
      BY <1>1, <1>3, <1>7, <3>2
    <3>4. i - 1 \in 0..N /\ i - 1 \in Nat /\ i \in 0..N /\ ~(i <= i - 1)
      BY <1>1, <3>3
    <3>5. t[i - 1] = s[i - 1]
      BY <3>2, <3>4
    <3>6. t[i] = s[i]
      BY <1>3, <1>7, <3>3, <3>4, <3>5 DEF Adds
    <3> QED
      BY <3>2, <3>6
  <2> QED
    BY <1>1, <2>1
<1> HIDE DEF Sums
<1> QED
  BY <1>3, <1>6, <1>8 DEF SumsUp

\* A weight is a number.
LEMMA WeightIsNatural ==
  ASSUME AreCurves, NEW E
  PROVE  Weight(E) \in Nat
BY WeightSumsUp, EdgesHaveEnds DEF SumsUp

\* More curves do not weigh less.
LEMMA WeightGrows ==
  ASSUME AreCurves, NEW R, NEW S, S \subseteq R
  PROVE  Weight(S) <= Weight(R)
<1>1. PICK s : SumsUp(S, s) /\ Weight(S) = s[Len(curves)]
  BY WeightSumsUp
<1>2. PICK r : SumsUp(R, r) /\ Weight(R) = r[Len(curves)]
  BY WeightSumsUp
<1> DEFINE N == Len(curves)
           Bad == {i \in Nat : i <= N /\ ~(s[i] <= r[i])}
<1>3. N \in Nat /\ \A i \in 1..N : Adds(S, i) \in Nat /\ Adds(R, i) \in Nat /\ Adds(S, i) <= Adds(R, i)
  BY EdgesHaveEnds DEF Adds
<1>4. /\ s \in [0..N -> Nat] /\ s[0] = 0 /\ \A i \in 1..N : s[i] = s[i - 1] + Adds(S, i)
      /\ r \in [0..N -> Nat] /\ r[0] = 0 /\ \A i \in 1..N : r[i] = r[i - 1] + Adds(R, i)
  BY <1>1, <1>2 DEF SumsUp
<1>5. Bad = {}
  <2> SUFFICES ASSUME Bad # {} PROVE FALSE
    OBVIOUS
  <2>1. Bad \in SUBSET Nat
    OBVIOUS
  <2>2. PICK i \in Bad : \A j \in Bad : i <= j
    <3> HIDE DEF Bad
    <3> QED
      BY <2>1, LeastElement
  <2> HIDE DEF N
  <2>3. i \in 1..N
    BY <1>3, <1>4, <2>2
  <2>4. i - 1 \in 0..N /\ i - 1 \in Nat /\ i \in 0..N /\ ~(i <= i - 1) /\ i - 1 <= N
    BY <1>3, <2>3
  <2>5. s[i - 1] <= r[i - 1]
    BY <2>2, <2>4
  <2>6. /\ s[i] = s[i - 1] + Adds(S, i) /\ r[i] = r[i - 1] + Adds(R, i)
        /\ s[i - 1] \in Nat /\ r[i - 1] \in Nat
        /\ Adds(S, i) \in Nat /\ Adds(R, i) \in Nat /\ Adds(S, i) <= Adds(R, i)
    BY <1>3, <1>4, <2>3, <2>4
  <2>7. s[i] <= r[i]
    BY <2>5, <2>6
  <2> QED
    BY <2>2, <2>7
<1> QED
  BY <1>1, <1>2, <1>3, <1>5

\* One curve more weighs what it weighs.
LEMMA WeightOfOneMore ==
  ASSUME AreCurves, NEW E, NEW e \in DOMAIN curves, e \notin E
  PROVE  Weight(E \cup {e}) = Weight(E) + curves[e].weight
<1>1. PICK s : SumsUp(E, s) /\ Weight(E) = s[Len(curves)]
  BY WeightSumsUp
<1>2. PICK r : SumsUp(E \cup {e}, r) /\ Weight(E \cup {e}) = r[Len(curves)]
  BY WeightSumsUp
<1> DEFINE N == Len(curves)
           w == curves[e].weight
           More(i) == IF i >= e THEN w ELSE 0
           Bad == {i \in Nat : i <= N /\ r[i] # s[i] + More(i)}
<1>3. /\ N \in Nat /\ w \in Nat /\ e \in 1..N
      /\ \A i \in 1..N : /\ Adds(E, i) \in Nat
                         /\ Adds(E \cup {e}, i) = Adds(E, i) + IF i = e THEN w ELSE 0
  BY EdgesHaveEnds DEF Adds
<1> HIDE DEF w
<1>4. /\ s \in [0..N -> Nat] /\ s[0] = 0 /\ \A i \in 1..N : s[i] = s[i - 1] + Adds(E, i)
      /\ r \in [0..N -> Nat] /\ r[0] = 0 /\ \A i \in 1..N : r[i] = r[i - 1] + Adds(E \cup {e}, i)
  BY <1>1, <1>2 DEF SumsUp
<1>5. Bad = {}
  <2> SUFFICES ASSUME Bad # {} PROVE FALSE
    OBVIOUS
  <2>1. Bad \in SUBSET Nat
    OBVIOUS
  <2>2. PICK i \in Bad : \A j \in Bad : i <= j
    <3> HIDE DEF Bad
    <3> QED
      BY <2>1, LeastElement
  <2> HIDE DEF N
  <2>3. i \in 1..N
    <3>1. More(0) = 0 /\ r[0] = s[0] + More(0)
      BY <1>3, <1>4
    <3> HIDE DEF More
    <3> QED
      BY <1>3, <2>2, <3>1
  <2>4. i - 1 \in 0..N /\ i - 1 \in Nat /\ i \in 0..N /\ ~(i <= i - 1) /\ i - 1 <= N
    BY <1>3, <2>3
  <2>5. r[i - 1] = s[i - 1] + More(i - 1)
    BY <2>2, <2>4
  <2>6. /\ s[i] = s[i - 1] + Adds(E, i)
        /\ r[i] = r[i - 1] + (Adds(E, i) + IF i = e THEN w ELSE 0)
        /\ s[i - 1] \in Nat /\ r[i - 1] \in Nat /\ Adds(E, i) \in Nat
    BY <1>3, <1>4, <2>3, <2>4
  <2>7. More(i) = More(i - 1) + IF i = e THEN w ELSE 0
    BY <1>3, <2>3
  <2>8. More(i - 1) \in Nat /\ More(i) \in Nat /\ (IF i = e THEN w ELSE 0) \in Nat
    BY <1>3
  <2> HIDE DEF More
  <2>9. r[i] = s[i] + More(i)
    BY <2>5, <2>6, <2>7, <2>8
  <2> QED
    BY <2>2, <2>9
<1>6. r[N] = s[N] + More(N)
  BY <1>3, <1>5
<1>7. More(N) = w
  BY <1>3
<1> QED
  BY <1>1, <1>2, <1>6, <1>7 DEF w

------------------------------------------------------------------------------
(***************************************************************************)
(* Spanning trees: what joins two nodes, and what can stand in for what.   *)
(***************************************************************************)
\* e leads out of S, or into it.
Crosses(e, S) == ~(curves[e].u \in S <=> curves[e].v \in S)

Differ(S, C) == (S \ C) \cup (C \ S)

\* An edge leads out of the difference of two sets when it leads out of one of them.
LEMMA CrossesDifference ==
  ASSUME NEW S, NEW C, NEW e
  PROVE  Crosses(e, Differ(S, C)) <=> ~(Crosses(e, S) <=> Crosses(e, C))
BY Zenon DEF Crosses, Differ

\* The ends of e are not joined by E when e alone leads out of some set.
LEMMA JoinsApart ==
  ASSUME NEW E, NEW e
  PROVE  Joins(E, curves[e].u, curves[e].v)
           <=> \A S \in SUBSET Node : (\A f \in E : ~Crosses(f, S)) => ~Crosses(e, S)
BY DEF Joins, NoWayOut, Crosses

\* More edges join no less.
LEMMA JoinsGrows ==
  ASSUME NEW E, NEW R, E \subseteq R, NEW m, NEW n, Joins(E, m, n)
  PROVE  Joins(R, m, n)
BY DEF Joins, NoWayOut

\* To be joined is an equivalence.
LEMMA JoinsIsEquivalence ==
  ASSUME NEW E
  PROVE  /\ \A m : Joins(E, m, m)
         /\ \A m, n : Joins(E, m, n) => Joins(E, n, m)
         /\ \A m, n, o : Joins(E, m, n) /\ Joins(E, n, o) => Joins(E, m, o)
BY DEF Joins

\* An edge to a tree of its own leaves none to spare.
LEMMA NoneBecomesSpare ==
  ASSUME NEW T, NEW e, e \notin T, NEW C \in SUBSET Node,
         \A f \in T : ~Crosses(f, C), Crosses(e, C),
         \A f \in T : ~Joins(T \ {f}, curves[f].u, curves[f].v)
  PROVE  \A f \in T \cup {e} : ~Joins((T \cup {e}) \ {f}, curves[f].u, curves[f].v)
<1>1. ~Joins((T \cup {e}) \ {e}, curves[e].u, curves[e].v)
  BY JoinsApart
<1>2. ASSUME NEW f \in T
      PROVE  ~Joins((T \cup {e}) \ {f}, curves[f].u, curves[f].v)
  <2>1. PICK S \in SUBSET Node : (\A g \in T \ {f} : ~Crosses(g, S)) /\ Crosses(f, S)
    BY <1>2, JoinsApart
  <2>2. CASE ~Crosses(e, S)
    <3>1. \A g \in (T \cup {e}) \ {f} : ~Crosses(g, S)
      BY <2>1, <2>2
    <3> QED
      BY <2>1, <3>1, JoinsApart
  <2>3. CASE Crosses(e, S)
    <3>1. Differ(S, C) \in SUBSET Node
      BY DEF Differ
    <3>2. \A g \in (T \cup {e}) \ {f} : ~Crosses(g, Differ(S, C))
      BY <2>1, <2>3, CrossesDifference
    <3>3. Crosses(f, Differ(S, C))
      BY <2>1, CrossesDifference
    <3> QED
      BY <3>1, <3>2, <3>3, JoinsApart
  <2> QED
    BY <2>2, <2>3
<1> QED
  BY <1>1, <1>2

(***************************************************************************)
(* An edge e that leads out of C can take the place of one that does, too: *)
(* of the sets that e leaves, and F only where it leaves C, take one that  *)
(* the fewest edges of F leave.  Were one of these needed besides e, some  *)
(* set would be left by it alone; the difference would be left by fewer.   *)
(***************************************************************************)
LEMMA EdgesExchange ==
  ASSUME AreCurves, NEW e \in AllEdges, NEW F \in SUBSET AllEdges, Connects(F),
         NEW C \in SUBSET Node, Crosses(e, C)
  PROVE  \E f \in F : Crosses(f, C) /\ Connects((F \ {f}) \cup {e})
<1> DEFINE Among(K) == {g \in F : Crosses(g, K)}
           Cuts == {K \in SUBSET Node : Crosses(e, K) /\ Among(K) \subseteq Among(C)}
           Sizes == {Cardinality(Among(K)) : K \in Cuts}
<1>1. \A K : IsFiniteSet(Among(K)) /\ Cardinality(Among(K)) \in Nat
  <2>1. IsFiniteSet(1..Len(curves))
    BY EdgesHaveEnds, FS_Interval
  <2>2. \A K : Among(K) \subseteq 1..Len(curves)
    BY EdgesHaveEnds DEF AllEdges
  <2> HIDE DEF Among
  <2> QED
    BY <2>1, <2>2, FS_Subset, FS_CardinalityType
<1>2. C \in Cuts
  OBVIOUS
<1>3. PICK K \in Cuts : \A L \in Cuts : Cardinality(Among(K)) <= Cardinality(Among(L))
  <2>1. Sizes \in SUBSET Nat /\ Sizes # {}
    BY <1>1, <1>2
  <2>2. PICK x \in Sizes : \A y \in Sizes : x <= y
    <3> HIDE DEF Sizes
    <3> QED
      BY <2>1, LeastElement
  <2> HIDE DEF Cuts, Among
  <2> QED
    BY <2>2
<1>4. PICK f \in Among(K) : TRUE
  <2>1. Joins(F, curves[e].u, curves[e].v)
    BY DEF Connects
  <2> QED
    BY <1>3, <2>1, JoinsApart
<1>5. f \in F /\ Crosses(f, K) /\ Crosses(f, C) /\ Crosses(e, K) /\ K \in SUBSET Node
  BY <1>3, <1>4
<1> DEFINE R == (F \ {f}) \cup {e}
<1>6. ASSUME NEW S \in SUBSET Node, \A g \in R : ~Crosses(g, S)
      PROVE  ~Crosses(f, S)
  <2> SUFFICES ASSUME Crosses(f, S) PROVE FALSE
    OBVIOUS
  <2>1. Among(Differ(K, S)) = Among(K) \ {f}
    <3>1. \A g \in F : g # f => ~Crosses(g, S)
      BY <1>6
    <3>2. \A g \in F : Crosses(g, Differ(K, S)) <=> (Crosses(g, K) /\ g # f)
      BY <1>5, <3>1, CrossesDifference
    <3> QED
      BY <3>2
  <2>2. Differ(K, S) \in Cuts
    <3>1. Differ(K, S) \in SUBSET Node
      BY <1>5 DEF Differ
    <3>2. Crosses(e, Differ(K, S))
      BY <1>5, <1>6, CrossesDifference
    <3>3. Among(Differ(K, S)) \subseteq Among(C)
      BY <1>3, <2>1
    <3> QED
      BY <3>1, <3>2, <3>3
  <2>3. Cardinality(Among(K) \ {f}) = Cardinality(Among(K)) - 1
    <3> HIDE DEF Among
    <3> QED
      BY <1>1, <1>4, FS_RemoveElement
  <2> HIDE DEF Cuts, Among
  <2> QED
    BY <1>1, <1>3, <2>1, <2>2, <2>3
<1>7. Connects(R)
  <2> SUFFICES ASSUME NEW x \in AllEdges, NEW S \in SUBSET Node, \A g \in R : ~Crosses(g, S)
               PROVE  ~Crosses(x, S)
    BY JoinsApart DEF Connects
  <2>1. \A g \in F : ~Crosses(g, S)
    BY <1>6
  <2>2. Joins(F, curves[x].u, curves[x].v)
    BY DEF Connects
  <2> QED
    BY <2>1, <2>2, JoinsApart
<1> QED
  BY <1>5, <1>7

\* ... so that the shortest edge not looked at yet is right whatever was right so far.
LEMMA ShortestExtends ==
  ASSUME AreCurves, NEW e \in AllEdges, NEW F \in SUBSET AllEdges, Connects(F),
         NEW C \in SUBSET Node, Crosses(e, C), NEW T, T \subseteq F,
         \A f \in T : ~Crosses(f, C),
         \A f \in AllEdges : Crosses(f, C) => curves[e].weight <= curves[f].weight
  PROVE  \E R \in SUBSET AllEdges : Connects(R) /\ T \cup {e} \subseteq R /\ Weight(R) <= Weight(F)
<1>1. CASE e \in F
  <2>1. Weight(F) <= Weight(F)
    BY WeightIsNatural
  <2> QED
    BY <1>1, <2>1
<1>2. CASE e \notin F
  <2>1. PICK f \in F : Crosses(f, C) /\ Connects((F \ {f}) \cup {e})
    BY EdgesExchange
  <2>2. e \in DOMAIN curves /\ f \in DOMAIN curves
    BY DEF AllEdges
  <2>3. F = (F \ {f}) \cup {f}
    OBVIOUS
  <2>4. Weight(F) = Weight(F \ {f}) + curves[f].weight
    BY <2>2, <2>3, WeightOfOneMore
  <2>5. Weight((F \ {f}) \cup {e}) = Weight(F \ {f}) + curves[e].weight
    BY <1>2, <2>2, WeightOfOneMore
  <2>6. Weight(F \ {f}) \in Nat /\ curves[e].weight \in Nat /\ curves[f].weight \in Nat
    BY <2>2, WeightIsNatural, EdgesHaveEnds
  <2>7. curves[e].weight <= curves[f].weight
    BY <2>1
  <2>8. Weight((F \ {f}) \cup {e}) <= Weight(F)
    BY <2>4, <2>5, <2>6, <2>7
  <2>9. T \cup {e} \subseteq (F \ {f}) \cup {e} /\ (F \ {f}) \cup {e} \in SUBSET AllEdges
    BY <2>1
  <2> QED
    BY <2>1, <2>8, <2>9
<1> QED
  BY <1>1, <1>2

------------------------------------------------------------------------------
(***************************************************************************)
(* Spanning trees: the inductive invariant.                                *)
(***************************************************************************)
NodeTop(n) == root(parent, n)
Listed == {treeEdges[k] : k \in DOMAIN treeEdges}
Chosen == InTree \cup Listed

TreeTypes ==
  /\ AreCurves /\ edges \subseteq AllEdges
  /\ IsForest(Node, parent) /\ rank \in [Node -> Int]
  /\ treeEdges \in Seq(AllEdges) /\ result \in [DOMAIN curves -> Nat]
  /\ InTree \subseteq AllEdges

\* The nodes of one tree of the forest are joined by what was chosen; what was
\* looked at is within one tree.
TreesAreJoined ==
  /\ \A m, n \in Node : NodeTop(m) = NodeTop(n) => Joins(Chosen, m, n)
  /\ \A e \in AllEdges \ edges : NodeTop(curves[e].u) = NodeTop(curves[e].v)

NoneIsSpare == \A e \in Chosen : ~Joins(Chosen \ {e}, curves[e].u, curves[e].v)

\* Whatever connects all can be changed, at no cost, to what contains the choice so far.
ChoiceExtends ==
  \A E \in SUBSET AllEdges :
    Connects(E) => \E F \in SUBSET AllEdges :
                      Connects(F) /\ Chosen \subseteq F /\ Weight(F) <= Weight(E)

TreeByStep ==
  /\ step = "idle" => NoCurves
  /\ step = "unite" => InTree = {} /\ Listed \cap edges = {} /\ componentOf = <<>>
  /\ step # "unite" => edges = {}
  /\ step = "done" => treeEdges = <<>>

\* The trees that have a number.
Seen == DOMAIN componentOf
NumberedSoFar ==
  /\ Seen = {NodeTop(curves[e].u) : e \in InTree} /\ IsFiniteSet(Seen)
  /\ {componentOf[n] : n \in Seen} = 1..Cardinality(Seen)
  /\ \A m, n \in Seen : componentOf[m] = componentOf[n] => m = n
  /\ \A e \in InTree : result[e] = componentOf[NodeTop(curves[e].u)]

TreeInv == /\ TreeTypes /\ TreesAreJoined /\ NoneIsSpare /\ ChoiceExtends
           /\ TreeByStep /\ NumberedSoFar

\* What only depends on the curves stays while they do.
LEMMA SameCurves ==
  ASSUME curves' = curves
  PROVE  /\ AllEdges' = AllEdges /\ (AreCurves' <=> AreCurves)
         /\ \A E : Connects(E)' <=> Connects(E)
         /\ \A E : Weight(E)' = Weight(E)
<1>1. AllEdges' = AllEdges /\ (AreCurves' <=> AreCurves)
  BY DEF AllEdges, AreCurves
<1>2. ASSUME NEW E
      PROVE  Connects(E)' <=> Connects(E)
  BY <1>1 DEF Connects, Joins, NoWayOut
<1>3. ASSUME NEW E
      PROVE  Weight(E)' = Weight(E)
  BY Zenon DEF Weight
<1> QED
  BY <1>1, <1>2, <1>3

\* Nothing but the parents, and these as find() leaves them.
LEMMA SameChoice ==
  ASSUME TreeInv, curves' = curves, edges' = edges, Chosen' = Chosen,
         \A n \in Node : root(parent', n) = root(parent, n)
  PROVE  TreesAreJoined' /\ NoneIsSpare' /\ ChoiceExtends'
<1>1. /\ AllEdges' = AllEdges /\ (\A E : Connects(E)' <=> Connects(E))
      /\ (\A E : Weight(E)' = Weight(E))
  BY SameCurves
<1>2. \A e \in AllEdges : curves[e].u \in Node /\ curves[e].v \in Node
  BY EdgesHaveEnds DEF TreeInv, TreeTypes
<1>3. TreesAreJoined'
  BY <1>1, <1>2 DEF TreeInv, TreesAreJoined, NodeTop, Joins, NoWayOut
<1>4. NoneIsSpare'
  BY DEF TreeInv, NoneIsSpare, Joins, NoWayOut
<1>5. ChoiceExtends'
  BY <1>1 DEF TreeInv, ChoiceExtends
<1> QED
  BY <1>3, <1>4, <1>5

\* What unite() does to the roots.
LinkedAs(c, d, x, y) ==
  \A k \in Node : root(d, k) = IF root(c, k) = x THEN y ELSE root(c, k)

\* A root a is put under another root b, after two find().
LEMMA TreesLink ==
  ASSUME NEW c, IsForest(Node, c), NEW i \in Node, NEW j \in Node, NEW a, NEW b, a # b,
         {a, b} = {root(c, i), root(c, j)}, NEW found, found = find(find(c, i), j)
  PROVE  LET d == [found EXCEPT ![a] = b]
         IN  a \in Node /\ b \in Node /\ IsForest(Node, d) /\ LinkedAs(c, d, a, b)
<1>1. IsForest(Node, find(c, i)) /\ \A k \in Node : root(find(c, i), k) = root(c, k)
  BY FindKeepsRoots
<1>2. IsForest(Node, found) /\ \A k \in Node : root(found, k) = root(find(c, i), k)
  BY <1>1, FindKeepsRoots
<1>3. a \in Node /\ b \in Node
  BY RootFollows
<1>4. \A k \in Node : found[root(found, k)] = root(found, k)
  BY <1>2, RootFollows
<1>5. {a, b} = {root(found, i), root(found, j)}
  BY <1>1, <1>2
<1>6. found[a] = a /\ found[b] = b
  BY <1>4, <1>5
<1> DEFINE d == [found EXCEPT ![a] = b]
<1>7. /\ d \in [Node -> Node] /\ d[a] = b /\ \A k \in Node : k # a => d[k] = found[k]
  BY <1>2, <1>3, RootFollows
<1> HIDE DEF d
<1>8. /\ IsForest(Node, d)
      /\ \A k \in Node : root(d, k) = IF root(found, k) = a THEN b ELSE root(found, k)
  BY <1>2, <1>3, <1>6, <1>7, LinkedRoots
<1>9. LinkedAs(c, d, a, b)
  BY <1>1, <1>2, <1>8 DEF LinkedAs
<1> QED
  BY <1>3, <1>8, <1>9 DEF d

\* unite() makes one of two trees, whichever way the ranks decide.
LEMMA UniteLinks ==
  ASSUME IsForest(Node, parent), rank \in [Node -> Int], NEW i \in Node, NEW j \in Node,
         root(parent, i) # root(parent, j), unite(i, j)
  PROVE  /\ IsForest(Node, parent') /\ rank' \in [Node -> Int]
         /\ \/ LinkedAs(parent, parent', root(parent, i), root(parent, j))
            \/ LinkedAs(parent, parent', root(parent, j), root(parent, i))
<1> DEFINE a == root(parent, i)
           b == root(parent, j)
           up == [Found(i, j) EXCEPT ![a] = b]
           down == [Found(i, j) EXCEPT ![b] = a]
<1>1. b \in Node /\ IsForest(Node, up) /\ LinkedAs(parent, up, a, b)
  BY TreesLink DEF Found
<1>2. IsForest(Node, down) /\ LinkedAs(parent, down, b, a)
  BY TreesLink DEF Found
<1>3. /\ parent' = up \/ parent' = down
      /\ rank' = rank \/ rank' = [rank EXCEPT ![b] = rank[b] + 1]
  BY DEF unite
<1>4. rank' \in [Node -> Int]
  <2> HIDE DEF b
  <2> QED
    BY <1>1, <1>3
<1> HIDE DEF up, down, a, b
<1>5. IsForest(Node, parent') /\ (LinkedAs(parent, parent', a, b) \/ LinkedAs(parent, parent', b, a))
  BY <1>1, <1>2, <1>3
<1> QED
  BY <1>4, <1>5 DEF a, b

\* An edge between two trees: the choice grows by it.
LEMMA LinkKeeps ==
  ASSUME TreeInv, NEW e \in edges, TakeEdge(e),
         root(parent, curves[e].u) # root(parent, curves[e].v)
  PROVE  TreeInv'
<1> DEFINE i == curves[e].u
           j == curves[e].v
           C == {n \in Node : NodeTop(n) = NodeTop(i)}
<1>1. /\ step = "unite" /\ step' = "unite" /\ Shortest(e) /\ edges' = edges \ {e} /\ unite(i, j)
      /\ treeEdges' = Append(treeEdges, e) /\ curves' = curves
      /\ componentOf' = componentOf /\ result' = result
  BY DEF TakeEdge
<1>2. /\ AreCurves /\ edges \subseteq AllEdges /\ e \in AllEdges /\ IsForest(Node, parent)
      /\ rank \in [Node -> Int] /\ treeEdges \in Seq(AllEdges) /\ InTree = {}
      /\ Listed \cap edges = {} /\ componentOf = <<>> /\ Listed \subseteq AllEdges
  <2>1. treeEdges \in Seq(AllEdges) => Listed \subseteq AllEdges
    BY DEF Listed
  <2> QED
    BY <1>1, <2>1 DEF TreeInv, TreeTypes, TreeByStep
<1>3. \A f \in AllEdges : curves[f].u \in Node /\ curves[f].v \in Node
  BY <1>2, EdgesHaveEnds
<1>4. /\ AllEdges' = AllEdges /\ AreCurves' /\ (\A E : Connects(E)' <=> Connects(E))
      /\ \A E : Weight(E)' = Weight(E)
  BY <1>1, <1>2, SameCurves
<1>5. Listed' = Listed \cup {e}
  <2>1. /\ Len(treeEdges) \in Nat /\ DOMAIN treeEdges = 1..Len(treeEdges)
        /\ DOMAIN treeEdges' = 1..(Len(treeEdges) + 1)
        /\ \A k \in 1..Len(treeEdges) : treeEdges'[k] = treeEdges[k]
        /\ treeEdges'[Len(treeEdges) + 1] = e
    BY <1>1, <1>2
  <2>2. \A k \in DOMAIN treeEdges' : k \in DOMAIN treeEdges \/ k = Len(treeEdges) + 1
    BY <2>1
  <2>3. DOMAIN treeEdges \subseteq DOMAIN treeEdges' /\ Len(treeEdges) + 1 \in DOMAIN treeEdges'
    BY <2>1
  <2> QED
    BY <2>1, <2>2, <2>3 DEF Listed
<1>6. Chosen' = Chosen \cup {e} /\ e \notin Chosen /\ InTree' = {}
  BY <1>1, <1>2, <1>5 DEF Chosen, InTree
<1>7. /\ IsForest(Node, parent') /\ rank' \in [Node -> Int]
      /\ LinkedAs(parent, parent', root(parent, i), root(parent, j))
         \/ LinkedAs(parent, parent', root(parent, j), root(parent, i))
  <2> HIDE DEF i, j
  <2>1. i \in Node /\ j \in Node /\ root(parent, i) # root(parent, j)
    BY <1>2, <1>3 DEF i, j
  <2> QED
    BY <1>1, <1>2, <2>1, UniteLinks
<1>8. TreeTypes'
  <2>1. treeEdges' \in Seq(AllEdges) /\ edges' \subseteq AllEdges
    BY <1>1, <1>2
  <2> QED
    BY <1>1, <1>2, <1>4, <1>6, <1>7, <2>1 DEF TreeInv, TreeTypes, InTree
<1>9. /\ C \in SUBSET Node /\ Crosses(e, C)
      /\ \A f \in AllEdges \ edges : ~Crosses(f, C)
      /\ \A f \in Chosen : ~Crosses(f, C)
  <2>1. \A f \in AllEdges \ edges : ~Crosses(f, C)
    BY <1>3 DEF TreeInv, TreesAreJoined, Crosses
  <2>2. Crosses(e, C)
    BY <1>2, <1>3 DEF Crosses, NodeTop
  <2>3. Chosen \subseteq AllEdges \ edges
    BY <1>2 DEF Chosen
  <2> QED
    BY <2>1, <2>2, <2>3
<1>10. TreesAreJoined'
  <2>1. \A m, n \in Node : NodeTop(m)' = NodeTop(n)' =>
          \/ NodeTop(m) = NodeTop(n)
          \/ NodeTop(m) = NodeTop(i) /\ NodeTop(n) = NodeTop(j)
          \/ NodeTop(m) = NodeTop(j) /\ NodeTop(n) = NodeTop(i)
    BY <1>7 DEF LinkedAs, NodeTop
  <2>2. Joins(Chosen \cup {e}, i, j)
    BY DEF Joins, NoWayOut
  <2>3. \A m, n \in Node : NodeTop(m) = NodeTop(n) => Joins(Chosen \cup {e}, m, n)
    BY JoinsGrows DEF TreeInv, TreesAreJoined
  <2>4. i \in Node /\ j \in Node
    BY <1>2, <1>3
  <2>5. ASSUME NEW m \in Node, NEW n \in Node, NodeTop(m)' = NodeTop(n)'
        PROVE  Joins(Chosen \cup {e}, m, n)
    <3> HIDE DEF i, j
    <3> QED
      BY <2>1, <2>2, <2>3, <2>4, <2>5, JoinsIsEquivalence
  <2>6. \A m, n \in Node : NodeTop(m)' = NodeTop(n)' => Joins(Chosen, m, n)'
    BY <1>1, <1>6, <2>5 DEF Joins, NoWayOut
  <2>7. ASSUME NEW f \in AllEdges, f \notin edges \/ f = e
        PROVE  NodeTop(curves[f].u)' = NodeTop(curves[f].v)'
    <3>1. curves[f].u \in Node /\ curves[f].v \in Node
      BY <1>3
    <3>2. NodeTop(curves[f].u) = NodeTop(curves[f].v) \/ f = e
      BY <2>7 DEF TreeInv, TreesAreJoined
    <3> QED
      BY <1>1, <1>7, <3>1, <3>2 DEF LinkedAs, NodeTop
  <2> QED
    BY <1>1, <1>4, <2>6, <2>7 DEF TreesAreJoined
<1>11. NoneIsSpare'
  <2>1. \A f \in Chosen \cup {e} : ~Joins((Chosen \cup {e}) \ {f}, curves[f].u, curves[f].v)
    <3> HIDE DEF C
    <3> QED
      BY <1>6, <1>9, NoneBecomesSpare DEF TreeInv, NoneIsSpare
  <2> QED
    BY <1>1, <1>6, <2>1 DEF NoneIsSpare, Joins, NoWayOut
<1>12. ChoiceExtends'
  <2>1. ASSUME NEW E \in SUBSET AllEdges, Connects(E)
        PROVE  \E R \in SUBSET AllEdges :
                 Connects(R) /\ Chosen \cup {e} \subseteq R /\ Weight(R) <= Weight(E)
    <3>1. PICK F \in SUBSET AllEdges : Connects(F) /\ Chosen \subseteq F /\ Weight(F) <= Weight(E)
      BY <2>1 DEF TreeInv, ChoiceExtends
    <3>2. \A f \in AllEdges : Crosses(f, C) => curves[e].weight <= curves[f].weight
      BY <1>1, <1>9 DEF Shortest
    <3> HIDE DEF C
    <3>3. PICK R \in SUBSET AllEdges :
            Connects(R) /\ Chosen \cup {e} \subseteq R /\ Weight(R) <= Weight(F)
      BY <1>2, <1>9, <3>1, <3>2, ShortestExtends
    <3>4. Weight(R) \in Nat /\ Weight(F) \in Nat /\ Weight(E) \in Nat
      BY <1>2, WeightIsNatural
    <3>5. Weight(R) <= Weight(E)
      BY <3>1, <3>3, <3>4
    <3> QED
      BY <3>3, <3>5
  <2> QED
    BY <1>4, <1>6, <2>1 DEF ChoiceExtends
<1>13. TreeByStep' /\ NumberedSoFar'
  <2>1. Listed' \cap edges' = {}
    BY <1>1, <1>2, <1>5
  <2>2. Seen = {}
    BY <1>2 DEF Seen
  <2>3. NumberedSoFar'
    BY <1>1, <1>2, <1>6, <2>2 DEF TreeInv, NumberedSoFar, Seen
  <2> QED
    BY <1>1, <1>2, <1>6, <2>1, <2>3 DEF TreeByStep
<1> QED
  BY <1>8, <1>10, <1>11, <1>12, <1>13 DEF TreeInv

\* find(), once or twice, leaves every root.
LEMMA FoundKeeps ==
  ASSUME IsForest(Node, parent), NEW i \in Node, NEW j \in Node
  PROVE  /\ IsForest(Node, Found(i, j)) /\ IsForest(Node, find(parent, i))
         /\ \A k \in Node : /\ root(Found(i, j), k) = root(parent, k)
                            /\ root(find(parent, i), k) = root(parent, k)
<1>1. IsForest(Node, find(parent, i)) /\ \A k \in Node : root(find(parent, i), k) = root(parent, k)
  BY FindKeepsRoots
<1>2. /\ IsForest(Node, find(find(parent, i), j))
      /\ \A k \in Node : root(find(find(parent, i), j), k) = root(find(parent, i), k)
  BY <1>1, FindKeepsRoots
<1> QED
  BY <1>1, <1>2 DEF Found

\* An edge within one tree: nothing is chosen.
LEMMA SkipKeepsTrees ==
  ASSUME TreeInv, NEW e \in edges, TakeEdge(e),
         root(parent, curves[e].u) = root(parent, curves[e].v)
  PROVE  TreeInv'
<1> DEFINE i == curves[e].u
           j == curves[e].v
<1>1. /\ step = "unite" /\ step' = "unite" /\ edges' = edges \ {e} /\ parent' = Found(i, j)
      /\ rank' = rank /\ treeEdges' = treeEdges /\ curves' = curves
      /\ componentOf' = componentOf /\ result' = result
  BY DEF TakeEdge
<1>2. /\ AreCurves /\ edges \subseteq AllEdges /\ e \in AllEdges /\ IsForest(Node, parent)
      /\ InTree = {} /\ Listed \cap edges = {} /\ componentOf = <<>>
  BY <1>1 DEF TreeInv, TreeTypes, TreeByStep
<1>3. \A f \in AllEdges : curves[f].u \in Node /\ curves[f].v \in Node
  BY <1>2, EdgesHaveEnds
<1>4. /\ AllEdges' = AllEdges /\ AreCurves' /\ (\A E : Connects(E)' <=> Connects(E))
      /\ \A E : Weight(E)' = Weight(E)
  BY <1>1, <1>2, SameCurves
<1>5. Listed' = Listed /\ InTree' = InTree /\ Chosen' = Chosen
  BY <1>1 DEF Listed, InTree, Chosen
<1>6. IsForest(Node, parent') /\ \A k \in Node : root(parent', k) = root(parent, k)
  <2>1. i \in Node /\ j \in Node
    BY <1>2, <1>3
  <2> HIDE DEF i, j
  <2> QED
    BY <1>1, <1>2, <2>1, FoundKeeps
<1>7. TreeTypes'
  BY <1>1, <1>2, <1>4, <1>5, <1>6 DEF TreeInv, TreeTypes
<1>8. TreesAreJoined'
  <2>1. \A m, n \in Node : NodeTop(m)' = NodeTop(n)' => Joins(Chosen, m, n)'
    BY <1>1, <1>5, <1>6 DEF TreeInv, TreesAreJoined, NodeTop, Joins, NoWayOut
  <2>2. \A f \in AllEdges : f \notin edges \/ f = e =>
          NodeTop(curves[f].u)' = NodeTop(curves[f].v)'
    BY <1>1, <1>3, <1>6 DEF TreeInv, TreesAreJoined, NodeTop
  <2> QED
    BY <1>1, <1>4, <2>1, <2>2 DEF TreesAreJoined
<1>9. NoneIsSpare'
  BY <1>1, <1>5 DEF TreeInv, NoneIsSpare, Joins, NoWayOut
<1>10. ChoiceExtends'
  BY <1>4, <1>5 DEF TreeInv, ChoiceExtends
<1>11. TreeByStep' /\ NumberedSoFar'
  <2>1. Seen = {}
    BY <1>2 DEF Seen
  <2>2. NumberedSoFar'
    BY <1>1, <1>2, <1>5, <2>1 DEF TreeInv, NumberedSoFar, Seen
  <2> QED
    BY <1>1, <1>2, <1>5, <2>2 DEF TreeByStep
<1> QED
  BY <1>7, <1>8, <1>9, <1>10, <1>11 DEF TreeInv

\* Either way mst() goes on to the next edge.
LEMMA TakeKeepsTrees == TreeInv /\ (\E e \in edges : TakeEdge(e)) => TreeInv'
BY LinkKeeps, SkipKeepsTrees

\* Before a call.
LEMMA NoCurvesKeep == NoCurves => TreeInv
<1> SUFFICES ASSUME NoCurves PROVE TreeInv
  OBVIOUS
<1>1. /\ curves = <<>> /\ step = "idle" /\ edges = {} /\ treeEdges = <<>> /\ componentOf = <<>>
      /\ parent = [n \in Node |-> n] /\ rank = [n \in Node |-> 0] /\ result = <<>>
  BY DEF NoCurves
<1>2. DOMAIN curves = {} /\ DOMAIN result = {} /\ DOMAIN treeEdges = {} /\ DOMAIN componentOf = {}
  BY <1>1
<1>3. AllEdges = {} /\ InTree = {} /\ Listed = {} /\ Chosen = {} /\ Seen = {}
  BY <1>2 DEF AllEdges, InTree, Listed, Chosen, Seen
<1>4. IsForest(Node, parent)
  <2>1. Descends(Node, parent, rank)
    BY <1>1 DEF Descends
  <2> QED
    BY <2>1 DEF IsForest
<1>5. \A n \in Node : root(parent, n) = n
  BY <1>1, <1>4, RootFollows
<1>6. AreCurves
  BY <1>1 DEF AreCurves
<1>7. TreeTypes
  BY <1>1, <1>2, <1>3, <1>4, <1>6 DEF TreeTypes
<1>8. TreesAreJoined
  BY <1>3, <1>5, JoinsIsEquivalence DEF TreesAreJoined, NodeTop
<1>9. ChoiceExtends
  <2>1. \A E : Weight(E) <= Weight(E)
    BY <1>6, WeightIsNatural
  <2> QED
    BY <1>3, <2>1 DEF ChoiceExtends
<1>10. NoneIsSpare /\ TreeByStep
  BY <1>1, <1>3 DEF NoneIsSpare, TreeByStep, NoCurves
<1>11. NumberedSoFar
  <2>1. IsFiniteSet({}) /\ Cardinality({}) = 0 /\ 1..0 = {}
    BY FS_EmptySet
  <2> QED
    BY <1>3, <2>1 DEF NumberedSoFar
<1> QED
  BY <1>7, <1>8, <1>9, <1>10, <1>11 DEF TreeInv

\* A set of curves is as long as itself.
LEMMA WeighsNoMore == AreCurves => \A E : Weight(E) <= Weight(E)
BY WeightIsNatural

\* At the start of a call nothing is chosen, and nothing ruled out.
LEMMA StartKeeps == TreeInv /\ Start => TreeInv'
<1> SUFFICES ASSUME TreeInv, Start PROVE TreeInv'
  OBVIOUS
<1>1. /\ step' = "unite" /\ curves' \in CurveLists
      /\ edges' = {i \in DOMAIN curves' : IsEdge(curves'[i])}
      /\ result' = [i \in DOMAIN curves' |-> 0]
      /\ parent' = parent /\ rank' = rank /\ treeEdges' = treeEdges /\ componentOf' = componentOf
      /\ NoCurves
  BY DEF Start, TreeInv, TreeByStep
<1>2. /\ treeEdges = <<>> /\ componentOf = <<>>
      /\ parent = [n \in Node |-> n] /\ rank = [n \in Node |-> 0]
  BY <1>1 DEF NoCurves
<1>3. DOMAIN treeEdges' = {} /\ DOMAIN componentOf' = {}
  BY <1>1, <1>2
<1>4. edges' = AllEdges' /\ InTree' = {} /\ Listed' = {} /\ Chosen' = {} /\ Seen' = {}
  BY <1>1, <1>3 DEF AllEdges, InTree, Listed, Chosen, Seen
<1>5. IsForest(Node, parent') /\ \A n \in Node : root(parent', n) = n
  <2>1. Descends(Node, parent, rank)
    BY <1>2 DEF Descends
  <2>2. IsForest(Node, parent)
    BY <2>1 DEF IsForest
  <2> QED
    BY <1>1, <1>2, <2>2, RootFollows
<1>6. AreCurves'
  BY <1>1, CurvesAssumption DEF AreCurves
<1>7. TreeTypes'
  BY <1>1, <1>2, <1>4, <1>5, <1>6 DEF TreeTypes
<1>8. TreesAreJoined'
  BY <1>4, <1>5 DEF TreesAreJoined, NodeTop, Joins
<1>9. ChoiceExtends'
  <2>1. (AreCurves => \A E : Weight(E) <= Weight(E))'
    BY WeighsNoMore, PTL
  <2> QED
    BY <1>4, <1>6, <2>1 DEF ChoiceExtends
<1>10. NoneIsSpare' /\ TreeByStep'
  BY <1>1, <1>2, <1>4 DEF NoneIsSpare, TreeByStep
<1>11. NumberedSoFar'
  <2>1. IsFiniteSet({}) /\ Cardinality({}) = 0 /\ 1..0 = {}
    BY FS_EmptySet
  <2> QED
    BY <1>4, <2>1 DEF NumberedSoFar
<1> QED
  BY <1>7, <1>8, <1>9, <1>10, <1>11 DEF TreeInv

\* When there are no more edges the numbering begins.
LEMMA AllTakenKeeps == TreeInv /\ AllTaken => TreeInv'
<1> SUFFICES ASSUME TreeInv, AllTaken PROVE TreeInv'
  OBVIOUS
<1>1. /\ edges = {} /\ step' = "number" /\ curves' = curves /\ edges' = edges
      /\ parent' = parent /\ rank' = rank /\ treeEdges' = treeEdges
      /\ componentOf' = componentOf /\ result' = result
  BY DEF AllTaken
<1>2. Chosen' = Chosen /\ InTree' = InTree /\ Seen' = Seen
  BY <1>1 DEF Chosen, InTree, Listed, Seen
<1>3. TreesAreJoined' /\ NoneIsSpare' /\ ChoiceExtends'
  BY <1>1, <1>2, SameChoice
<1>4. AllEdges' = AllEdges /\ (AreCurves' <=> AreCurves)
  BY <1>1, SameCurves
<1>5. TreeTypes' /\ TreeByStep'
  BY <1>1, <1>2, <1>4 DEF TreeInv, TreeTypes, TreeByStep
<1>6. NumberedSoFar'
  BY <1>1, <1>2 DEF TreeInv, NumberedSoFar, NodeTop
<1> QED
  BY <1>3, <1>5, <1>6 DEF TreeInv

\* When there are no more curves in the tree the call is done.
LEMMA AnswerKeeps == TreeInv /\ Answer => TreeInv'
<1> SUFFICES ASSUME TreeInv, Answer PROVE TreeInv'
  OBVIOUS
<1>1. /\ step = "number" /\ treeEdges = <<>> /\ step' = "done" /\ curves' = curves /\ edges' = edges
      /\ parent' = parent /\ rank' = rank /\ treeEdges' = treeEdges
      /\ componentOf' = componentOf /\ result' = result
  BY DEF Answer
<1>2. Chosen' = Chosen /\ InTree' = InTree /\ Seen' = Seen
  BY <1>1 DEF Chosen, InTree, Listed, Seen
<1>3. TreesAreJoined' /\ NoneIsSpare' /\ ChoiceExtends'
  BY <1>1, <1>2, SameChoice
<1>4. AllEdges' = AllEdges /\ (AreCurves' <=> AreCurves)
  BY <1>1, SameCurves
<1>5. TreeTypes' /\ TreeByStep'
  BY <1>1, <1>2, <1>4 DEF TreeInv, TreeTypes, TreeByStep
<1>6. NumberedSoFar'
  BY <1>1, <1>2 DEF TreeInv, NumberedSoFar, NodeTop
<1> QED
  BY <1>3, <1>5, <1>6 DEF TreeInv

\* The next curve of the tree gets the number of its component, maybe a new one.
LEMMA NumberKeeps == TreeInv /\ NumberEdge => TreeInv'
<1> SUFFICES ASSUME TreeInv, NumberEdge PROVE TreeInv'
  OBVIOUS
<1> DEFINE e == Head(treeEdges)
           top == Numbered(e)
           known == IF top \in Seen THEN componentOf
                    ELSE [n \in Seen \cup {top} |->
                            IF n = top THEN Cardinality(Seen) + 1 ELSE componentOf[n]]
<1>1. /\ step = "number" /\ treeEdges # <<>> /\ treeEdges' = Tail(treeEdges)
      /\ parent' = find(parent, curves[e].u) /\ componentOf' = known
      /\ result' = [result EXCEPT ![e] = known[top]]
      /\ curves' = curves /\ step' = step /\ edges' = edges /\ rank' = rank
  BY DEF NumberEdge, Seen
<1>2. /\ AreCurves /\ edges = {} /\ treeEdges \in Seq(AllEdges) /\ IsForest(Node, parent)
      /\ result \in [DOMAIN curves -> Nat] /\ InTree \subseteq AllEdges
  BY <1>1 DEF TreeInv, TreeTypes, TreeByStep
<1>3. \A f \in AllEdges : curves[f].u \in Node /\ curves[f].v \in Node
  BY <1>2, EdgesHaveEnds
<1>4. AllEdges' = AllEdges /\ AreCurves'
  BY <1>1, <1>2, SameCurves
<1>5. e \in AllEdges /\ e \in DOMAIN curves /\ treeEdges' \in Seq(AllEdges) /\ Listed = {e} \cup Listed'
  <2>1. /\ Len(treeEdges) \in Nat /\ Len(treeEdges) > 0 /\ DOMAIN treeEdges = 1..Len(treeEdges)
        /\ e = treeEdges[1] /\ e \in AllEdges /\ treeEdges' \in Seq(AllEdges)
        /\ DOMAIN treeEdges' = 1..(Len(treeEdges) - 1)
        /\ \A k \in 1..(Len(treeEdges) - 1) : treeEdges'[k] = treeEdges[k + 1]
    BY <1>1, <1>2
  <2>2. \A k \in DOMAIN treeEdges : k = 1 \/ (k - 1 \in DOMAIN treeEdges' /\ k = (k - 1) + 1)
    BY <2>1
  <2>3. 1 \in DOMAIN treeEdges /\ \A k \in DOMAIN treeEdges' : k + 1 \in DOMAIN treeEdges
    BY <2>1
  <2> HIDE DEF e
  <2>4. Listed \subseteq {e} \cup Listed'
    BY <2>1, <2>2 DEF Listed
  <2>5. {e} \cup Listed' \subseteq Listed
    BY <2>1, <2>3 DEF Listed
  <2> QED
    BY <2>1, <2>4, <2>5 DEF AllEdges
<1> HIDE DEF e
<1>6. IsForest(Node, parent') /\ \A k \in Node : root(parent', k) = root(parent, k)
  BY <1>1, <1>2, <1>3, <1>5, FoundKeeps
<1>7. top = NodeTop(curves[e].u)
  BY DEF Numbered, NodeTop
<1>8. /\ IsFiniteSet(Seen) /\ Cardinality(Seen) \in Nat
      /\ {componentOf[n] : n \in Seen} = 1..Cardinality(Seen)
      /\ \A m, n \in Seen : componentOf[m] = componentOf[n] => m = n
  BY FS_CardinalityType DEF TreeInv, NumberedSoFar
<1> HIDE DEF top
<1> DEFINE size == Cardinality(Seen)
           tops == Seen \cup {top}
<1>9. /\ IsFiniteSet(tops) /\ Cardinality(tops) = IF top \in Seen THEN size ELSE size + 1
  BY <1>8, FS_AddElement
<1>10. /\ DOMAIN known = tops
       /\ \A n \in Seen : known[n] = componentOf[n] /\ known[n] \in 1..size
       /\ known[top] \in 1..Cardinality(tops)
       /\ top \notin Seen => known[top] = size + 1
  <2>1. \A n \in Seen : componentOf[n] \in 1..size
    BY <1>8
  <2>2. CASE top \in Seen
    BY <1>8, <1>9, <2>1, <2>2 DEF Seen
  <2>3. CASE top \notin Seen
    BY <1>8, <1>9, <2>1, <2>3
  <2> QED
    BY <2>2, <2>3
<1> HIDE DEF known
<1>11. Seen' = tops
  BY <1>1, <1>10 DEF Seen
<1>12. {known[n] : n \in tops} = 1..Cardinality(tops)
  <2>1. CASE top \in Seen
    <3>1. tops = Seen
      BY <2>1
    <3> QED
      BY <1>8, <1>10, <3>1
  <2>2. CASE top \notin Seen
    <3>1. {known[n] : n \in tops} = {known[n] : n \in Seen} \cup {known[top]}
      OBVIOUS
    <3>2. {known[n] : n \in Seen} = 1..size
      BY <1>8, <1>10
    <3>3. 1..(size + 1) = (1..size) \cup {size + 1}
      BY <1>8
    <3> QED
      BY <1>9, <1>10, <2>2, <3>1, <3>2, <3>3
  <2> QED
    BY <2>1, <2>2
<1>13. \A m, n \in tops : known[m] = known[n] => m = n
  BY <1>8, <1>10
<1>14. /\ result' \in [DOMAIN curves -> Nat] /\ result'[e] = known[top] /\ result'[e] > 0
       /\ \A f \in DOMAIN curves : f # e => result'[f] = result[f]
  <2>1. known[top] \in Nat /\ known[top] > 0
    BY <1>8, <1>9, <1>10
  <2> QED
    BY <1>1, <1>2, <1>5, <2>1
<1>15. InTree' = InTree \cup {e}
  BY <1>2, <1>5, <1>14 DEF InTree
<1>16. Chosen' = Chosen
  BY <1>5, <1>15 DEF Chosen
<1>17. TreesAreJoined' /\ NoneIsSpare' /\ ChoiceExtends'
  BY <1>1, <1>6, <1>16, SameChoice
<1>18. TreeTypes' /\ TreeByStep'
  BY <1>1, <1>2, <1>4, <1>5, <1>6, <1>14, <1>15 DEF TreeInv, TreeTypes, TreeByStep
<1>19. NumberedSoFar'
  <2>1. \A f \in InTree \cup {e} : NodeTop(curves[f].u)' = NodeTop(curves[f].u)
    BY <1>1, <1>2, <1>3, <1>5, <1>6 DEF NodeTop
  <2>2. Seen' = {NodeTop(curves[f].u)' : f \in InTree'}
    <3>1. Seen = {NodeTop(curves[f].u) : f \in InTree}
      BY DEF TreeInv, NumberedSoFar
    <3> QED
      BY <1>7, <1>11, <1>15, <2>1, <3>1
  <2>3. \A f \in InTree' : result'[f] = componentOf'[NodeTop(curves[f].u)']
    <3>1. \A f \in InTree : NodeTop(curves[f].u) \in Seen /\ result[f] = componentOf[NodeTop(curves[f].u)]
      BY DEF TreeInv, NumberedSoFar
    <3>2. \A f \in InTree : f \in DOMAIN curves
      BY <1>2 DEF AllEdges
    <3> QED
      BY <1>1, <1>7, <1>10, <1>14, <1>15, <2>1, <3>1, <3>2
  <2>4. /\ IsFiniteSet(Seen') /\ {componentOf'[n] : n \in Seen'} = 1..Cardinality(Seen')
        /\ \A m, n \in Seen' : componentOf'[m] = componentOf'[n] => m = n
    BY <1>1, <1>9, <1>11, <1>12, <1>13
  <2> QED
    BY <2>2, <2>3, <2>4 DEF NumberedSoFar
<1> QED
  BY <1>17, <1>18, <1>19 DEF TreeInv

\* After the call there is no state left.
LEMMA ForgetKeeps == TreeInv /\ Forget => TreeInv'
<1>1. TreeInv /\ Forget => NoCurves'
  BY DEF TreeInv, TreeByStep, Forget, NoCurves
<1>2. (NoCurves => TreeInv)'
  BY NoCurvesKeep, PTL
<1> QED
  BY <1>1, <1>2

\* While mst() makes no step.
LEMMA IdleTreeKeeps == TreeInv /\ UNCHANGED treeVars => TreeInv'
<1> SUFFICES ASSUME TreeInv, UNCHANGED treeVars PROVE TreeInv'
  OBVIOUS
<1>1. /\ curves' = curves /\ step' = step /\ edges' = edges /\ parent' = parent /\ rank' = rank
      /\ treeEdges' = treeEdges /\ componentOf' = componentOf /\ result' = result
  BY DEF treeVars
<1>2. Chosen' = Chosen /\ InTree' = InTree /\ Seen' = Seen /\ Listed' = Listed
  BY <1>1 DEF Chosen, InTree, Listed, Seen
<1>3. TreesAreJoined' /\ NoneIsSpare' /\ ChoiceExtends'
  BY <1>1, <1>2, SameChoice
<1>4. AllEdges' = AllEdges /\ (AreCurves' <=> AreCurves)
  BY <1>1, SameCurves
<1>5. TreeTypes' /\ TreeByStep'
  BY <1>1, <1>2, <1>4 DEF TreeInv, TreeTypes, TreeByStep, NoCurves
<1>6. NumberedSoFar'
  <2>1. \A n : NodeTop(n)' = NodeTop(n)
    BY <1>1 DEF NodeTop
  <2>2. Seen' = {NodeTop(curves[e].u)' : e \in InTree'}
    BY <1>1, <1>2, <2>1 DEF TreeInv, NumberedSoFar
  <2>3. \A e \in InTree' : result'[e] = componentOf'[NodeTop(curves[e].u)']
    BY <1>1, <1>2, <2>1 DEF TreeInv, NumberedSoFar
  <2>4. /\ IsFiniteSet(Seen') /\ {componentOf'[n] : n \in Seen'} = 1..Cardinality(Seen')
        /\ \A m, n \in Seen' : componentOf'[m] = componentOf'[n] => m = n
    BY <1>1, <1>2 DEF TreeInv, NumberedSoFar
  <2> QED
    BY <2>2, <2>3, <2>4 DEF NumberedSoFar
<1> QED
  BY <1>3, <1>5, <1>6 DEF TreeInv

\* The invariant holds in every state of a call of mst().
THEOREM TreeInvariance == SpecOfTree => []TreeInv
<1>1. TreeInv /\ [NextOfTree]_treeVars => TreeInv'
  BY TakeKeepsTrees, StartKeeps, AllTakenKeeps, NumberKeeps, AnswerKeeps, ForgetKeeps, IdleTreeKeeps
     DEF NextOfTree
<1> QED
  BY <1>1, NoCurvesKeep, PTL DEF SpecOfTree

\* When all edges were looked at, the choice connects what they connect.
LEMMA TreeIsShortest == TreeInv => SpansMinimally
<1> SUFFICES ASSUME TreeInv, step = "done" PROVE SpansMinimally
  BY DEF SpansMinimally
<1>1. /\ AreCurves /\ InTree \subseteq AllEdges /\ edges = {} /\ Listed = {}
  BY DEF TreeInv, TreeTypes, TreeByStep, Listed
<1>2. Chosen = InTree
  BY <1>1 DEF Chosen
<1>3. \A e \in AllEdges : curves[e].u \in Node /\ curves[e].v \in Node
  BY <1>1, EdgesHaveEnds
<1>4. Connects(InTree)
  BY <1>1, <1>2, <1>3 DEF TreeInv, TreesAreJoined, Connects
<1>5. \A e \in InTree : ~Connects(InTree \ {e})
  BY <1>1, <1>2 DEF TreeInv, NoneIsSpare, Connects
<1>6. ASSUME NEW E \in SUBSET AllEdges, Connects(E)
      PROVE  Weight(InTree) <= Weight(E)
  <2>1. PICK F \in SUBSET AllEdges : InTree \subseteq F /\ Weight(F) <= Weight(E)
    BY <1>2, <1>6 DEF TreeInv, ChoiceExtends
  <2>2. Weight(InTree) <= Weight(F)
    BY <1>1, <2>1, WeightGrows
  <2>3. Weight(InTree) \in Nat /\ Weight(F) \in Nat /\ Weight(E) \in Nat
    BY <1>1, WeightIsNatural
  <2> QED
    BY <2>1, <2>2, <2>3
<1> QED
  BY <1>1, <1>4, <1>5, <1>6 DEF SpansMinimally

\* mst() returns a tree of every component: all its curves are needed, and no other
\* choice of curves that connects as much is shorter.
THEOREM TreesSpanMinimally == SpecOfTree => []SpansMinimally
BY TreeInvariance, TreeIsShortest, PTL

\* When all edges were looked at, nodes with one root are those that edges join.
LEMMA NumbersAreOfTrees == TreeInv => NumbersAreComponents
<1> SUFFICES ASSUME TreeInv, step = "done" PROVE NumbersAreComponents
  BY DEF NumbersAreComponents
<1>1. /\ AreCurves /\ InTree \subseteq AllEdges /\ edges = {} /\ Listed = {}
  BY DEF TreeInv, TreeTypes, TreeByStep, Listed
<1>2. Chosen = InTree
  BY <1>1 DEF Chosen
<1>3. \A e \in AllEdges : curves[e].u \in Node /\ curves[e].v \in Node
  BY <1>1, EdgesHaveEnds
<1>4. ASSUME NEW m \in Node, NEW n \in Node
      PROVE  NodeTop(m) = NodeTop(n) <=> Joins(AllEdges, m, n)
  <2>1. ASSUME NodeTop(m) = NodeTop(n)
        PROVE  Joins(AllEdges, m, n)
    BY <1>1, <1>2, <2>1, JoinsGrows DEF TreeInv, TreesAreJoined
  <2>2. ASSUME Joins(AllEdges, m, n)
        PROVE  NodeTop(m) = NodeTop(n)
    <3> DEFINE S == {k \in Node : NodeTop(k) = NodeTop(m)}
    <3>1. NoWayOut(S, AllEdges)
      BY <1>1, <1>3 DEF TreeInv, TreesAreJoined, NoWayOut
    <3>2. S \in SUBSET Node /\ m \in S
      OBVIOUS
    <3>3. n \in S
      <4> HIDE DEF S
      <4> QED
        BY <2>2, <3>1, <3>2 DEF Joins
    <3> QED
      BY <3>3
  <2> QED
    BY <2>1, <2>2
<1>5. /\ Seen = {NodeTop(curves[e].u) : e \in InTree} /\ IsFiniteSet(Seen)
      /\ {componentOf[n] : n \in Seen} = 1..Cardinality(Seen)
      /\ \A m, n \in Seen : componentOf[m] = componentOf[n] => m = n
      /\ \A e \in InTree : result[e] = componentOf[NodeTop(curves[e].u)]
  BY DEF TreeInv, NumberedSoFar
<1>6. \A d, e \in InTree : result[d] = result[e] <=> Joins(AllEdges, curves[d].u, curves[e].u)
  <2>1. ASSUME NEW d \in InTree, NEW e \in InTree
        PROVE  result[d] = result[e] <=> Joins(AllEdges, curves[d].u, curves[e].u)
    <3>1. NodeTop(curves[d].u) \in Seen /\ NodeTop(curves[e].u) \in Seen
      BY <1>5
    <3>2. result[d] = result[e] <=> NodeTop(curves[d].u) = NodeTop(curves[e].u)
      BY <1>5, <3>1
    <3>3. curves[d].u \in Node /\ curves[e].u \in Node
      BY <1>1, <1>3
    <3> QED
      BY <1>4, <3>2, <3>3
  <2> QED
    BY <2>1
<1> DEFINE numbers == {result[e] : e \in InTree}
<1>7. numbers = 1..Cardinality(Seen)
  <2>1. numbers = {componentOf[n] : n \in Seen}
    BY <1>5
  <2> QED
    BY <1>5, <2>1
<1>8. Cardinality(numbers) = Cardinality(Seen)
  <2>1. Cardinality(Seen) \in Nat
    BY <1>5, FS_CardinalityType
  <2>2. \A n \in Nat : Cardinality(1..n) = n
    BY FS_Interval
  <2> QED
    BY <1>7, <2>1, <2>2
<1> QED
  BY <1>6, <1>7, <1>8 DEF NumbersAreComponents

\* mst() numbers the curves of the trees by component, from one and without gaps.
THEOREM NumbersAreTheComponents == SpecOfTree => []NumbersAreComponents
BY TreeInvariance, NumbersAreOfTrees, PTL
=============================================================================
