------------------------------ MODULE RelateProofs ----------------------------
(***************************************************************************)
(* Proofs about one evaluation of a predicate, for every subdivision of    *)
(* the plane, every set of shapes and every set of predicates.             *)
(*                                                                         *)
(* A predicate that is determined stays so (DeterminedIsFinal).  The       *)
(* labels that createNode() gives the edges around a node are what lies    *)
(* there (NodesAreTrue): the edges at a vertex have places from 1 to n,    *)
(* each polygon is a sector between two of them, and every label is right  *)
(* or not known while sections are added, and right when the ones that are *)
(* not known are filled.  Each other kind of evidence tells of a cell of   *)
(* the plane that is there too, so the matrix never exceeds the truth      *)
(* (MatrixIsSound), and a value known early is right (EarlyAnswers).       *)
(***************************************************************************)
EXTENDS RelateNG, PreparedGeometry, TLAPS, FiniteSetTheorems, NaturalsInduction, WellFoundedInduction

(***************************************************************************)
(* A predicate that is determined by a matrix has the same value for every *)
(* matrix that is at least as large.  Two lines share no area: without     *)
(* that a predicate of two lines could still change.                       *)
(***************************************************************************)
AtMost(m, n) == \A e \in Entry : m[e] <= n[e]

LEMMA TrueStays ==
  ASSUME NEW m \in Matrix, NEW n \in Matrix, AtMost(m, n), NEW x \in Location, NEW y \in Location,
         isTrue(m, x, y)
  PROVE  isTrue(n, x, y)
<1>1. <<x, y>> \in Entry
  BY DEF Entry
<1>2. m[<<x, y>>] \in Int /\ n[<<x, y>>] \in Int
  BY <1>1 DEF Matrix, Dimension, None, P, L, A
<1> QED BY <1>1, <1>2 DEF AtMost, isTrue, P

LEMMA TrueIsNotFalse ==
  ASSUME NEW m, NEW x, NEW y, isTrue(m, x, y)
  PROVE  ~isFalse(m, x, y)
BY DEF isTrue, isFalse, P, None

LEMMA EntriesOfTwo ==
  <<"I", "I">> \in Entry /\ <<"I", "B">> \in Entry /\ <<"I", "E">> \in Entry
  /\ <<"B", "I">> \in Entry /\ <<"B", "B">> \in Entry /\ <<"B", "E">> \in Entry
  /\ <<"E", "I">> \in Entry /\ <<"E", "B">> \in Entry /\ <<"E", "E">> \in Entry
BY DEF Entry, Location

LEMMA IntersectsStays ==
  ASSUME NEW m \in Matrix, NEW n \in Matrix, AtMost(m, n), isIntersects(m)
  PROVE  isIntersects(n)
<1>1. PICK e \in NonExterior : m[e] >= P
  BY DEF isIntersects
<1>2. e \in Entry
  BY <1>1, EntriesOfTwo DEF NonExterior
<1>3. m[e] \in Int /\ n[e] \in Int /\ m[e] <= n[e]
  BY <1>2 DEF Matrix, Dimension, None, P, L, A, AtMost
<1> QED BY <1>1, <1>3 DEF isIntersects, P

LEMMA ExteriorOfAStays ==
  ASSUME NEW m \in Matrix, NEW n \in Matrix, AtMost(m, n), intersectsExteriorOfA(m)
  PROVE  intersectsExteriorOfA(n)
BY TrueStays DEF intersectsExteriorOfA, Location

LEMMA ExteriorOfBStays ==
  ASSUME NEW m \in Matrix, NEW n \in Matrix, AtMost(m, n), intersectsExteriorOfB(m)
  PROVE  intersectsExteriorOfB(n)
BY TrueStays DEF intersectsExteriorOfB, Location

(***************************************************************************)
(* An entry beyond its symbol only gets further beyond it.                 *)
(***************************************************************************)
LEMMA BeyondStays ==
  ASSUME NEW m \in Matrix, NEW n \in Matrix, AtMost(m, n), NEW pattern, patternDetermined(m, pattern)
  PROVE  ~matches(m, pattern) /\ ~matches(n, pattern)
<1>1. PICK e \in Entry : BeyondSymbol(pattern[e], m[e])
  BY DEF patternDetermined
<1>2. m[e] \in Dimension /\ n[e] \in Dimension /\ m[e] <= n[e]
  BY DEF Matrix, AtMost
<1>3. BeyondSymbol(pattern[e], n[e])
  BY <1>1, <1>2 DEF BeyondSymbol, SymbolDimension, Dimension, None, P, L, A
<1>4. ~SymbolMatches(pattern[e], m[e])
  BY <1>1, <1>2 DEF BeyondSymbol, SymbolDimension, SymbolMatches, Dimension, None, P, L, A
<1>5. ~SymbolMatches(pattern[e], n[e])
  BY <1>3, <1>2 DEF BeyondSymbol, SymbolDimension, SymbolMatches, Dimension, None, P, L, A
<1> QED BY <1>4, <1>5 DEF matches

\* What complete matrices of two lines look like.
LinesShareNoArea(n, dA, dB) == dA = L /\ dB = L => n[<<"I", "I">>] # A

LEMMA CrossesStays ==
  ASSUME NEW m \in Matrix, NEW n \in Matrix, AtMost(m, n),
         NEW dA \in Dimension, NEW dB \in Dimension, crossesDetermined(m, dA, dB)
  PROVE  isCrosses(m, dA, dB) = isCrosses(n, dA, dB)
<1>1. m[<<"I", "I">>] \in Dimension /\ n[<<"I", "I">>] \in Dimension /\ m[<<"I", "I">>] <= n[<<"I", "I">>]
  BY EntriesOfTwo DEF Matrix, AtMost
<1>2. "I" \in Location /\ "E" \in Location
  BY DEF Location
<1>3. CASE dA = L /\ dB = L /\ m[<<"I", "I">>] > P
  BY <1>1, <1>3 DEF isCrosses, Dimension, None, P, L, A
<1>4. CASE dA < dB /\ isTrue(m, "I", "I") /\ isTrue(m, "I", "E")
  <2>1. isTrue(n, "I", "I") /\ isTrue(n, "I", "E")
    BY <1>2, <1>4, TrueStays
  <2> QED BY <1>4, <2>1 DEF isCrosses, Dimension, None, P, L, A
<1>5. CASE dA > dB /\ isTrue(m, "I", "I") /\ isTrue(m, "E", "I")
  <2>1. isTrue(n, "I", "I") /\ isTrue(n, "E", "I")
    BY <1>2, <1>5, TrueStays
  <2> QED BY <1>5, <2>1 DEF isCrosses, Dimension, None, P, L, A
<1> QED BY <1>3, <1>4, <1>5 DEF crossesDetermined

LEMMA OverlapsStays ==
  ASSUME NEW m \in Matrix, NEW n \in Matrix, AtMost(m, n),
         NEW dA \in Dimension, NEW dB \in Dimension, LinesShareNoArea(n, dA, dB),
         overlapsDetermined(m, dA)
  PROVE  isOverlaps(m, dA, dB) = isOverlaps(n, dA, dB)
<1>1. m[<<"I", "I">>] \in Dimension /\ n[<<"I", "I">>] \in Dimension /\ m[<<"I", "I">>] <= n[<<"I", "I">>]
  BY EntriesOfTwo DEF Matrix, AtMost
<1>2. isTrue(n, "I", "E") /\ isTrue(n, "E", "I") /\ isTrue(m, "I", "E") /\ isTrue(m, "E", "I")
  BY TrueStays DEF overlapsDetermined, Location
<1>3. CASE dA \in {A, P} /\ isTrue(m, "I", "I")
  <2>1. isTrue(n, "I", "I")
    BY <1>3, TrueStays DEF Location
  <2> QED BY <1>2, <1>3, <2>1 DEF isOverlaps, P, L, A
<1>4. CASE dA = L /\ m[<<"I", "I">>] = L
  <2>1. CASE dB = L
    <3>1. n[<<"I", "I">>] = L
      BY <1>1, <1>4, <2>1 DEF LinesShareNoArea, Dimension, None, P, L, A
    <3> QED BY <1>2, <1>4, <3>1 DEF isOverlaps, P, L, A
  <2>2. CASE dB # L
    BY <1>4, <2>2 DEF isOverlaps
  <2> QED BY <2>1, <2>2
<1> QED BY <1>3, <1>4 DEF overlapsDetermined

(***************************************************************************)
(* What a predicate decides early it decides for good (the value set by    *)
(* IMPredicate::updateDimension() is that of every later matrix).          *)
(***************************************************************************)
THEOREM DeterminedIsFinal ==
  ASSUME NEW m \in Matrix, NEW n \in Matrix, AtMost(m, n),
         NEW dA \in Dimension, NEW dB \in Dimension, LinesShareNoArea(n, dA, dB),
         NEW p \in Predicate, isDetermined(p, m, dA, dB)
  PROVE  valueIM(p, m, dA, dB) <=> valueIM(p, n, dA, dB)
<1>0. p.name \in Name
  BY DEF Predicate
<1>1. CASE p.name \in {"intersects", "disjoint"}
  <2>1. isIntersects(m)
    BY <1>1 DEF isDetermined, isBasic
  <2>2. isIntersects(n)
    BY <2>1, IntersectsStays
  <2> QED BY <1>1, <2>1, <2>2 DEF valueIM
<1>2. CASE p.name \in {"contains", "covers"}
  <2>1. intersectsExteriorOfA(m)
    BY <1>2 DEF isDetermined, isBasic
  <2>2. intersectsExteriorOfA(n)
    BY <2>1, ExteriorOfAStays
  <2>3. ~isContains(m) /\ ~isCovers(m) /\ ~isContains(n) /\ ~isCovers(n)
    BY <2>1, <2>2, TrueIsNotFalse DEF intersectsExteriorOfA, isContains, isCovers
  <2> QED BY <1>2, <2>3 DEF valueIM
<1>3. CASE p.name \in {"within", "coveredBy"}
  <2>1. intersectsExteriorOfB(m)
    BY <1>3 DEF isDetermined, isBasic
  <2>2. intersectsExteriorOfB(n)
    BY <2>1, ExteriorOfBStays
  <2>3. ~isWithin(m) /\ ~isCoveredBy(m) /\ ~isWithin(n) /\ ~isCoveredBy(n)
    BY <2>1, <2>2, TrueIsNotFalse DEF intersectsExteriorOfB, isWithin, isCoveredBy
  <2> QED BY <1>3, <2>3 DEF valueIM
<1>4. CASE p.name = "crosses"
  <2>1. crossesDetermined(m, dA, dB)
    BY <1>4 DEF isDetermined, isBasic
  <2>2. isCrosses(m, dA, dB) = isCrosses(n, dA, dB)
    BY <2>1, CrossesStays
  <2> QED BY <1>4, <2>2 DEF valueIM
<1>5. CASE p.name = "equals"
  <2>1. intersectsExteriorOfA(m) \/ intersectsExteriorOfB(m)
    BY <1>5 DEF isDetermined, isBasic
  <2>2. intersectsExteriorOfA(n) \/ intersectsExteriorOfB(n)
    BY <2>1, ExteriorOfAStays, ExteriorOfBStays
  <2>3. ~isEquals(m, dA, dB) /\ ~isEquals(n, dA, dB)
    BY <2>1, <2>2, TrueIsNotFalse DEF intersectsExteriorOfA, intersectsExteriorOfB, isEquals
  <2> QED BY <1>5, <2>3 DEF valueIM
<1>6. CASE p.name = "overlaps"
  <2>1. overlapsDetermined(m, dA)
    BY <1>6 DEF isDetermined, isBasic
  <2>2. isOverlaps(m, dA, dB) = isOverlaps(n, dA, dB)
    BY <2>1, OverlapsStays
  <2> QED BY <1>6, <2>2 DEF valueIM
<1>7. CASE p.name = "touches"
  <2>1. isTrue(m, "I", "I")
    BY <1>7 DEF isDetermined, isBasic
  <2>2. isTrue(n, "I", "I")
    BY <2>1, TrueStays DEF Location
  <2>3. ~isTouches(m, dA, dB) /\ ~isTouches(n, dA, dB)
    BY <2>1, <2>2, TrueIsNotFalse DEF isTouches
  <2> QED BY <1>7, <2>3 DEF valueIM
<1>8. CASE p.name = "matches"
  <2>1. patternDetermined(m, p.pattern)
    BY <1>8 DEF isDetermined, isBasic
  <2>2. ~matches(m, p.pattern) /\ ~matches(n, p.pattern)
    BY <2>1, BeyondStays
  <2> QED BY <1>8, <2>2 DEF valueIM
<1>9. CASE p.name = "matrix"
  BY <1>9 DEF valueIM
<1> QED BY <1>0, <1>1, <1>2, <1>3, <1>4, <1>5, <1>6, <1>7, <1>8, <1>9 DEF Name

------------------------------------------------------------------------------
(***************************************************************************)
(* Types of the operators the entries come from.                           *)
(***************************************************************************)
LEMMA ShapeTypes ==
  ASSUME NEW g \in Geometry
  PROVE  getDimension(g) \in {P, L, A} /\ getDimensionReal(g) \in Dimension
BY ShapeAssumption DEF getDimension, getDimensionReal, Dimension

LEMMA LocateTyped ==
  ASSUME NEW g \in Geometry, NEW v
  PROVE  locate(g, v) \in Location /\ locateNode(g, v) \in Location /\ locateLineEnd(g, v) \in Location
<1>1. hasDimension(g, P) \/ hasDimension(g, L) \/ hasDimension(g, A) \/ isEmpty(g)
  BY ShapeAssumption DEF hasDimension
<1>2. locateOnLines(g, v) \in Location /\ locateOnPolygons(g, v) \in Location
  BY DEF locateOnLines, locateOnPolygons, Location
<1>3. locate(g, v) \in Location
  BY <1>1, <1>2 DEF locate, Location
<1> QED BY <1>3 DEF locateNode, locateLineEnd, Location

LEMMA TruthTyped ==
  ASSUME NEW gh \in Geometry \X Geometry
  PROVE  Truth[gh] \in Matrix
BY DEF Truth, Matrix, Dimension

LEMMA TruthOfLines ==
  ASSUME NEW gh \in Geometry \X Geometry
  PROVE  LinesShareNoArea(Truth[gh], getDimensionReal(gh[1]), getDimensionReal(gh[2]))
<1> SUFFICES ASSUME getDimensionReal(gh[1]) = L
             PROVE  Truth[gh][<<"I", "I">>] # A
  BY DEF LinesShareNoArea
<1>1. gh[1] \in Geometry
  OBVIOUS
<1>2. Shape[gh[1]].type = L
  BY DEF getDimensionReal, None, P, L, A
<1>3. Shape[gh[1]].polygons = {}
  BY <1>1, <1>2, ShapeAssumption DEF L, A
<1>4. Interior(gh[1]) = {}
  BY <1>3 DEF Interior
<1>5. \A f \in Face : Where[gh[1]].face[f] = "E"
  BY <1>1, <1>4 DEF Where, FaceLocation
<1> QED BY <1>5, EntriesOfTwo DEF Truth, None, P, L, A

LEMMA OrientedTyped ==
  ASSUME NEW isAB \in BOOLEAN, NEW us \in Seq(Update)
  PROVE  OrientedAll(isAB, us) \in Seq(Update)
<1>1. \A i \in DOMAIN us : Oriented(isAB, us[i]) \in Update
  BY DEF Oriented, Update
<1>2. DOMAIN us = 1..Len(us) /\ Len(us) \in Nat
  OBVIOUS
<1> DEFINE f(i) == Oriented(isAB, us[i])
<1> HIDE DEF f
<1>3. [i \in 1..Len(us) |-> f(i)] \in Seq(Update)
  BY <1>1, <1>2 DEF f
<1> QED BY <1>2, <1>3 DEF OrientedAll, f

LEMMA UpdateTyped ==
  ASSUME NEW x \in Location, NEW y \in Location, NEW d \in Dimension
  PROVE  <<x, y, d>> \in Update
BY DEF Update

LEMMA PointUpdatesTyped ==
  ASSUME NEW loc \in Location
  PROVE  PointUpdates(loc) \in Seq(Update)
<1>1. <<"I", loc, P>> \in Update /\ <<"E", "I", A>> \in Update /\ <<"E", "B", L>> \in Update
  BY UpdateTyped DEF Location, Dimension
<1> QED BY <1>1 DEF PointUpdates

LEMMA LineEndUpdatesTyped ==
  ASSUME NEW locEnd \in Location, NEW loc \in Location
  PROVE  LineEndUpdates(locEnd, loc) \in Seq(Update)
<1>1. <<locEnd, loc, P>> \in Update /\ <<"I", "E", L>> \in Update
      /\ <<"I", loc, L>> \in Update /\ <<"E", loc, A>> \in Update
  BY UpdateTyped DEF Location, Dimension
<1> QED BY <1>1 DEF LineEndUpdates

LEMMA AreaVertexUpdatesTyped ==
  ASSUME target \in Geometry, NEW loc \in Location
  PROVE  AreaVertexUpdates(loc) \in Seq(Update)
<1>1. <<"I", "E", A>> \in Update /\ <<"B", "E", L>> \in Update /\ <<"E", "E", A>> \in Update
      /\ <<"B", "I", P>> \in Update /\ <<"B", loc, P>> \in Update /\ <<"B", "B", P>> \in Update
      /\ <<"I", loc, A>> \in Update /\ <<"B", loc, L>> \in Update /\ <<"E", loc, A>> \in Update
  BY UpdateTyped DEF Location, Dimension
<1>2. getDimension(target) \in {P, L, A}
  BY ShapeTypes
<1>3. loc \in {"I", "B", "E"}
  BY DEF Location
<1>4. CASE loc = "E"
  BY <1>1, <1>4 DEF AreaVertexUpdates
<1>5. CASE loc # "E" /\ getDimension(target) = P
  BY <1>1, <1>5 DEF AreaVertexUpdates, P, L, A
<1>6. CASE loc # "E" /\ getDimension(target) = L
  BY <1>1, <1>6 DEF AreaVertexUpdates, P, L, A
<1>7. CASE loc = "B" /\ getDimension(target) = A
  BY <1>1, <1>7 DEF AreaVertexUpdates, P, L, A
<1>8. CASE loc = "I" /\ getDimension(target) = A
  BY <1>1, <1>8 DEF AreaVertexUpdates, P, L, A
<1> QED BY <1>2, <1>3, <1>4, <1>5, <1>6, <1>7, <1>8

LEMMA SegmentUpdatesTyped ==
  ASSUME a \in Geometry, b \in Geometry, NEW v
  PROVE  SegmentUpdates(v) \in Seq(Update)
<1>1. <<"I", "I", A>> \in Update /\ <<locateNode(a, v), locateNode(b, v), P>> \in Update
  BY UpdateTyped, LocateTyped DEF Location, Dimension
<1> QED BY <1>1 DEF SegmentUpdates

LEMMA ExteriorEmptyTyped ==
  ASSUME NEW isA \in BOOLEAN, NEW g \in Geometry
  PROVE  ExteriorEmpty(isA, g) \in Seq(Update)
<1>1. <<"I", "E", P>> \in Update /\ <<"B", "E", P>> \in Update /\ <<"I", "E", L>> \in Update
      /\ <<"B", "E", L>> \in Update /\ <<"I", "E", A>> \in Update
  BY UpdateTyped DEF Location, Dimension
<1>2. getDimension(g) \in {P, L, A}
  BY ShapeTypes
<1> DEFINE us == CASE getDimension(g) = P -> << <<"I", "E", P>> >>
             [] getDimension(g) = L ->
                  (IF hasBoundary(g) THEN << <<"B", "E", P>> >> ELSE <<>>) \o << <<"I", "E", L>> >>
             [] getDimension(g) = A -> << <<"B", "E", L>>, <<"I", "E", A>> >>
<1>3. us \in Seq(Update)
  BY <1>1, <1>2 DEF P, L, A
<1> QED BY <1>3, OrientedTyped DEF ExteriorEmpty

LEMMA ExteriorDimsTyped ==
  ASSUME a \in Geometry, b \in Geometry, NEW dA \in Dimension, NEW dB \in Dimension
  PROVE  ExteriorDims(dA, dB) \in Seq(Update)
<1>1. <<"E", "I", L>> \in Update /\ <<"I", "E", L>> \in Update /\ <<"E", "I", A>> \in Update
      /\ <<"E", "B", L>> \in Update /\ <<"I", "E", A>> \in Update /\ <<"B", "E", L>> \in Update
  BY UpdateTyped DEF Location, Dimension
<1> DEFINE ofA0 == IF dA # None THEN ExteriorEmpty(TRUE, a) ELSE <<>>
           ofB0 == IF dB # None THEN ExteriorEmpty(FALSE, b) ELSE <<>>
           both == ofA0 \o ofB0
<1>2. ofA0 \in Seq(Update) /\ ofB0 \in Seq(Update)
  <2>1. ExteriorEmpty(TRUE, a) \in Seq(Update) /\ ExteriorEmpty(FALSE, b) \in Seq(Update)
    BY ExteriorEmptyTyped
  <2>2. <<>> \in Seq(Update)
    OBVIOUS
  <2> QED BY <2>1, <2>2
<1> HIDE DEF ofA0, ofB0
<1>3. both \in Seq(Update)
  BY <1>2
<1>4. CASE dA = None \/ dB = None
  <2>1. ExteriorDims(dA, dB) = both
    BY <1>4 DEF ExteriorDims, None, P, L, A, ofA0, ofB0
  <2> QED BY <1>3, <2>1
<1>5. CASE dA = P /\ dB = L
  <2>1. ExteriorDims(dA, dB) = << <<"E", "I", L>> >>
    BY <1>5 DEF ExteriorDims, P, L, A, None
  <2> QED BY <1>1, <2>1
<1>6. CASE dA = L /\ dB = P
  <2>1. ExteriorDims(dA, dB) = << <<"I", "E", L>> >>
    BY <1>6 DEF ExteriorDims, P, L, A, None
  <2> QED BY <1>1, <2>1
<1>7. CASE dA = P /\ dB = A
  <2>1. ExteriorDims(dA, dB) = << <<"E", "I", A>>, <<"E", "B", L>> >>
    BY <1>7 DEF ExteriorDims, P, L, A, None
  <2> QED BY <1>1, <2>1
<1>8. CASE dA = A /\ dB = P
  <2>1. ExteriorDims(dA, dB) = << <<"I", "E", A>>, <<"B", "E", L>> >>
    BY <1>8 DEF ExteriorDims, P, L, A, None
  <2> QED BY <1>1, <2>1
<1>9. CASE dA = L /\ dB = A
  <2>1. ExteriorDims(dA, dB) = << <<"E", "I", A>> >>
    BY <1>9 DEF ExteriorDims, P, L, A, None
  <2> QED BY <1>1, <2>1
<1>10. CASE dA = A /\ dB = L
  <2>1. ExteriorDims(dA, dB) = << <<"I", "E", A>> >>
    BY <1>10 DEF ExteriorDims, P, L, A, None
  <2> QED BY <1>1, <2>1
<1>11. CASE dA = dB /\ dA # None
  <2>1. CASE dA = P
    BY <1>11, <2>1 DEF ExteriorDims, P, L, A, None
  <2>2. CASE dA = L
    BY <1>11, <2>2 DEF ExteriorDims, P, L, A, None
  <2>3. CASE dA = A
    BY <1>11, <2>3 DEF ExteriorDims, P, L, A, None
  <2> QED BY <1>11, <2>1, <2>2, <2>3 DEF Dimension
<1> QED BY <1>4, <1>5, <1>6, <1>7, <1>8, <1>9, <1>10, <1>11 DEF Dimension

------------------------------------------------------------------------------
(***************************************************************************)
(* Numbers, and what is computed step by step.                             *)
(***************************************************************************)
\* Any set of numbers that is not empty has a least one.
LEMMA LeastElement ==
  ASSUME NEW T \in SUBSET Nat, T # {}
  PROVE  \E x \in T : \A y \in T : x <= y
<1> DEFINE Smaller == {ss \in Nat \X Nat : ss[1] < ss[2]}
<1>1. IsWellFoundedOn(Smaller, Nat)
  BY NatLessThanWellFounded, Zenon DEF OpToRel
<1>2. \E x \in T : \A y \in T : ~(<<y, x>> \in Smaller)
  <2> HIDE DEF Smaller
  <2> QED BY <1>1, WFMin, Zenon
<1>3. PICK x \in T : \A y \in T : ~(<<y, x>> \in Smaller)
  BY <1>2
<1>4. ASSUME NEW y \in T PROVE x <= y
  <2>1. ~(y < x)
    BY <1>3
  <2> QED BY <2>1
<1> QED BY <1>4

\* A set of numbers up to n that is not empty has a greatest one.
LEMMA GreatestElement ==
  ASSUME NEW n \in Nat, NEW T \in SUBSET (1..n), T # {}
  PROVE  \E x \in T : \A y \in T : y <= x
<1> DEFINE U == {m \in 0..n : n - m \in T}
<1>1. PICK t : t \in T
  OBVIOUS
<1>2. t \in 1..n /\ n - t \in 0..n /\ n - (n - t) = t
  BY <1>1
<1>3. U # {} /\ U \in SUBSET Nat
  <2>1. n - t \in U
    BY <1>1, <1>2
  <2> QED BY <2>1
<1> HIDE DEF U
<1>4. PICK m \in U : \A k \in U : m <= k
  BY <1>3, LeastElement
<1>5. m \in 0..n /\ n - m \in T
  BY <1>4 DEF U
<1>6. ASSUME NEW y \in T PROVE y <= n - m
  <2>1. y \in 1..n /\ n - y \in 0..n /\ n - (n - y) = y
    OBVIOUS
  <2>2. n - y \in U
    BY <2>1 DEF U
  <2> QED BY <1>4, <1>5, <2>1, <2>2
<1> QED BY <1>5, <1>6

\* What holds at first, and with each step for the next, holds up to n.
LEMMA StepByStep ==
  ASSUME NEW n \in Nat, NEW G, 0 \in G, \A k \in 1..n : k - 1 \in G => k \in G
  PROVE  \A k \in 0..n : k \in G
<1> DEFINE T == {k \in 0..n : k \notin G}
<1> SUFFICES ASSUME T # {} PROVE FALSE
  OBVIOUS
<1>1. PICK m \in T : \A y \in T : m <= y
  <2>1. T \in SUBSET Nat
    OBVIOUS
  <2> HIDE DEF T
  <2> QED BY <2>1, LeastElement
<1>2. m \in 1..n /\ m - 1 \in 0..n /\ m - 1 \notin T
  BY <1>1
<1> QED BY <1>1, <1>2

\* A function defined by its value at 0 and steps from one value to the next.
StepsTo(n, S, start, go, f) ==
  /\ f \in [0..n -> S]
  /\ \A k \in 0..n : f[k] = IF k = 0 THEN start ELSE go[k][f[k - 1]]

\* Such a function exists.
LEMMA StepsExist ==
  ASSUME NEW n \in Nat, NEW S, NEW start \in S, NEW go \in [1..n -> [S -> S]]
  PROVE  \E f : StepsTo(n, S, start, go, f)
<1> DEFINE G == {k \in 0..n : \E f : StepsTo(k, S, start, go, f)}
<1>1. 0 \in G
  <2>1. StepsTo(0, S, start, go, [k \in 0..0 |-> start])
    BY DEF StepsTo
  <2> QED BY <2>1
<1>2. ASSUME NEW k \in 1..n, k - 1 \in G PROVE k \in G
  <2>1. PICK f : StepsTo(k - 1, S, start, go, f)
    BY <1>2
  <2> DEFINE last == go[k][f[k - 1]]
             h == [m \in 0..k |-> IF m = k THEN last ELSE f[m]]
  <2>2. k - 1 \in 0..(k - 1) /\ \A m \in 0..k : m = k \/ m \in 0..(k - 1)
    OBVIOUS
  <2>3. f[k - 1] \in S
    BY <2>1, <2>2 DEF StepsTo
  <2>4. last \in S
    BY <2>3
  <2>5. h \in [0..k -> S]
    <3> HIDE DEF last
    <3> QED BY <2>1, <2>2, <2>4 DEF StepsTo
  <2>6. ASSUME NEW m \in 0..k PROVE h[m] = IF m = 0 THEN start ELSE go[m][h[m - 1]]
    <3>1. CASE m = k
      <4>1. k - 1 \in 0..k /\ k - 1 # k /\ m # 0
        BY <3>1
      <4> QED BY <3>1, <4>1
    <3>2. CASE m # k
      <4>1. m \in 0..(k - 1) /\ (m # 0 => m - 1 \in 0..k /\ m - 1 # k)
        BY <2>2, <3>2
      <4>2. f[m] = IF m = 0 THEN start ELSE go[m][f[m - 1]]
        BY <2>1, <4>1 DEF StepsTo
      <4> QED BY <3>2, <4>1, <4>2
    <3> QED BY <3>1, <3>2
  <2>7. StepsTo(k, S, start, go, h)
    <3> HIDE DEF h
    <3> QED BY <2>5, <2>6 DEF StepsTo
  <2> QED BY <2>7
<1>3. \A k \in 0..n : k \in G
  <2> HIDE DEF G
  <2> QED BY <1>1, <1>2, StepByStep
<1>4. n \in 0..n
  OBVIOUS
<1> QED BY <1>3, <1>4

\* What does not change from one number to the next does not change.
LEMMA Constant ==
  ASSUME NEW lo \in Int, NEW hi \in Int, NEW Q, \A k \in (lo + 1)..hi : Q[k] = Q[k - 1]
  PROVE  \A k \in lo..hi : Q[k] = Q[lo]
<1> SUFFICES ASSUME lo <= hi PROVE \A k \in lo..hi : Q[k] = Q[lo]
  OBVIOUS
<1> DEFINE n == hi - lo
           G == {m \in 0..n : Q[lo + m] = Q[lo]}
<1>1. n \in Nat
  OBVIOUS
<1>2. 0 \in G
  OBVIOUS
<1>3. ASSUME NEW m \in 1..n, m - 1 \in G PROVE m \in G
  <2>1. lo + m \in (lo + 1)..hi /\ (lo + m) - 1 = lo + (m - 1)
    OBVIOUS
  <2>2. Q[lo + m] = Q[lo + (m - 1)]
    BY <2>1
  <2> QED BY <1>3, <2>2
<1>4. \A m \in 0..n : m \in G
  <2> HIDE DEF G, n
  <2> QED BY <1>1, <1>2, <1>3, StepByStep
<1>5. ASSUME NEW k \in lo..hi PROVE Q[k] = Q[lo]
  <2>1. k - lo \in 0..n /\ lo + (k - lo) = k
    OBVIOUS
  <2> QED BY <1>4, <2>1
<1> QED BY <1>5

------------------------------------------------------------------------------
(***************************************************************************)
(* Places around a node, numbered from 1 to n.                             *)
(***************************************************************************)
Before(n, k) == IF k = 1 THEN n ELSE k - 1

\* From place i on, but before place j.
InSector(i, j, k) == IF i < j THEN i <= k /\ k < j ELSE i <= k \/ k < j

\* The place of W before or after i.
IsPrevious(W, i, k) ==
  /\ k \in W
  /\ IF k < i THEN \A x \in W : ~(k < x /\ x < i) ELSE \A x \in W : i <= x /\ x <= k
IsNext(W, i, k) ==
  /\ k \in W
  /\ IF i < k THEN \A x \in W : ~(i < x /\ x < k) ELSE \A x \in W : k <= x /\ x <= i

\* Where only two places change something, it holds from one to the other.
LEMMA TwoChanges ==
  ASSUME NEW n \in Nat, NEW i \in 1..n, NEW j \in 1..n, i # j, NEW I,
         i \in I, \A k \in 1..n : ~(k \in I <=> Before(n, k) \in I) <=> k \in {i, j}
  PROVE  \A k \in 1..n : k \in I <=> InSector(i, j, k)
<1> DEFINE Q == [k \in 1..n |-> IF k \in I THEN 1 ELSE 0]
<1>c. \A k \in 1..n : Before(n, k) \in 1..n
  BY DEF Before
<1>d. \A k \in 1..n : Q[k] # Q[Before(n, k)] <=> k \in {i, j}
  <2> TAKE k \in 1..n
  <2>1. ~(k \in I <=> Before(n, k) \in I) <=> k \in {i, j}
    OBVIOUS
  <2>2. Q[k] = (IF k \in I THEN 1 ELSE 0) /\ Q[Before(n, k)] = (IF Before(n, k) \in I THEN 1 ELSE 0)
    BY <1>c
  <2> HIDE DEF Q
  <2> QED BY <2>1, <2>2
<1>e. Q[i] = 1 /\ (\A k \in 1..n : Q[k] \in {0, 1}) /\ \A k \in 1..n : Q[k] = 1 <=> k \in I
  OBVIOUS
<1> HIDE DEF Q
<1>0. \A k \in 2..n : k \in 1..n /\ Before(n, k) = k - 1 /\ k - 1 \in 1..n
  BY DEF Before
<1>a. 1 \in 1..n /\ n \in 1..n /\ Before(n, 1) = n
  BY DEF Before
<1>b. i \in Int /\ j \in Int /\ n \in Int /\ i - 1 \in Int /\ j - 1 \in Int /\ 1 \in Int
  OBVIOUS
<1>1. \A k \in 2..n : k # i /\ k # j => Q[k] = Q[k - 1]
  BY <1>0, <1>d
<1>2. 1 # i /\ 1 # j => Q[1] = Q[n]
  BY <1>a, <1>d
<1>3. CASE i < j
  <2>1. \A k \in i..(j - 1) : Q[k] = Q[i]
    <3>1. \A k \in (i + 1)..(j - 1) : k \in 2..n /\ k # i /\ k # j
      BY <1>3
    <3>2. \A k \in (i + 1)..(j - 1) : Q[k] = Q[k - 1]
      BY <1>1, <3>1
    <3>3. 1 \in Int /\ i \in Int /\ j \in Int /\ n \in Int /\ i - 1 \in Int /\ j - 1 \in Int
      BY <1>b
    <3> QED BY ONLY <3>2, <3>3, Constant
  <2>2. \A k \in j..n : Q[k] = Q[j]
    <3>1. \A k \in (j + 1)..n : k \in 2..n /\ k # i /\ k # j
      BY <1>3
    <3>2. \A k \in (j + 1)..n : Q[k] = Q[k - 1]
      BY <1>1, <3>1
    <3>3. 1 \in Int /\ i \in Int /\ j \in Int /\ n \in Int /\ i - 1 \in Int /\ j - 1 \in Int
      BY <1>b
    <3> QED BY ONLY <3>2, <3>3, Constant
  <2>3. \A k \in 1..(i - 1) : Q[k] = Q[1]
    <3>1. \A k \in (1 + 1)..(i - 1) : k \in 2..n /\ k # i /\ k # j
      BY <1>3
    <3>2. \A k \in (1 + 1)..(i - 1) : Q[k] = Q[k - 1]
      BY <1>1, <3>1
    <3>3. 1 \in Int /\ i \in Int /\ j \in Int /\ n \in Int /\ i - 1 \in Int /\ j - 1 \in Int
      BY <1>b
    <3> QED BY ONLY <3>2, <3>3, Constant
  <2>4. Q[j] = 0
    <3>1. j \in 2..n /\ j - 1 \in i..(j - 1)
      BY <1>3
    <3>2. Q[j] # Q[j - 1]
      BY <1>0, <1>d, <3>1
    <3> QED BY <1>e, <2>1, <3>1, <3>2
  <2>5. i > 1 => Q[1] = 0
    <3>1. n \in j..n /\ (i > 1 => 1 # i /\ 1 # j)
      BY <1>3
    <3> QED BY <1>2, <2>2, <2>4, <3>1
  <2>6. ASSUME NEW k \in 1..n PROVE k \in I <=> InSector(i, j, k)
    <3>1. \/ k \in i..(j - 1) /\ InSector(i, j, k)
          \/ k \in j..n /\ ~InSector(i, j, k)
          \/ k \in 1..(i - 1) /\ i > 1 /\ ~InSector(i, j, k)
      BY <1>3 DEF InSector
    <3> QED BY <1>e, <2>1, <2>2, <2>3, <2>4, <2>5, <3>1
  <2> QED BY <2>6
<1>4. CASE j < i
  <2>1. \A k \in i..n : Q[k] = Q[i]
    <3>1. \A k \in (i + 1)..n : k \in 2..n /\ k # i /\ k # j
      BY <1>4
    <3>2. \A k \in (i + 1)..n : Q[k] = Q[k - 1]
      BY <1>1, <3>1
    <3>3. 1 \in Int /\ i \in Int /\ j \in Int /\ n \in Int /\ i - 1 \in Int /\ j - 1 \in Int
      BY <1>b
    <3> QED BY ONLY <3>2, <3>3, Constant
  <2>2. \A k \in j..(i - 1) : Q[k] = Q[j]
    <3>1. \A k \in (j + 1)..(i - 1) : k \in 2..n /\ k # i /\ k # j
      BY <1>4
    <3>2. \A k \in (j + 1)..(i - 1) : Q[k] = Q[k - 1]
      BY <1>1, <3>1
    <3>3. 1 \in Int /\ i \in Int /\ j \in Int /\ n \in Int /\ i - 1 \in Int /\ j - 1 \in Int
      BY <1>b
    <3> QED BY ONLY <3>2, <3>3, Constant
  <2>3. \A k \in 1..(j - 1) : Q[k] = Q[1]
    <3>1. \A k \in (1 + 1)..(j - 1) : k \in 2..n /\ k # i /\ k # j
      BY <1>4
    <3>2. \A k \in (1 + 1)..(j - 1) : Q[k] = Q[k - 1]
      BY <1>1, <3>1
    <3>3. 1 \in Int /\ i \in Int /\ j \in Int /\ n \in Int /\ i - 1 \in Int /\ j - 1 \in Int
      BY <1>b
    <3> QED BY ONLY <3>2, <3>3, Constant
  <2>4. j > 1 => Q[1] = 1
    <3>1. n \in i..n /\ (j > 1 => 1 # i /\ 1 # j)
      BY <1>4
    <3> QED BY <1>e, <1>2, <2>1, <3>1
  <2>5. Q[j] = 0
    <3>1. CASE j = 1
      <4>1. n \in i..n /\ Q[1] # Q[n]
        BY <1>4, <1>a, <1>d, <3>1
      <4> QED BY <1>e, <2>1, <3>1, <4>1
    <3>2. CASE j # 1
      <4>1. j \in 2..n /\ j - 1 \in 1..(j - 1) /\ j > 1
        BY <3>2
      <4>2. Q[j] # Q[j - 1]
        BY <1>0, <1>d, <4>1
      <4> QED BY <1>e, <2>3, <2>4, <4>1, <4>2
    <3> QED BY <3>1, <3>2
  <2>6. ASSUME NEW k \in 1..n PROVE k \in I <=> InSector(i, j, k)
    <3>1. \/ k \in i..n /\ InSector(i, j, k)
          \/ k \in j..(i - 1) /\ ~InSector(i, j, k)
          \/ k \in 1..(j - 1) /\ j > 1 /\ InSector(i, j, k)
      BY <1>4 DEF InSector
    <3> QED BY <1>e, <2>1, <2>2, <2>3, <2>4, <2>5, <3>1
  <2> QED BY <2>6
<1> QED BY <1>3, <1>4

\* Behind a place of W nothing changes before the next one.
LEMMA NoChangeBehind ==
  ASSUME NEW n \in Nat, NEW W \in SUBSET (1..n), NEW i \in 1..n, i \notin W, NEW k, IsPrevious(W, i, k),
         NEW Q, \A m \in 1..n : Q[m] # Q[Before(n, m)] => m \in W
  PROVE  Q[i] = Q[k] /\ Q[Before(n, i)] = Q[k]
<1>0. \A m \in 2..n : m \in 1..n /\ Before(n, m) = m - 1
  BY DEF Before
<1>1. k \in W /\ k \in 1..n /\ k # i
  BY DEF IsPrevious
<1>2. Q[Before(n, i)] = Q[i]
  OBVIOUS
<1>3. CASE k < i
  <2>1. \A m \in (k + 1)..i : m \in 2..n /\ m \notin W
    <3>1. \A m \in (k + 1)..i : m \in 2..n /\ (m = i \/ (k < m /\ m < i))
      BY <1>1, <1>3
    <3> QED BY <1>3, <3>1 DEF IsPrevious
  <2>2. \A m \in (k + 1)..i : Q[m] = Q[m - 1]
    BY <1>0, <2>1
  <2>3. i \in k..i /\ k \in Int /\ i \in Int
    BY <1>1, <1>3
  <2>4. Q[i] = Q[k]
    BY <2>2, <2>3, Constant
  <2> QED BY <1>2, <2>4
<1>4. CASE k > i
  <2>0. \A x \in W : i <= x /\ x <= k
    BY <1>1, <1>4 DEF IsPrevious
  <2>1. \A m \in (k + 1)..n : m \in 2..n /\ m \notin W
    BY <1>1, <2>0
  <2>2. \A m \in (1 + 1)..i : m \in 2..n /\ m \notin W
    <3>1. \A m \in (1 + 1)..i : m \in 2..n /\ (m < i \/ m = i)
      OBVIOUS
    <3> QED BY <2>0, <3>1
  <2>3. Q[n] = Q[k]
    <3>1. \A m \in (k + 1)..n : Q[m] = Q[m - 1]
      BY <1>0, <2>1
    <3>2. n \in k..n /\ k \in Int
      BY <1>1
    <3> QED BY <3>1, <3>2, Constant
  <2>4. Q[i] = Q[1]
    <3>1. \A m \in (1 + 1)..i : Q[m] = Q[m - 1]
      BY <1>0, <2>2
    <3>2. i \in 1..i
      OBVIOUS
    <3> QED BY <3>1, <3>2, Constant
  <2>5. Q[1] = Q[n]
    <3>1. 1 \in 1..n /\ 1 \notin W /\ Before(n, 1) = n
      BY <2>0 DEF Before
    <3> QED BY <3>1
  <2> QED BY <1>2, <2>3, <2>4, <2>5
<1> QED BY <1>1, <1>3, <1>4

\* A sector that begins and ends at places of W reaches as far as the next.
LEMMA ReachesForward ==
  ASSUME NEW n \in Nat, NEW W \in SUBSET (1..n), NEW i \in W, NEW o \in W, o # i,
         NEW k, IsPrevious(W, i, k), NEW s \in W, NEW t \in W, InSector(s, t, k)
  PROVE  InSector(s, t, Before(n, i))
<1>1. k \in 1..n /\ i \in 1..n /\ s \in 1..n /\ t \in 1..n /\ o \in 1..n
  BY DEF IsPrevious
<1>2. CASE k < i
  <2>1. ~(k < t /\ t < i) /\ ~(k < s /\ s < i)
    BY <1>2 DEF IsPrevious
  <2> QED BY <1>1, <1>2, <2>1 DEF InSector, Before
<1>3. CASE k >= i
  <2>1. i <= t /\ t <= k /\ i <= s /\ s <= k /\ i <= o /\ o <= k
    BY <1>1, <1>3 DEF IsPrevious
  <2> QED BY <1>1, <1>3, <2>1 DEF InSector, Before
<1> QED BY <1>1, <1>2, <1>3

\* The same in the other direction.
LEMMA ReachesBack ==
  ASSUME NEW n \in Nat, NEW W \in SUBSET (1..n), NEW i \in W, NEW o \in W, o # i,
         NEW k, IsNext(W, i, k), NEW s \in W, NEW t \in W, InSector(s, t, Before(n, k))
  PROVE  InSector(s, t, i)
<1>1. k \in 1..n /\ i \in 1..n /\ s \in 1..n /\ t \in 1..n /\ o \in 1..n
  BY DEF IsNext
<1>2. CASE i < k
  <2>1. ~(i < t /\ t < k) /\ ~(i < s /\ s < k)
    BY <1>2 DEF IsNext
  <2> QED BY <1>1, <1>2, <2>1 DEF InSector, Before
<1>3. CASE i >= k
  <2>1. k <= t /\ t <= i /\ k <= s /\ s <= i /\ k <= o /\ o <= i
    BY <1>1, <1>3 DEF IsNext
  <2> QED BY <1>1, <1>3, <2>1 DEF InSector, Before
<1> QED BY <1>1, <1>2, <1>3

------------------------------------------------------------------------------
(***************************************************************************)
(* Cells of the plane.                                                     *)
(***************************************************************************)
LEMMA DartOf ==
  ASSUME NEW u, NEW w, {u, w} \in Edge
  PROVE  <<u, w>> \in Dart /\ <<w, u>> \in Dart /\ u # w /\ u \in Vertex /\ w \in Vertex
<1>1. PICK d \in Dart : {u, w} = {d[1], d[2]}
  BY DEF Edge
<1>2. d \in Vertex \X Vertex /\ d[1] # d[2] /\ <<d[2], d[1]>> \in Dart
  BY SubdivisionAssumption
<1>3. d = <<d[1], d[2]>>
  BY <1>2
<1>4. (u = d[1] /\ w = d[2]) \/ (u = d[2] /\ w = d[1])
  BY <1>1, <1>2
<1> QED BY <1>2, <1>3, <1>4

\* What a dart has: its edge, its ends, the faces on its two sides.
LEMMA EdgeOfDart ==
  ASSUME NEW u, NEW w, <<u, w>> \in Dart
  PROVE  {u, w} \in Edge
BY DEF Edge

LEMMA EdgesOfVertices == UNION Edge \subseteq Vertex
<1> SUFFICES ASSUME NEW e \in Edge, NEW u \in e PROVE u \in Vertex
  OBVIOUS
<1>1. PICK d \in Dart : e = {d[1], d[2]}
  BY DEF Edge
<1>2. d \in Vertex \X Vertex
  BY SubdivisionAssumption
<1> QED BY <1>1, <1>2

LEMMA SidesAre ==
  ASSUME NEW u, NEW w, <<u, w>> \in Dart
  PROVE  /\ SidesOf({u, w}) = {LeftFace[<<u, w>>], LeftFace[<<w, u>>]}
         /\ <<w, u>> \in Dart
         /\ SidesOf({u, w}) \subseteq Face
         /\ SidesOf({u, w}) \subseteq FacesAround(u)
<1>1. {u, w} \in Edge /\ <<w, u>> \in Dart /\ u # w
  BY EdgeOfDart, DartOf
<1>2. ASSUME NEW d \in Dart, {d[1], d[2]} = {u, w} PROVE d \in {<<u, w>>, <<w, u>>}
  <2>1. d \in Vertex \X Vertex /\ d[1] # d[2]
    BY SubdivisionAssumption
  <2>2. d = <<d[1], d[2]>>
    BY <2>1
  <2>3. (u = d[1] /\ w = d[2]) \/ (u = d[2] /\ w = d[1])
    BY <1>2, <2>1
  <2> QED BY <2>2, <2>3
<1>3. {<<u, w>>[1], <<u, w>>[2]} = {u, w} /\ {<<w, u>>[1], <<w, u>>[2]} = {u, w}
  OBVIOUS
<1>4. {d \in Dart : {d[1], d[2]} = {u, w}} = {<<u, w>>, <<w, u>>}
  BY <1>1, <1>2, <1>3
<1>5. SidesOf({u, w}) = {LeftFace[<<u, w>>], LeftFace[<<w, u>>]}
  BY <1>4 DEF SidesOf
<1>6. u \in {<<u, w>>[1], <<u, w>>[2]} /\ u \in {<<w, u>>[1], <<w, u>>[2]}
  OBVIOUS
<1>7. LeftFace[<<u, w>>] \in FacesAround(u) /\ LeftFace[<<w, u>>] \in FacesAround(u)
  BY <1>1, <1>6 DEF FacesAround
<1> QED BY <1>1, <1>5, <1>7 DEF Face

LEMMA PolygonInside == \A g \in Geometry : \A p \in Shape[g].polygons : p.faces \subseteq Interior(g) /\ ValidPolygon(p)
BY ShapeAssumption DEF Interior

\* An edge is on a polygon if the polygon is on one side of it only; the
\* other polygons of the geometry are then on neither side.
LEMMA PolygonEdgeSides ==
  ASSUME NEW g \in Geometry, NEW p \in Shape[g].polygons, NEW u, NEW w, {u, w} \in PolygonEdges(p)
  PROVE  /\ <<u, w>> \in Dart
         /\ LeftFace[<<u, w>>] \in Interior(g) <=> LeftFace[<<w, u>>] \notin Interior(g)
         /\ LeftFace[<<u, w>>] \in p.faces <=> LeftFace[<<u, w>>] \in Interior(g)
<1>1. {u, w} \in Edge /\ SidesOf({u, w}) \cap p.faces # {} /\ ~(SidesOf({u, w}) \subseteq p.faces)
  BY PolygonInside DEF ValidPolygon
<1>2. <<u, w>> \in Dart /\ <<w, u>> \in Dart
  BY <1>1, DartOf
<1>3. SidesOf({u, w}) = {LeftFace[<<u, w>>], LeftFace[<<w, u>>]}
  BY <1>2, SidesAre
<1>4. ASSUME NEW x, NEW y, SidesOf({u, w}) = {x, y}, x \in p.faces PROVE y \notin Interior(g)
  <2> SUFFICES ASSUME y \in Interior(g) PROVE FALSE
    OBVIOUS
  <2>1. PICK q \in Shape[g].polygons : y \in q.faces
    BY DEF Interior
  <2>2. q # p
    BY <1>1, <1>4, <2>1
  <2>3. p.faces \cap q.faces = {} /\ PolygonEdges(p) \cap PolygonEdges(q) = {}
    BY <2>2, ShapeAssumption
  <2>4. x \notin q.faces
    BY <1>4, <2>3
  <2>5. {u, w} \in PolygonEdges(q)
    BY <1>1, <1>4, <2>1, <2>4, PolygonInside DEF ValidPolygon
  <2> QED BY <2>3, <2>5
<1>5. CASE LeftFace[<<u, w>>] \in p.faces
  BY <1>2, <1>3, <1>4, <1>5, PolygonInside
<1>6. CASE LeftFace[<<w, u>>] \in p.faces
  <2>1. SidesOf({u, w}) = {LeftFace[<<w, u>>], LeftFace[<<u, w>>]}
    BY <1>3
  <2>2. LeftFace[<<u, w>>] \notin Interior(g)
    BY <1>4, <1>6, <2>1
  <2> QED BY <1>2, <1>6, <2>2, PolygonInside
<1> QED BY <1>1, <1>3, <1>5, <1>6

\* An edge of no polygon has both sides inside or both outside.
LEMMA OtherEdgeSides ==
  ASSUME NEW g \in Geometry, NEW u, NEW w, <<u, w>> \in Dart,
         \A p \in Shape[g].polygons : {u, w} \notin PolygonEdges(p)
  PROVE  LeftFace[<<u, w>>] \in Interior(g) <=> LeftFace[<<w, u>>] \in Interior(g)
<1>1. {u, w} \in Edge /\ SidesOf({u, w}) = {LeftFace[<<u, w>>], LeftFace[<<w, u>>]}
  BY EdgeOfDart, SidesAre
<1>2. ASSUME NEW x, NEW y, SidesOf({u, w}) = {x, y}, x \in Interior(g) PROVE y \in Interior(g)
  <2>1. PICK p \in Shape[g].polygons : x \in p.faces
    BY <1>2 DEF Interior
  <2>2. SidesOf({u, w}) \subseteq p.faces
    BY <1>1, <1>2, <2>1, PolygonInside DEF ValidPolygon
  <2> QED BY <1>2, <2>2, PolygonInside
<1>3. SidesOf({u, w}) = {LeftFace[<<w, u>>], LeftFace[<<u, w>>]}
  BY <1>1
<1> QED BY <1>1, <1>2, <1>3

\* An edge is on the boundary if one side only is inside.
LEMMA EdgeLocations ==
  ASSUME NEW g \in Geometry, NEW u, NEW w, <<u, w>> \in Dart, hasDimension(g, A)
  PROVE  EdgeLocation(g, {u, w}) =
           IF LeftFace[<<u, w>>] \in Interior(g)
             THEN IF LeftFace[<<w, u>>] \in Interior(g) THEN "I" ELSE "B"
             ELSE IF LeftFace[<<w, u>>] \in Interior(g) THEN "B" ELSE "E"
<1>1. SidesOf({u, w}) = {LeftFace[<<u, w>>], LeftFace[<<w, u>>]}
  BY SidesAre
<1> QED BY <1>1 DEF EdgeLocation

------------------------------------------------------------------------------
(***************************************************************************)
(* Rings and lines.                                                        *)
(***************************************************************************)
LEMMA RingEdgesAre ==
  ASSUME NEW p, ValidPolygon(p), NEW i \in DOMAIN p.rings
  PROVE  /\ Len(p.rings[i]) \in Nat /\ Len(p.rings[i]) >= 3 /\ DOMAIN p.rings[i] = 1..Len(p.rings[i])
         /\ RingEdges(p.rings[i]) =
              {{p.rings[i][j], Cyclic(p.rings[i], j + 1)} : j \in DOMAIN p.rings[i]}
<1> DEFINE ring == p.rings[i]
           m == Len(ring)
           line == ring \o <<ring[1]>>
<1>1. ring \in Seq(Vertex) /\ m >= 3
  BY DEF ValidPolygon
<1>2. \A k, l \in DOMAIN ring : ring[k] = ring[l] => k = l
  BY DEF ValidPolygon
<1> HIDE DEF ring
<1>3. m \in Nat /\ DOMAIN ring = 1..m /\ ring[1] \in Vertex
  BY <1>1
<1>4. Len(line) = m + 1 /\ line[m + 1] = ring[1] /\ \A j \in 1..m : line[j] = ring[j]
  BY <1>1, <1>3
<1>a. m = Len(ring)
  OBVIOUS
<1> HIDE DEF line, m
<1>5. \A j \in 1..m : line[j + 1] = Cyclic(ring, j + 1)
  <2> TAKE j \in 1..m
  <2>1. CASE j = m
    BY <1>a, <1>3, <1>4, <2>1 DEF Cyclic
  <2>2. CASE j # m
    <3>1. j + 1 \in 1..m
      BY <1>3, <2>2
    <3> QED BY <1>a, <1>3, <1>4, <3>1 DEF Cyclic
  <2> QED BY <2>1, <2>2
<1>6. \A j \in 1..m : line[j] # line[j + 1]
  <2> TAKE j \in 1..m
  <2>1. CASE j = m
    <3>1. 1 \in 1..m /\ m \in 1..m /\ 1 # m
      BY <1>1, <1>3
    <3> QED BY <1>2, <1>3, <1>4, <2>1, <3>1
  <2>2. CASE j # m
    <3>1. j + 1 \in 1..m /\ j + 1 # j
      BY <1>3, <2>2
    <3> QED BY <1>2, <1>3, <1>4, <3>1
  <2> QED BY <2>1, <2>2
<1>7. {j \in 1..(Len(line) - 1) : line[j] # line[j + 1]} = 1..m
  BY <1>3, <1>4, <1>6
<1>8. LineEdges(line) = {{line[j], line[j + 1]} : j \in 1..m}
  BY <1>7 DEF LineEdges
<1>9. LineEdges(line) = {{ring[j], Cyclic(ring, j + 1)} : j \in 1..m}
  BY <1>4, <1>5, <1>8
<1> QED BY <1>1, <1>3, <1>9 DEF RingEdges, line, m, ring

\* The two edges of a ring at the place k.
LEMMA CornerOfRing ==
  ASSUME NEW p, ValidPolygon(p), NEW i \in DOMAIN p.rings, NEW k \in DOMAIN p.rings[i], NEW v, v = p.rings[i][k]
  PROVE  LET before == Cyclic(p.rings[i], k - 1) after == Cyclic(p.rings[i], k + 1)
         IN  /\ before # after
             /\ \A e : e \in PolygonEdges(p) /\ v \in e <=> e = {before, v} \/ e = {v, after}
<1> DEFINE ring == p.rings[i]
           m == Len(ring)
           before == Cyclic(ring, k - 1)
           after == Cyclic(ring, k + 1)
<1>1. /\ m \in Nat /\ m >= 3 /\ DOMAIN ring = 1..m
      /\ RingEdges(ring) = {{ring[j], Cyclic(ring, j + 1)} : j \in 1..m}
  BY RingEdgesAre
<1>2. \A j, l \in DOMAIN p.rings : \A x \in DOMAIN p.rings[j], y \in DOMAIN p.rings[l] :
        p.rings[j][x] = p.rings[l][y] => j = l /\ x = y
  BY DEF ValidPolygon
<1>3. k \in 1..m
  BY <1>1
<1> DEFINE kb == IF k = 1 THEN m ELSE k - 1
           ka == IF k = m THEN 1 ELSE k + 1
<1>4. kb \in 1..m /\ ka \in 1..m /\ kb # ka /\ kb # k /\ ka # k
  BY <1>1, <1>3
<1>5. before = ring[kb] /\ after = ring[ka] /\ Cyclic(ring, kb + 1) = v
  <2>1. k - 1 < 1 <=> k = 1
    BY <1>1, <1>3
  <2>2. k + 1 > m <=> k = m
    BY <1>1, <1>3
  <2>3. before = ring[kb]
    <3>1. CASE k = 1
      BY <1>1, <3>1 DEF Cyclic
    <3>2. CASE k # 1
      BY <1>1, <1>3, <2>1, <3>2 DEF Cyclic
    <3> QED BY <3>1, <3>2
  <2>4. after = ring[ka]
    <3>1. CASE k = m
      BY <1>1, <1>3, <3>1 DEF Cyclic
    <3>2. CASE k # m
      BY <1>1, <1>3, <2>2, <3>2 DEF Cyclic
    <3> QED BY <3>1, <3>2
  <2>5. Cyclic(ring, kb + 1) = v
    <3>1. CASE k = 1
      BY <1>1, <3>1 DEF Cyclic
    <3>2. CASE k # 1
      BY <1>1, <1>3, <3>2 DEF Cyclic
    <3> QED BY <3>1, <3>2
  <2> QED BY <2>3, <2>4, <2>5
<1> HIDE DEF ring, before, after, kb, ka
<1>6. before # after
  BY <1>1, <1>2, <1>4, <1>5 DEF ring
<1>7. {before, v} \in RingEdges(ring) /\ {v, after} \in RingEdges(ring)
  <2>1. {before, v} = {ring[kb], Cyclic(ring, kb + 1)}
    BY <1>5
  <2>2. {v, after} = {ring[k], Cyclic(ring, k + 1)}
    BY DEF ring, after
  <2> QED BY <1>1, <1>3, <1>4, <2>1, <2>2
<1>8. RingEdges(ring) \subseteq PolygonEdges(p)
  BY DEF PolygonEdges, ring
<1>9. ASSUME NEW e \in PolygonEdges(p), v \in e PROVE e = {before, v} \/ e = {v, after}
  <2>1. PICK l \in DOMAIN p.rings : e \in RingEdges(p.rings[l])
    BY DEF PolygonEdges
  <2>2. /\ Len(p.rings[l]) \in Nat /\ Len(p.rings[l]) >= 3 /\ DOMAIN p.rings[l] = 1..Len(p.rings[l])
        /\ RingEdges(p.rings[l]) = {{p.rings[l][j], Cyclic(p.rings[l], j + 1)} : j \in 1..Len(p.rings[l])}
    BY RingEdgesAre
  <2>3. PICK j \in 1..Len(p.rings[l]) : e = {p.rings[l][j], Cyclic(p.rings[l], j + 1)}
    BY <2>1, <2>2
  <2>4. PICK j1 \in 1..Len(p.rings[l]) :
          Cyclic(p.rings[l], j + 1) = p.rings[l][j1] /\ j1 = IF j = Len(p.rings[l]) THEN 1 ELSE j + 1
    <3> DEFINE j1 == IF j = Len(p.rings[l]) THEN 1 ELSE j + 1
    <3>1. j1 \in 1..Len(p.rings[l]) /\ Cyclic(p.rings[l], j + 1) = p.rings[l][j1]
      BY <2>2 DEF Cyclic
    <3> QED BY <3>1
  <2>5. v = p.rings[l][j] \/ v = p.rings[l][j1]
    BY <1>9, <2>3, <2>4
  <2>6. v = p.rings[i][k]
    OBVIOUS
  <2>7. CASE v = p.rings[l][j]
    <3>1. l = i /\ j = k
      BY <1>2, <2>2, <2>6, <2>7
    <3> QED BY <2>3, <3>1 DEF after, ring
  <2>8. CASE v = p.rings[l][j1]
    <3>1. l = i /\ j1 = k
      BY <1>2, <2>2, <2>6, <2>8
    <3>2. j = kb
      BY <1>1, <2>2, <2>4, <3>1 DEF kb, ring
    <3> QED BY <1>5, <2>3, <3>1, <3>2 DEF ring
  <2> QED BY <2>5, <2>7, <2>8
<1>10. \A e : e \in PolygonEdges(p) /\ v \in e <=> e = {before, v} \/ e = {v, after}
  BY <1>7, <1>8, <1>9
<1> QED BY <1>6, <1>10 DEF before, after, ring

------------------------------------------------------------------------------
(***************************************************************************)
(* The edges at a vertex, and the sectors that polygons occupy there.      *)
(***************************************************************************)
Count(v) == Cardinality(Neighbours(v))
IsAround(v, r) == v \in Vertex /\ r \in [1..Count(v) -> Neighbours(v)] /\ IsTurn(v, r)
FaceAt(v, r, k) == LeftFace[<<v, r[k]>>]

LEMMA AroundExists ==
  ASSUME NEW v \in Vertex
  PROVE  \E r : IsAround(v, r)
BY TurnAssumption DEF IsAround, Count

LEMMA NeighboursAre ==
  ASSUME NEW v, NEW u
  PROVE  u \in Neighbours(v) <=> <<v, u>> \in Dart
<1>1. ASSUME <<v, u>> \in Dart PROVE u \in Vertex
  BY <1>1, EdgeOfDart, DartOf
<1> QED BY <1>1 DEF Neighbours

LEMMA CountIsNat == \A v : Count(v) \in Nat /\ IsFiniteSet(Neighbours(v))
<1> TAKE v
<1>1. Neighbours(v) \in SUBSET Vertex
  BY DEF Neighbours
<1> QED BY <1>1, SubdivisionAssumption, FS_Subset, FS_CardinalityType DEF Count

\* The edges at v by place: the face before a place is that on the right.
LEMMA AroundFacts ==
  ASSUME NEW v, NEW r, IsAround(v, r)
  PROVE  /\ Count(v) \in Nat
         /\ \A k \in 1..Count(v) : /\ r[k] \in Neighbours(v) /\ <<v, r[k]>> \in Dart /\ <<r[k], v>> \in Dart
                                   /\ Before(Count(v), k) \in 1..Count(v)
                                   /\ LeftFace[<<r[k], v>>] = FaceAt(v, r, Before(Count(v), k))
                                   /\ FaceAt(v, r, k) \in Face
         /\ \A u \in Neighbours(v) : \E k \in 1..Count(v) : r[k] = u
         /\ \A j, k \in 1..Count(v) : r[j] = r[k] => j = k
         /\ \A j, k \in 1..Count(v) :
              compareAngle(v, r[j], r[k]) = IF j < k THEN -1 ELSE IF j > k THEN 1 ELSE 0
<1> DEFINE n == Count(v)
<1>0. n \in Nat
  BY CountIsNat
<1>1. r \in [1..n -> Neighbours(v)] /\ DOMAIN r = 1..n /\ v \in Vertex
  BY DEF IsAround
<1> HIDE DEF n
<1>2. Len(r) = n
  BY <1>0, <1>1
<1>3. \A j, k \in 1..n : compareAngle(v, r[j], r[k]) = IF j < k THEN -1 ELSE IF j > k THEN 1 ELSE 0
  BY <1>1 DEF IsAround, IsTurn
<1>4. \A u \in Neighbours(v) : \E k \in 1..n : r[k] = u
  BY <1>1 DEF IsAround, IsTurn
<1>5. ASSUME NEW j \in 1..n, NEW k \in 1..n, r[j] = r[k] PROVE j = k
  <2>1. compareAngle(v, r[j], r[k]) = 0
    <3>1. compareAngle(v, r[k], r[k]) = 0
      BY <1>0, <1>3
    <3> QED BY <1>5, <3>1
  <2> QED BY <1>0, <1>3, <2>1
<1>6. ASSUME NEW k \in 1..n
      PROVE  /\ <<v, r[k]>> \in Dart /\ <<r[k], v>> \in Dart /\ Before(n, k) \in 1..n
             /\ LeftFace[<<r[k], v>>] = FaceAt(v, r, Before(n, k)) /\ FaceAt(v, r, k) \in Face
  <2>1. <<v, r[k]>> \in Dart /\ <<r[k], v>> \in Dart
    BY <1>1, NeighboursAre, SidesAre
  <2>2. Before(n, k) \in 1..n
    BY <1>0 DEF Before
  <2>3. Cyclic(r, Before(n, k) + 1) = r[k]
    BY <1>0, <1>2 DEF Before, Cyclic
  <2>4. LeftFace[<<v, r[Before(n, k)]>>] = LeftFace[<<Cyclic(r, Before(n, k) + 1), v>>]
    BY <1>1, <2>2 DEF IsAround, IsTurn
  <2> QED BY <2>1, <2>2, <2>3, <2>4 DEF FaceAt, Face
<1> QED BY <1>0, <1>1, <1>3, <1>4, <1>5, <1>6 DEF n

------------------------------------------------------------------------------
AreaCorners(g, v) ==
  UNION {UNION {RingSections(polygon, polygon.rings[i], v) : i \in DOMAIN polygon.rings}
           : polygon \in Shape[g].polygons}
LineCorners(g, v) == UNION {LineSections(line, v) : line \in Shape[g].lines}

\* The sections at v are the corners of its polygons and of its lines.
LEMMA SectionsAre ==
  ASSUME NEW g, NEW v
  PROVE  /\ \A c : [dim |-> A, corner |-> c] \in SectionsAt(g, v) <=> c \in AreaCorners(g, v)
         /\ \A c : [dim |-> L, corner |-> c] \in SectionsAt(g, v) <=> c \in LineCorners(g, v)
         /\ \A s \in SectionsAt(g, v) :
              s.dim \in {L, A} /\ s = [dim |-> s.dim, corner |-> s.corner]
<1> DEFINE lines == {[dim |-> L, corner |-> c] : c \in LineCorners(g, v)}
           areas == {[dim |-> A, corner |-> c] : c \in AreaCorners(g, v)}
<1>1. SectionsAt(g, v) = lines \cup areas
  BY DEF SectionsAt, LineCorners, AreaCorners
<1>2. L # A
  BY DEF L, A
<1>3. \A c, d : [dim |-> A, corner |-> c] # [dim |-> L, corner |-> d]
  BY <1>2
<1>4. \A c, d : [dim |-> A, corner |-> c] = [dim |-> A, corner |-> d] => c = d
  OBVIOUS
<1>5. \A c, d : [dim |-> L, corner |-> c] = [dim |-> L, corner |-> d] => c = d
  OBVIOUS
<1>6. \A c : [dim |-> A, corner |-> c] \in lines \cup areas <=> c \in AreaCorners(g, v)
  BY <1>3, <1>4, Zenon
<1>7. \A c : [dim |-> L, corner |-> c] \in lines \cup areas <=> c \in LineCorners(g, v)
  BY <1>3, <1>5, Zenon
<1>8. \A s \in lines \cup areas : s.dim \in {L, A} /\ s = [dim |-> s.dim, corner |-> s.corner]
  OBVIOUS
<1> HIDE DEF lines, areas
<1> QED BY <1>1, <1>6, <1>7, <1>8

LEMMA AreaCornersAre ==
  ASSUME NEW g, NEW v, NEW c
  PROVE  c \in AreaCorners(g, v)
           <=> \E p \in Shape[g].polygons : \E i \in DOMAIN p.rings : c \in RingSections(p, p.rings[i], v)
BY DEF AreaCorners

LEMMA LineCornersAre ==
  ASSUME NEW g, NEW v, NEW c
  PROVE  c \in LineCorners(g, v) <=> \E line \in Shape[g].lines : c \in LineSections(line, v)
BY DEF LineCorners

\* p is between the edges i and j at v, and these are its edges there.
IsSector(p, v, r, i, j) ==
  /\ i # j
  /\ \A k \in 1..Count(v) : FaceAt(v, r, k) \in p.faces <=> InSector(i, j, k)
  /\ \A k \in 1..Count(v) : {v, r[k]} \in PolygonEdges(p) <=> k \in {i, j}

\* A polygon lies on the left of the first edge of a corner, and of those
\* that follow until the second one.
LEMMA SectorOf ==
  ASSUME NEW g \in Geometry, NEW p \in Shape[g].polygons, NEW m \in DOMAIN p.rings,
         NEW v, NEW r, IsAround(v, r), NEW c \in RingSections(p, p.rings[m], v)
  PROVE  \E i, j \in 1..Count(v) : IsSector(p, v, r, i, j) /\ c = <<r[i], r[j]>>
<1> DEFINE n == Count(v)
           ring == p.rings[m]
           I == {k \in 1..n : FaceAt(v, r, k) \in p.faces}
<1>0. ValidPolygon(p)
  BY PolygonInside
<1>1. PICK place \in DOMAIN ring :
        /\ ring[place] = v
        /\ c = IF InsideOnRight(p, Cyclic(ring, place - 1), v)
                 THEN <<Cyclic(ring, place - 1), Cyclic(ring, place + 1)>>
                 ELSE <<Cyclic(ring, place + 1), Cyclic(ring, place - 1)>>
  BY DEF RingSections
<1> DEFINE before == Cyclic(ring, place - 1)
           after == Cyclic(ring, place + 1)
<1>2. before # after /\ \A e : e \in PolygonEdges(p) /\ v \in e <=> e = {before, v} \/ e = {v, after}
  BY <1>0, <1>1, CornerOfRing
<1> HIDE DEF before, after, n
<1>3. /\ n \in Nat
      /\ \A k \in 1..n : /\ r[k] \in Neighbours(v) /\ <<v, r[k]>> \in Dart /\ <<r[k], v>> \in Dart
                         /\ Before(n, k) \in 1..n
                         /\ LeftFace[<<r[k], v>>] = FaceAt(v, r, Before(n, k))
      /\ \A u \in Neighbours(v) : \E k \in 1..n : r[k] = u
      /\ \A j, k \in 1..n : r[j] = r[k] => j = k
  BY AroundFacts DEF n
<1>4. before \in Neighbours(v) /\ after \in Neighbours(v)
  <2>1. {v, before} \in PolygonEdges(p) /\ {v, after} \in PolygonEdges(p)
    <3>1. {v, before} = {before, v}
      OBVIOUS
    <3> QED BY <1>2, <3>1
  <2>2. {v, before} \in Edge /\ {v, after} \in Edge
    BY <1>0, <2>1 DEF ValidPolygon
  <2> QED BY <2>2, DartOf, NeighboursAre
<1>5. PICK kb \in 1..n, ka \in 1..n : r[kb] = before /\ r[ka] = after /\ kb # ka
  BY <1>2, <1>3, <1>4
<1>6. \A k \in 1..n : {v, r[k]} \in PolygonEdges(p) <=> k \in {kb, ka}
  <2> TAKE k \in 1..n
  <2>1. v # r[k] /\ v # before /\ v # after
    BY <1>3, <1>4, EdgeOfDart, DartOf, NeighboursAre
  <2>2. {v, r[k]} \in PolygonEdges(p) <=> {v, r[k]} = {before, v} \/ {v, r[k]} = {v, after}
    BY <1>2
  <2>3. {v, r[k]} \in PolygonEdges(p) <=> r[k] = before \/ r[k] = after
    BY <2>1, <2>2
  <2> QED BY <1>3, <1>5, <2>3
<1>7. \A k \in 1..n : ~(k \in I <=> Before(n, k) \in I) <=> k \in {kb, ka}
  <2> TAKE k \in 1..n
  <2>1. <<v, r[k]>> \in Dart /\ {v, r[k]} \in Edge
    BY <1>3, EdgeOfDart
  <2>2. SidesOf({v, r[k]}) = {FaceAt(v, r, k), FaceAt(v, r, Before(n, k))}
    <3>1. SidesOf({v, r[k]}) = {LeftFace[<<v, r[k]>>], LeftFace[<<r[k], v>>]}
      BY <2>1, SidesAre
    <3> QED BY <1>3, <3>1 DEF FaceAt
  <2>3. {v, r[k]} \in PolygonEdges(p)
          <=> SidesOf({v, r[k]}) \cap p.faces # {} /\ ~(SidesOf({v, r[k]}) \subseteq p.faces)
    BY <1>0, <2>1 DEF ValidPolygon
  <2>4. ~(k \in I <=> Before(n, k) \in I) <=> ~(FaceAt(v, r, k) \in p.faces <=> FaceAt(v, r, Before(n, k)) \in p.faces)
    BY <1>3
  <2> QED BY <1>6, <2>2, <2>3, <2>4
<1>8. InsideOnRight(p, before, v) <=> kb \in I
  BY <1>5 DEF InsideOnRight, FaceAt
<1> HIDE DEF I
<1>9. CASE kb \in I
  <2>1. \A k \in 1..n : k \in I <=> InSector(kb, ka, k)
    BY <1>3, <1>5, <1>7, <1>9, TwoChanges
  <2>2. c = <<r[kb], r[ka]>>
    BY <1>1, <1>5, <1>8, <1>9 DEF before, after
  <2> QED BY <1>5, <1>6, <2>1, <2>2 DEF n, I, IsSector
<1>10. CASE kb \notin I
  <2> DEFINE O == (1..n) \ I
  <2>1. kb \in O /\ \A k \in 1..n : ~(k \in O <=> Before(n, k) \in O) <=> k \in {kb, ka}
    BY <1>3, <1>7, <1>10
  <2> HIDE DEF O
  <2>2. \A k \in 1..n : k \in O <=> InSector(kb, ka, k)
    BY <1>3, <1>5, <2>1, TwoChanges
  <2>3. ~InSector(kb, ka, ka)
    BY <1>3, <1>5 DEF InSector
  <2>4. ka \in I
    BY <1>5, <2>2, <2>3 DEF O
  <2>5. \A k \in 1..n : ~(k \in I <=> Before(n, k) \in I) <=> k \in {ka, kb}
    BY <1>7
  <2>6. \A k \in 1..n : k \in I <=> InSector(ka, kb, k)
    BY <1>3, <1>5, <2>4, <2>5, TwoChanges
  <2>7. c = <<r[ka], r[kb]>>
    BY <1>1, <1>5, <1>8, <1>10 DEF before, after
  <2>8. \A k \in 1..n : {v, r[k]} \in PolygonEdges(p) <=> k \in {ka, kb}
    BY <1>6
  <2>9. \A k \in 1..n : FaceAt(v, r, k) \in p.faces <=> InSector(ka, kb, k)
    BY <2>6 DEF I
  <2> QED BY <1>5, <2>7, <2>8, <2>9 DEF n, IsSector
<1> QED BY <1>9, <1>10

\* The corners of the polygons of g at v, by places.
Corners(g, v, r) ==
  {c \in (1..Count(v)) \X (1..Count(v)) :
     [dim |-> A, corner |-> <<r[c[1]], r[c[2]]>>] \in SectionsAt(g, v)}

\* From a corner's first edge to its second the geometry is inside.
LEMMA CornerSectors ==
  ASSUME NEW g \in Geometry, NEW v, NEW r, IsAround(v, r), NEW c \in Corners(g, v, r)
  PROVE  /\ c[1] \in 1..Count(v) /\ c[2] \in 1..Count(v) /\ c[1] # c[2] /\ hasDimension(g, A)
         /\ \A k \in 1..Count(v) : InSector(c[1], c[2], k) => FaceAt(v, r, k) \in Interior(g)
         /\ FaceAt(v, r, Before(Count(v), c[1])) \notin Interior(g)
         /\ FaceAt(v, r, c[2]) \notin Interior(g)
<1> DEFINE n == Count(v)
<1>1. c \in (1..n) \X (1..n) /\ [dim |-> A, corner |-> <<r[c[1]], r[c[2]]>>] \in SectionsAt(g, v)
  BY DEF Corners
<1>2. PICK p \in Shape[g].polygons : \E m \in DOMAIN p.rings : <<r[c[1]], r[c[2]]>> \in RingSections(p, p.rings[m], v)
  BY <1>1, SectionsAre, AreaCornersAre
<1>3. PICK m \in DOMAIN p.rings : <<r[c[1]], r[c[2]]>> \in RingSections(p, p.rings[m], v)
  BY <1>2
<1> HIDE DEF n
<1>a. PICK i0 \in 1..Count(v), j0 \in 1..Count(v) :
        IsSector(p, v, r, i0, j0) /\ <<r[c[1]], r[c[2]]>> = <<r[i0], r[j0]>>
  BY <1>3, SectorOf
<1>4. PICK i \in 1..n, j \in 1..n :
        /\ i # j /\ <<r[c[1]], r[c[2]]>> = <<r[i], r[j]>>
        /\ \A k \in 1..n : FaceAt(v, r, k) \in p.faces <=> InSector(i, j, k)
        /\ \A k \in 1..n : {v, r[k]} \in PolygonEdges(p) <=> k \in {i, j}
  BY <1>a DEF IsSector, n
<1>5. c[1] = i /\ c[2] = j
  <2>1. r[c[1]] = r[i] /\ r[c[2]] = r[j]
    BY <1>4
  <2> QED BY <1>1, <1>4, <2>1, AroundFacts DEF n
<1>6. p.faces \subseteq Interior(g) /\ Shape[g].polygons # {} /\ Shape[g].type = A
  BY PolygonInside, ShapeAssumption
<1>7. hasDimension(g, A)
  BY <1>6 DEF hasDimension, isEmpty
<1>8. \A k \in {i, j} : /\ LeftFace[<<v, r[k]>>] \in Interior(g) <=> LeftFace[<<r[k], v>>] \notin Interior(g)
                        /\ LeftFace[<<v, r[k]>>] \in p.faces <=> LeftFace[<<v, r[k]>>] \in Interior(g)
  BY <1>4, PolygonEdgeSides
<1>9. n \in Nat /\ \A k \in 1..n : LeftFace[<<r[k], v>>] = FaceAt(v, r, Before(n, k))
  BY AroundFacts DEF n
<1>10. InSector(i, j, i) /\ ~InSector(i, j, j)
  BY <1>4, <1>9 DEF InSector
<1>11. FaceAt(v, r, i) \in Interior(g) /\ FaceAt(v, r, Before(n, i)) \notin Interior(g) /\ FaceAt(v, r, j) \notin Interior(g)
  BY <1>4, <1>6, <1>8, <1>9, <1>10 DEF FaceAt
<1> QED BY <1>1, <1>4, <1>5, <1>6, <1>7, <1>11 DEF n

------------------------------------------------------------------------------
(***************************************************************************)
(* The list of edges: which is before or after another.                    *)
(***************************************************************************)
PlacesOf(v, r, dirs) == {k \in 1..Count(v) : r[k] \in dirs}

\* HighestOf(), LowestOf(), prevEdge(), nextEdge(), Between(), by places.
LEMMA HighestIs ==
  ASSUME NEW v, NEW r, IsAround(v, r), NEW dirs \in SUBSET Neighbours(v), dirs # {}
  PROVE  \E k \in PlacesOf(v, r, dirs) :
           HighestOf(v, dirs) = r[k] /\ \A x \in PlacesOf(v, r, dirs) : x <= k
<1> DEFINE n == Count(v)
           W == PlacesOf(v, r, dirs)
<1>1. /\ n \in Nat /\ (\A u \in Neighbours(v) : \E k \in 1..n : r[k] = u)
      /\ \A j, k \in 1..n : compareAngle(v, r[j], r[k]) = IF j < k THEN -1 ELSE IF j > k THEN 1 ELSE 0
  BY AroundFacts
<1>2. W \in SUBSET (1..n) /\ (\A k \in 1..n : k \in W <=> r[k] \in dirs)
  BY DEF PlacesOf
<1> HIDE DEF n, W
<1>3. \A u \in dirs : \E k \in W : r[k] = u
  BY <1>1, <1>2
<1>4. PICK m \in W : \A x \in W : x <= m
  BY <1>1, <1>2, <1>3, GreatestElement
<1>5. \A x, y \in W : compareAngle(v, r[x], r[y]) >= 0 <=> y <= x
  <2> TAKE x \in W, y \in W
  <2>1. x \in 1..n /\ y \in 1..n /\ x \in Int /\ y \in Int
    BY <1>1, <1>2
  <2> QED BY <1>1, <2>1
<1>6. r[m] \in dirs /\ \A y \in dirs : compareAngle(v, r[m], y) >= 0
  BY <1>2, <1>3, <1>4, <1>5
<1>7. HighestOf(v, dirs) \in dirs /\ \A y \in dirs : compareAngle(v, HighestOf(v, dirs), y) >= 0
  BY <1>6 DEF HighestOf
<1>8. PICK k \in W : r[k] = HighestOf(v, dirs)
  BY <1>3, <1>7
<1>9. \A x \in W : x <= k
  BY <1>2, <1>5, <1>7, <1>8
<1> QED BY <1>8, <1>9 DEF W

LEMMA LowestIs ==
  ASSUME NEW v, NEW r, IsAround(v, r), NEW dirs \in SUBSET Neighbours(v), dirs # {}
  PROVE  \E k \in PlacesOf(v, r, dirs) :
           LowestOf(v, dirs) = r[k] /\ \A x \in PlacesOf(v, r, dirs) : k <= x
<1> DEFINE n == Count(v)
           W == PlacesOf(v, r, dirs)
<1>1. /\ n \in Nat /\ (\A u \in Neighbours(v) : \E k \in 1..n : r[k] = u)
      /\ \A j, k \in 1..n : compareAngle(v, r[j], r[k]) = IF j < k THEN -1 ELSE IF j > k THEN 1 ELSE 0
  BY AroundFacts
<1>2. W \in SUBSET (1..n) /\ (\A k \in 1..n : k \in W <=> r[k] \in dirs)
  BY DEF PlacesOf
<1> HIDE DEF n, W
<1>3. \A u \in dirs : \E k \in W : r[k] = u
  BY <1>1, <1>2
<1>4. PICK m \in W : \A x \in W : m <= x
  <2>1. W \in SUBSET Nat /\ W # {}
    BY <1>1, <1>2, <1>3
  <2> QED BY <2>1, LeastElement
<1>5. \A x, y \in W : compareAngle(v, r[x], r[y]) <= 0 <=> x <= y
  <2> TAKE x \in W, y \in W
  <2>1. x \in 1..n /\ y \in 1..n /\ x \in Int /\ y \in Int
    BY <1>1, <1>2
  <2> QED BY <1>1, <2>1
<1>6. r[m] \in dirs /\ \A y \in dirs : compareAngle(v, r[m], y) <= 0
  BY <1>2, <1>3, <1>4, <1>5
<1>7. LowestOf(v, dirs) \in dirs /\ \A y \in dirs : compareAngle(v, LowestOf(v, dirs), y) <= 0
  BY <1>6 DEF LowestOf
<1>8. PICK k \in W : r[k] = LowestOf(v, dirs)
  BY <1>3, <1>7
<1>9. \A x \in W : k <= x
  BY <1>2, <1>5, <1>7, <1>8
<1> QED BY <1>8, <1>9 DEF W

LEMMA PreviousIs ==
  ASSUME NEW v, NEW r, IsAround(v, r), NEW dirs \in SUBSET Neighbours(v), dirs # {}, NEW i \in 1..Count(v)
  PROVE  \E k \in 1..Count(v) :
           r[k] \in dirs /\ prevEdge(v, dirs, r[i]) = r[k] /\ IsPrevious(PlacesOf(v, r, dirs), i, k)
<1> DEFINE n == Count(v)
           lower == Lower(v, dirs, r[i])
<1>1. n \in Nat /\ \A j, k \in 1..n : compareAngle(v, r[j], r[k]) = IF j < k THEN -1 ELSE IF j > k THEN 1 ELSE 0
  BY AroundFacts
<1> HIDE DEF n
<1>2. \A k \in 1..n : r[k] \in lower <=> r[k] \in dirs /\ k < i
  BY <1>1 DEF Lower, n
<1>3. lower \in SUBSET Neighbours(v)
  BY DEF Lower
<1> HIDE DEF lower
<1>4. \A D, k : k \in PlacesOf(v, r, D) <=> k \in 1..n /\ r[k] \in D
  BY DEF PlacesOf, n
<1>5. CASE lower # {}
  <2>1. PICK k \in PlacesOf(v, r, lower) :
          HighestOf(v, lower) = r[k] /\ \A x \in PlacesOf(v, r, lower) : x <= k
    BY <1>3, <1>5, HighestIs
  <2>2. k \in 1..n /\ r[k] \in dirs /\ k < i /\ prevEdge(v, dirs, r[i]) = r[k]
    BY <1>2, <1>4, <1>5, <2>1 DEF prevEdge, lower
  <2>3. \A x \in PlacesOf(v, r, dirs) : ~(k < x /\ x < i)
    <3> TAKE x \in PlacesOf(v, r, dirs)
    <3>1. x < i => x <= k
      BY <1>2, <1>4, <2>1
    <3> QED BY <1>1, <1>4, <2>2, <3>1
  <2> QED BY <1>4, <2>2, <2>3 DEF IsPrevious, n
<1>6. CASE lower = {}
  <2>1. PICK k \in PlacesOf(v, r, dirs) :
          HighestOf(v, dirs) = r[k] /\ \A x \in PlacesOf(v, r, dirs) : x <= k
    BY HighestIs
  <2>2. k \in 1..n /\ r[k] \in dirs /\ prevEdge(v, dirs, r[i]) = r[k]
    BY <1>4, <1>6, <2>1 DEF prevEdge, lower
  <2>3. \A x \in PlacesOf(v, r, dirs) : i <= x
    <3> TAKE x \in PlacesOf(v, r, dirs)
    <3>1. ~(x < i)
      BY <1>2, <1>4, <1>6
    <3> QED BY <1>1, <1>4, <3>1 DEF n
  <2>4. ~(k < i)
    BY <1>2, <1>6, <2>2
  <2> QED BY <1>4, <2>1, <2>2, <2>3, <2>4 DEF IsPrevious, n
<1> QED BY <1>5, <1>6

LEMMA NextIs ==
  ASSUME NEW v, NEW r, IsAround(v, r), NEW dirs \in SUBSET Neighbours(v), dirs # {}, NEW i \in 1..Count(v)
  PROVE  \E k \in 1..Count(v) :
           r[k] \in dirs /\ nextEdge(v, dirs, r[i]) = r[k] /\ IsNext(PlacesOf(v, r, dirs), i, k)
<1> DEFINE n == Count(v)
           higher == Higher(v, dirs, r[i])
<1>1. n \in Nat /\ \A j, k \in 1..n : compareAngle(v, r[j], r[k]) = IF j < k THEN -1 ELSE IF j > k THEN 1 ELSE 0
  BY AroundFacts
<1> HIDE DEF n
<1>2. \A k \in 1..n : r[k] \in higher <=> r[k] \in dirs /\ i < k
  BY <1>1 DEF Higher, n
<1>3. higher \in SUBSET Neighbours(v)
  BY DEF Higher
<1> HIDE DEF higher
<1>4. \A D, k : k \in PlacesOf(v, r, D) <=> k \in 1..n /\ r[k] \in D
  BY DEF PlacesOf, n
<1>5. CASE higher # {}
  <2>1. PICK k \in PlacesOf(v, r, higher) :
          LowestOf(v, higher) = r[k] /\ \A x \in PlacesOf(v, r, higher) : k <= x
    BY <1>3, <1>5, LowestIs
  <2>2. k \in 1..n /\ r[k] \in dirs /\ i < k /\ nextEdge(v, dirs, r[i]) = r[k]
    BY <1>2, <1>4, <1>5, <2>1 DEF nextEdge, higher
  <2>3. \A x \in PlacesOf(v, r, dirs) : ~(i < x /\ x < k)
    <3> TAKE x \in PlacesOf(v, r, dirs)
    <3>1. i < x => k <= x
      BY <1>2, <1>4, <2>1
    <3> QED BY <1>1, <1>4, <2>2, <3>1
  <2> QED BY <1>4, <2>2, <2>3 DEF IsNext, n
<1>6. CASE higher = {}
  <2>1. PICK k \in PlacesOf(v, r, dirs) :
          LowestOf(v, dirs) = r[k] /\ \A x \in PlacesOf(v, r, dirs) : k <= x
    BY LowestIs
  <2>2. k \in 1..n /\ r[k] \in dirs /\ nextEdge(v, dirs, r[i]) = r[k]
    BY <1>4, <1>6, <2>1 DEF nextEdge, higher
  <2>3. \A x \in PlacesOf(v, r, dirs) : x <= i
    <3> TAKE x \in PlacesOf(v, r, dirs)
    <3>1. ~(i < x)
      BY <1>2, <1>4, <1>6
    <3> QED BY <1>1, <1>4, <3>1 DEF n
  <2>4. ~(i < k)
    BY <1>2, <1>6, <2>2
  <2> QED BY <1>4, <2>1, <2>2, <2>3, <2>4 DEF IsNext, n
<1> QED BY <1>5, <1>6

\* Between two edges is a sector without its first edge.
LEMMA BetweenIs ==
  ASSUME NEW v, NEW r, IsAround(v, r), NEW wheel, NEW i \in 1..Count(v), NEW j \in 1..Count(v), i # j,
         NEW k \in 1..Count(v), r[k] \in Between(v, wheel, r[i], r[j])
  PROVE  InSector(i, j, k) /\ InSector(i, j, Before(Count(v), k))
<1>1. /\ Count(v) \in Nat /\ compareAngle(v, r[k], r[i]) = (IF k < i THEN -1 ELSE IF k > i THEN 1 ELSE 0)
      /\ compareAngle(v, r[j], r[i]) = (IF j < i THEN -1 ELSE IF j > i THEN 1 ELSE 0)
      /\ compareAngle(v, r[k], r[j]) = (IF k < j THEN -1 ELSE IF k > j THEN 1 ELSE 0)
  BY AroundFacts
<1>2. k # i /\ k # j
  BY DEF Between
<1>3. LET ahead == IF compareAngle(v, r[k], r[i]) > 0 THEN 0 ELSE 1
          last == IF compareAngle(v, r[j], r[i]) > 0 THEN 0 ELSE 1
      IN  ahead < last \/ (ahead = last /\ compareAngle(v, r[k], r[j]) < 0)
  BY DEF Between
<1>4. InSector(i, j, k)
  BY <1>1, <1>2, <1>3 DEF InSector
<1> QED BY <1>1, <1>2, <1>4 DEF InSector, Before

------------------------------------------------------------------------------
(***************************************************************************)
(* Labels: not known, or true.                                             *)
(***************************************************************************)
LocationOrN == Location \cup {"N"}
Label == [dim : {None, L, A}, left : LocationOrN, on : LocationOrN, right : LocationOrN]
Wheels(v) == UNION {[D -> [BOOLEAN -> Label]] : D \in SUBSET Neighbours(v)}

LeftOf(g, v, d) == FaceLocation(g, LeftFace[<<v, d>>])
OnOf(g, v, d) == EdgeLocation(g, {v, d})
RightOf(g, v, d) == FaceLocation(g, LeftFace[<<d, v>>])

IsTrueLabel(label, g, v, d) ==
  label.left = LeftOf(g, v, d) /\ label.on = OnOf(g, v, d) /\ label.right = RightOf(g, v, d)
LabelOK(label, g, v, d) == label \in Label /\ (label = UnknownLabel \/ IsTrueLabel(label, g, v, d))

LEMMA WheelsAre ==
  ASSUME NEW v, NEW W \in Wheels(v)
  PROVE  DOMAIN W \subseteq Neighbours(v) /\ W \in [DOMAIN W -> [BOOLEAN -> Label]]
BY DEF Wheels

LEMMA WheelIs ==
  ASSUME NEW v, NEW D \in SUBSET Neighbours(v), NEW W \in [D -> [BOOLEAN -> Label]]
  PROVE  W \in Wheels(v)
BY DEF Wheels

LEMMA LocationsAre ==
  ASSUME NEW g, NEW v, NEW d
  PROVE  LeftOf(g, v, d) \in {"I", "E"} /\ RightOf(g, v, d) \in {"I", "E"} /\ OnOf(g, v, d) \in Location
BY DEF LeftOf, RightOf, OnOf, FaceLocation, EdgeLocation, Location

LEMMA UnknownIsLabel == UnknownLabel \in Label
BY DEF UnknownLabel, Label, LocationOrN

LEMMA TrueIsKnown ==
  ASSUME NEW label, NEW g, NEW v, NEW d, IsTrueLabel(label, g, v, d)
  PROVE  label # UnknownLabel /\ label.left # "N" /\ label.on \in Location
BY LocationsAre DEF IsTrueLabel, UnknownLabel, Location

\* Two labels that are right make one that is right.
LEMMA MergeIsTrue ==
  ASSUME NEW g, NEW v, NEW d, NEW old, NEW new, LabelOK(old, g, v, d), LabelOK(new, g, v, d),
         new # UnknownLabel
  PROVE  LabelOK(Merge(old, new), g, v, d) /\ IsTrueLabel(Merge(old, new), g, v, d)
<1>1. IsTrueLabel(new, g, v, d) /\ new \in Label /\ old \in Label
  BY DEF LabelOK
<1>2. CASE old.dim = None
  BY <1>1, <1>2 DEF Merge, LabelOK
<1>3. CASE old.dim # None
  <2>1. IsTrueLabel(old, g, v, d)
    BY <1>3 DEF LabelOK, UnknownLabel
  <2>2. Merge(old, new) =
          [dim |-> IF new.on = "B" /\ old.dim = L THEN A ELSE old.dim,
           on |-> IF new.on = "B" /\ old.dim = L THEN "B" ELSE old.on,
           left |-> MergeSide(old.left, new.left), right |-> MergeSide(old.right, new.right)]
    BY <1>3 DEF Merge
  <2>3. Merge(old, new) \in Label
    BY <1>1, <2>2 DEF Label, LocationOrN, MergeSide, Location
  <2>4. IsTrueLabel(Merge(old, new), g, v, d)
    BY <1>1, <2>1, <2>2 DEF IsTrueLabel, MergeSide
  <2> QED BY <2>3, <2>4 DEF LabelOK
<1> QED BY <1>2, <1>3

WithSides(label, x, y, z) == [label EXCEPT !.left = x, !.on = y, !.right = z]

LEMMA LabelExcept ==
  ASSUME NEW label \in Label, NEW x, NEW y, NEW z
  PROVE  WithSides(label, x, y, z) = [dim |-> label.dim, left |-> x, on |-> y, right |-> z]
<1>1. PICK dim, left, on, right : label = [dim |-> dim, left |-> left, on |-> on, right |-> right]
  BY DEF Label
<1>2. [[dim |-> dim, left |-> left, on |-> on, right |-> right] EXCEPT !.left = x]
        = [dim |-> dim, left |-> x, on |-> on, right |-> right]
  OBVIOUS
<1>3. [[dim |-> dim, left |-> x, on |-> on, right |-> right] EXCEPT !.on = y]
        = [dim |-> dim, left |-> x, on |-> y, right |-> right]
  OBVIOUS
<1>4. [[dim |-> dim, left |-> x, on |-> y, right |-> right] EXCEPT !.right = z]
        = [dim |-> dim, left |-> x, on |-> y, right |-> z]
  OBVIOUS
<1>5. [label EXCEPT !.left = x, !.on = y, !.right = z]
        = [[[label EXCEPT !.left = x] EXCEPT !.on = y] EXCEPT !.right = z]
  OBVIOUS
<1>6. label.dim = dim
  BY <1>1
<1> QED BY <1>1, <1>2, <1>3, <1>4, <1>5, <1>6 DEF WithSides

\* An edge with the inside on both sides may be called inside.
LEMMA InteriorIsTrue ==
  ASSUME NEW g, NEW v, NEW d, NEW label \in Label, <<v, d>> \in Dart, hasDimension(g, A),
         LeftFace[<<v, d>>] \in Interior(g), LeftFace[<<d, v>>] \in Interior(g), g \in Geometry
  PROVE  LabelOK(InteriorLabel(label), g, v, d) /\ IsTrueLabel(InteriorLabel(label), g, v, d)
<1>1. EdgeLocation(g, {v, d}) = "I"
  BY EdgeLocations
<1>2. InteriorLabel(label) = [dim |-> label.dim, left |-> "I", on |-> "I", right |-> "I"]
  <2>1. WithSides(label, "I", "I", "I") = [dim |-> label.dim, left |-> "I", on |-> "I", right |-> "I"]
    BY LabelExcept
  <2> QED BY <2>1 DEF InteriorLabel, WithSides
<1>3. InteriorLabel(label) \in Label
  BY <1>2 DEF Label, LocationOrN, Location
<1>4. IsTrueLabel(InteriorLabel(label), g, v, d)
  BY <1>1, <1>2 DEF IsTrueLabel, LeftOf, OnOf, RightOf, FaceLocation
<1> QED BY <1>3, <1>4 DEF LabelOK

------------------------------------------------------------------------------
(***************************************************************************)
(* Edges put into the wheel.                                               *)
(***************************************************************************)
LabelsOK(W, isA, g, v) == \A d \in DOMAIN W : LabelOK(W[d][isA], g, v, d)

\* R has the edges of W, with what was known of them, and nothing new about
\* the other geometry.
Extends(R, W, isA) ==
  /\ DOMAIN W \subseteq DOMAIN R
  /\ \A d \in DOMAIN W : R[d][~isA] = W[d][~isA] /\ (W[d][isA] # UnknownLabel => R[d][isA] # UnknownLabel)
  /\ \A d \in DOMAIN R \ DOMAIN W : R[d][~isA] = UnknownLabel

LEMMA ExtendsChain ==
  ASSUME NEW W, NEW X, NEW R, NEW isA, Extends(X, W, isA), Extends(R, X, isA)
  PROVE  Extends(R, W, isA)
BY DEF Extends

\* R is W with a true label of the edge d.
HasEdge(R, W, isA, g, v, d) ==
  /\ R \in Wheels(v) /\ DOMAIN R = DOMAIN W \cup {d} /\ Extends(R, W, isA) /\ LabelsOK(R, isA, g, v)
  /\ IsTrueLabel(R[d][isA], g, v, d)
  /\ \A x \in DOMAIN W \ {d} : R[x] = W[x]

\* addEdge() of a right label keeps all labels right.
LEMMA AddEdgeAdds ==
  ASSUME NEW g, NEW v, NEW W \in Wheels(v), NEW isA \in BOOLEAN, LabelsOK(W, isA, g, v),
         NEW d \in Neighbours(v), NEW dim \in {L, A}, NEW isForward,
         IsTrueLabel(EdgeLabel(dim, isForward), g, v, d), NEW R, R = addEdge(W, isA, d, dim, isForward)
  PROVE  HasEdge(R, W, isA, g, v, d)
<1> DEFINE new == EdgeLabel(dim, isForward)
           both == IF d \in DOMAIN W THEN W[d] ELSE [x \in BOOLEAN |-> UnknownLabel]
           merged == Merge(both[isA], new)
           D == DOMAIN W \cup {d}
<1>1. d # NoVertex
  BY TurnAssumption DEF Neighbours
<1>2. DOMAIN W \subseteq Neighbours(v) /\ W \in [DOMAIN W -> [BOOLEAN -> Label]]
  BY WheelsAre
<1>3. both \in [BOOLEAN -> Label] /\ LabelOK(both[isA], g, v, d)
  BY <1>2, UnknownIsLabel DEF LabelsOK, LabelOK
<1>4. LabelOK(new, g, v, d) /\ new # UnknownLabel
  <2>1. new \in Label
    BY DEF EdgeLabel, Label, LocationOrN, Location
  <2> QED BY <2>1, TrueIsKnown DEF LabelOK
<1>5. R = [x \in D |-> IF x = d THEN [both EXCEPT ![isA] = Merge(@, new)] ELSE W[x]]
  BY <1>1 DEF addEdge
<1> HIDE DEF both, new
<1>6. LabelOK(merged, g, v, d) /\ IsTrueLabel(merged, g, v, d) /\ merged \in Label
  BY <1>3, <1>4, MergeIsTrue DEF LabelOK
<1> DEFINE labels == [both EXCEPT ![isA] = merged]
<1>7. labels \in [BOOLEAN -> Label] /\ labels[isA] = merged /\ labels[~isA] = both[~isA]
  <2> HIDE DEF merged
  <2> QED BY <1>3, <1>6
<1>8. R = [x \in D |-> IF x = d THEN labels ELSE W[x]]
  BY <1>5
<1> HIDE DEF labels, merged
<1>9. D \in SUBSET Neighbours(v) /\ R \in [D -> [BOOLEAN -> Label]] /\ DOMAIN R = D
  BY <1>2, <1>7, <1>8
<1>10. R[d] = labels /\ \A x \in DOMAIN W \ {d} : R[x] = W[x]
  BY <1>8
<1>11. merged # UnknownLabel
  BY <1>6, TrueIsKnown
<1>12. Extends(R, W, isA)
  <2>1. \A x \in DOMAIN W : R[x][~isA] = W[x][~isA] /\ (W[x][isA] # UnknownLabel => R[x][isA] # UnknownLabel)
    BY <1>7, <1>10, <1>11 DEF both
  <2>2. \A x \in DOMAIN R \ DOMAIN W : R[x][~isA] = UnknownLabel
    <3> TAKE x \in DOMAIN R \ DOMAIN W
    <3>1. x = d /\ d \notin DOMAIN W
      BY <1>9
    <3>2. R[x][~isA] = both[~isA]
      BY <1>7, <1>10, <3>1
    <3>3. both[~isA] = UnknownLabel
      BY <3>1 DEF both
    <3> QED BY <3>2, <3>3
  <2> QED BY <1>9, <2>1, <2>2 DEF Extends
<1>13. LabelsOK(R, isA, g, v)
  BY <1>6, <1>7, <1>9, <1>10 DEF LabelsOK
<1>14. R \in Wheels(v) /\ IsTrueLabel(R[d][isA], g, v, d)
  BY <1>6, <1>7, <1>9, <1>10, WheelIs
<1> QED BY <1>9, <1>10, <1>12, <1>13, <1>14 DEF HasEdge

\* The edges in between get inside.
LEMMA SetInteriorSets ==
  ASSUME NEW g \in Geometry, NEW v, NEW W \in Wheels(v), NEW isA \in BOOLEAN, LabelsOK(W, isA, g, v),
         hasDimension(g, A), NEW dirs,
         \A d \in DOMAIN W \cap dirs :
           LeftFace[<<v, d>>] \in Interior(g) /\ LeftFace[<<d, v>>] \in Interior(g),
         NEW R, R = SetInterior(W, isA, dirs)
  PROVE  /\ R \in Wheels(v) /\ DOMAIN R = DOMAIN W /\ Extends(R, W, isA) /\ LabelsOK(R, isA, g, v)
         /\ \A d \in DOMAIN W : d \notin dirs => R[d] = W[d]
<1>1. DOMAIN W \subseteq Neighbours(v) /\ W \in [DOMAIN W -> [BOOLEAN -> Label]]
  BY WheelsAre
<1>2. R = [d \in DOMAIN W |-> IF d \in dirs THEN [W[d] EXCEPT ![isA] = InteriorLabel(@)] ELSE W[d]]
  BY DEF SetInterior
<1>3. ASSUME NEW d \in DOMAIN W, d \in dirs
      PROVE  /\ R[d] \in [BOOLEAN -> Label] /\ R[d][~isA] = W[d][~isA]
             /\ LabelOK(R[d][isA], g, v, d) /\ R[d][isA] # UnknownLabel
  <2> DEFINE label == InteriorLabel(W[d][isA])
  <2>1. W[d] \in [BOOLEAN -> Label] /\ W[d][isA] \in Label /\ <<v, d>> \in Dart
    BY <1>1, NeighboursAre
  <2>2. LabelOK(label, g, v, d) /\ IsTrueLabel(label, g, v, d)
    BY <1>3, <2>1, InteriorIsTrue
  <2> HIDE DEF label
  <2>3. R[d] = [W[d] EXCEPT ![isA] = label]
    BY <1>2, <1>3 DEF label
  <2> QED BY <2>1, <2>2, <2>3, TrueIsKnown DEF LabelOK
<1>4. \A d \in DOMAIN W : d \notin dirs => R[d] = W[d]
  BY <1>2
<1>5. DOMAIN R = DOMAIN W
  BY <1>2
<1>6. \A d \in DOMAIN W : R[d] \in [BOOLEAN -> Label]
  BY <1>1, <1>3, <1>4
<1>7. R \in [DOMAIN W -> [BOOLEAN -> Label]]
  BY <1>2, <1>6
<1>8. R \in Wheels(v)
  BY <1>1, <1>7, WheelIs
<1>9. Extends(R, W, isA)
  BY <1>3, <1>4, <1>5 DEF Extends
<1>10. LabelsOK(R, isA, g, v)
  BY <1>3, <1>4, <1>5 DEF LabelsOK
<1> QED BY <1>4, <1>5, <1>8, <1>9, <1>10

\* Where a label says inside, a corner whose edges are in the wheel says so.
Sectored(W, isA, g, v, r) ==
  \A k \in PlacesOf(v, r, DOMAIN W) :
    /\ W[r[k]][isA].left = "I" =>
         \E c \in Corners(g, v, r) : c[1] \in PlacesOf(v, r, DOMAIN W) /\ c[2] \in PlacesOf(v, r, DOMAIN W)
                                       /\ InSector(c[1], c[2], k)
    /\ W[r[k]][isA].right = "I" =>
         \E c \in Corners(g, v, r) : c[1] \in PlacesOf(v, r, DOMAIN W) /\ c[2] \in PlacesOf(v, r, DOMAIN W)
                                       /\ InSector(c[1], c[2], Before(Count(v), k))

\* The labels of a corner's two edges are right.
LEMMA CornerLabels ==
  ASSUME NEW g \in Geometry, NEW v, NEW r, IsAround(v, r), NEW c \in Corners(g, v, r)
  PROVE  /\ IsTrueLabel(EdgeLabel(A, FALSE), g, v, r[c[1]])
         /\ IsTrueLabel(EdgeLabel(A, TRUE), g, v, r[c[2]])
<1> DEFINE n == Count(v)
           i == c[1]
           j == c[2]
<1>1. /\ i \in 1..n /\ j \in 1..n /\ i # j /\ hasDimension(g, A)
      /\ \A k \in 1..n : InSector(i, j, k) => FaceAt(v, r, k) \in Interior(g)
      /\ FaceAt(v, r, Before(n, i)) \notin Interior(g) /\ FaceAt(v, r, j) \notin Interior(g)
  BY CornerSectors
<1> HIDE DEF i, j, n
<1>2. n \in Nat /\ \A k \in 1..n : /\ <<v, r[k]>> \in Dart /\ Before(n, k) \in 1..n
                                   /\ LeftFace[<<r[k], v>>] = FaceAt(v, r, Before(n, k))
  BY AroundFacts DEF n
<1>3. InSector(i, j, i) /\ InSector(i, j, Before(n, j))
  BY <1>1, <1>2 DEF InSector, Before
<1>4. /\ LeftFace[<<v, r[i]>>] \in Interior(g) /\ LeftFace[<<r[i], v>>] \notin Interior(g)
      /\ LeftFace[<<v, r[j]>>] \notin Interior(g) /\ LeftFace[<<r[j], v>>] \in Interior(g)
  BY <1>1, <1>2, <1>3 DEF FaceAt
<1>5. EdgeLocation(g, {v, r[i]}) = "B" /\ EdgeLocation(g, {v, r[j]}) = "B"
  BY <1>1, <1>2, <1>4, EdgeLocations
<1>6. IsTrueLabel(EdgeLabel(A, FALSE), g, v, r[i]) /\ IsTrueLabel(EdgeLabel(A, TRUE), g, v, r[j])
  BY <1>4, <1>5 DEF IsTrueLabel, EdgeLabel, LeftOf, OnOf, RightOf, FaceLocation, L, A
<1> QED BY <1>6 DEF i, j

------------------------------------------------------------------------------
(***************************************************************************)
(* Sections put into the wheel.                                            *)
(***************************************************************************)
InOrder(g, v, r, isA) == {W \in Wheels(v) : LabelsOK(W, isA, g, v) /\ Sectored(W, isA, g, v, r)}
KnownAt(W, isA, d) == d # NoVertex => d \in DOMAIN W /\ W[d][isA] # UnknownLabel

LEMMA PlacesAre ==
  ASSUME NEW v, NEW r, IsAround(v, r), NEW W \in Wheels(v)
  PROVE  /\ PlacesOf(v, r, DOMAIN W) \in SUBSET (1..Count(v))
         /\ \A k \in 1..Count(v) : k \in PlacesOf(v, r, DOMAIN W) <=> r[k] \in DOMAIN W
         /\ \A d \in DOMAIN W : \E k \in PlacesOf(v, r, DOMAIN W) : r[k] = d
<1>1. DOMAIN W \subseteq Neighbours(v)
  BY WheelsAre
<1> QED BY <1>1, AroundFacts DEF PlacesOf

\* A corner is put in: its two edges, and those between them.
LEMMA AddCorner ==
  ASSUME NEW g \in Geometry, NEW v, NEW r, IsAround(v, r), NEW isA \in BOOLEAN,
         NEW W \in InOrder(g, v, r, isA), NEW c \in Corners(g, v, r),
         NEW R, R = addEdges(v, W, isA, A, r[c[1]], r[c[2]])
  PROVE  R \in InOrder(g, v, r, isA) /\ Extends(R, W, isA) /\ KnownAt(R, isA, r[c[1]]) /\ KnownAt(R, isA, r[c[2]])
<1> DEFINE n == Count(v)
           i == c[1]
           j == c[2]
           W1 == addEdge(W, isA, r[i], A, FALSE)
           W2 == addEdge(W1, isA, r[j], A, TRUE)
           inside == Between(v, W2, r[i], r[j])
           W3 == SetInterior(W2, isA, inside)
           K == PlacesOf(v, r, DOMAIN W2)
<1>1. /\ i \in 1..n /\ j \in 1..n /\ i # j /\ hasDimension(g, A)
      /\ \A x \in Corners(g, v, r) : \A k \in 1..n : InSector(x[1], x[2], k) => FaceAt(v, r, k) \in Interior(g)
      /\ FaceAt(v, r, Before(n, i)) \notin Interior(g) /\ FaceAt(v, r, j) \notin Interior(g)
  BY CornerSectors
<1>2. IsTrueLabel(EdgeLabel(A, FALSE), g, v, r[i]) /\ IsTrueLabel(EdgeLabel(A, TRUE), g, v, r[j])
  BY CornerLabels
<1>3. W \in Wheels(v) /\ LabelsOK(W, isA, g, v) /\ Sectored(W, isA, g, v, r)
  BY DEF InOrder
<1>4. /\ n \in Nat
      /\ \A k \in 1..n : /\ r[k] \in Neighbours(v) /\ Before(n, k) \in 1..n
                         /\ LeftFace[<<r[k], v>>] = FaceAt(v, r, Before(n, k)) /\ FaceAt(v, r, k) = LeftFace[<<v, r[k]>>]
      /\ \A k, l \in 1..n : r[k] = r[l] => k = l
  <2>1. /\ n \in Nat
        /\ \A k \in 1..n : /\ r[k] \in Neighbours(v) /\ Before(n, k) \in 1..n
                          /\ LeftFace[<<r[k], v>>] = FaceAt(v, r, Before(n, k))
        /\ \A k, l \in 1..n : r[k] = r[l] => k = l
    BY AroundFacts
  <2> QED BY <2>1 DEF FaceAt
<1>5. L \in {L, A} /\ A \in {L, A}
  OBVIOUS
<1> HIDE DEF n, i, j, W1, W2, W3, K, inside
<1>6. HasEdge(W1, W, isA, g, v, r[i])
  <2>1. r[i] \in Neighbours(v) /\ W1 = addEdge(W, isA, r[i], A, FALSE)
    BY <1>1, <1>4 DEF W1
  <2> QED BY <1>2, <1>3, <1>5, <2>1, AddEdgeAdds DEF i
<1>7. HasEdge(W2, W1, isA, g, v, r[j])
  <2>1. r[j] \in Neighbours(v) /\ W2 = addEdge(W1, isA, r[j], A, TRUE) /\ W1 \in Wheels(v) /\ LabelsOK(W1, isA, g, v)
    BY <1>1, <1>4, <1>6 DEF W2, HasEdge
  <2> QED BY <1>2, <1>5, <2>1, AddEdgeAdds DEF j
<1>8. r[i] # r[j]
  BY <1>1, <1>4
<1>9. /\ IsTrueLabel(W2[r[i]][isA], g, v, r[i])
      /\ \A x \in DOMAIN W2 : x \in {r[i], r[j]} \/ (x \in DOMAIN W /\ W2[x] = W[x])
  BY <1>6, <1>7, <1>8 DEF HasEdge
<1>10. /\ K \in SUBSET (1..n) /\ (\A k \in 1..n : k \in K <=> r[k] \in DOMAIN W2)
       /\ \A d \in DOMAIN W2 : \E k \in K : r[k] = d
  BY <1>7, PlacesAre DEF K, n, HasEdge
<1>11. i \in K /\ j \in K
  BY <1>1, <1>6, <1>7, <1>10 DEF HasEdge
<1>12. PlacesOf(v, r, DOMAIN W) \subseteq K
  BY <1>6, <1>7 DEF PlacesOf, K, HasEdge
<1>13. \A k \in 1..n : r[k] \in inside => InSector(i, j, k) /\ InSector(i, j, Before(n, k))
  BY <1>1, BetweenIs DEF inside, n
<1>14. \A d \in DOMAIN W2 \cap inside : LeftFace[<<v, d>>] \in Interior(g) /\ LeftFace[<<d, v>>] \in Interior(g)
  <2> TAKE d \in DOMAIN W2 \cap inside
  <2>1. PICK k \in K : r[k] = d
    BY <1>10
  <2>2. k \in 1..n /\ InSector(i, j, k) /\ InSector(i, j, Before(n, k)) /\ Before(n, k) \in 1..n
    BY <1>4, <1>10, <1>13, <2>1
  <2> QED BY <1>1, <1>4, <2>1, <2>2 DEF i, j
<1>15. /\ W3 \in Wheels(v) /\ DOMAIN W3 = DOMAIN W2 /\ Extends(W3, W2, isA) /\ LabelsOK(W3, isA, g, v)
       /\ \A d \in DOMAIN W2 : d \notin inside => W3[d] = W2[d]
  BY <1>1, <1>7, <1>14, SetInteriorSets DEF W3, HasEdge
<1>16. InSector(i, j, i) /\ InSector(i, j, Before(n, j))
  BY <1>1, <1>4 DEF InSector, Before
<1> DEFINE Inside(k) == \E x \in Corners(g, v, r) : x[1] \in K /\ x[2] \in K /\ InSector(x[1], x[2], k)
<1>17. \A k \in K : (W2[r[k]][isA].left = "I" => Inside(k)) /\ (W2[r[k]][isA].right = "I" => Inside(Before(n, k)))
  <2> TAKE k \in K
  <2>1. k \in 1..n /\ r[k] \in DOMAIN W2
    BY <1>10
  <2>2. CASE k = i
    <3>1. W2[r[k]][isA].right = "E"
      BY <1>1, <1>4, <1>9, <2>2 DEF IsTrueLabel, RightOf, FaceLocation
    <3>2. Inside(k)
      BY <1>11, <1>16, <2>2 DEF i, j
    <3> QED BY <3>1, <3>2
  <2>3. CASE k = j
    <3>1. W2[r[k]][isA].left = "E"
      BY <1>1, <1>4, <1>7, <2>3 DEF IsTrueLabel, LeftOf, FaceLocation, HasEdge
    <3>2. Inside(Before(n, k))
      BY <1>11, <1>16, <2>3 DEF i, j
    <3> QED BY <3>1, <3>2
  <2>4. CASE k # i /\ k # j
    <3>1. r[k] # r[i] /\ r[k] # r[j]
      BY <1>1, <1>4, <2>1, <2>4
    <3>2. r[k] \in DOMAIN W /\ W2[r[k]] = W[r[k]]
      BY <1>9, <2>1, <3>1
    <3>3. k \in PlacesOf(v, r, DOMAIN W)
      BY <2>1, <3>2 DEF PlacesOf, n
    <3> QED BY <1>3, <1>12, <3>2, <3>3 DEF Sectored, n
  <2> QED BY <2>2, <2>3, <2>4
<1>18. \A k \in K : (W3[r[k]][isA].left = "I" => Inside(k)) /\ (W3[r[k]][isA].right = "I" => Inside(Before(n, k)))
  <2> TAKE k \in K
  <2>1. k \in 1..n /\ r[k] \in DOMAIN W2
    BY <1>10
  <2>2. CASE r[k] \in inside
    BY <1>11, <1>13, <2>1, <2>2 DEF i, j
  <2>3. CASE r[k] \notin inside
    BY <1>15, <1>17, <2>1, <2>3
  <2> QED BY <2>2, <2>3
<1>19. Sectored(W3, isA, g, v, r)
  BY <1>15, <1>18 DEF Sectored, K, n
<1>20. \A k \in 1..n : Inside(k) => FaceAt(v, r, k) \in Interior(g)
  BY <1>1
<1>21. DOMAIN W3 \in SUBSET Neighbours(v) /\ DOMAIN W3 # {}
  BY <1>7, <1>15, WheelsAre DEF HasEdge
<1>22. W3[prevEdge(v, DOMAIN W3, r[i])][isA].left # "I"
  <2> SUFFICES ASSUME W3[prevEdge(v, DOMAIN W3, r[i])][isA].left = "I" PROVE FALSE
    OBVIOUS
  <2>1. PICK k \in 1..n : r[k] \in DOMAIN W3 /\ prevEdge(v, DOMAIN W3, r[i]) = r[k]
                          /\ IsPrevious(PlacesOf(v, r, DOMAIN W3), i, k)
    BY <1>1, <1>21, PreviousIs DEF n
  <2>2. k \in K /\ IsPrevious(K, i, k)
    BY <1>10, <1>15, <2>1 DEF K
  <2>3. PICK x \in Corners(g, v, r) : x[1] \in K /\ x[2] \in K /\ InSector(x[1], x[2], k)
    BY <1>18, <2>1, <2>2
  <2>4. InSector(x[1], x[2], Before(n, i))
    <3>1. n \in Nat /\ K \in SUBSET (1..n) /\ i \in K /\ j \in K /\ j # i
      BY <1>1, <1>4, <1>10, <1>11
    <3> QED BY <2>2, <2>3, <3>1, ReachesForward
  <2> QED BY <1>1, <1>4, <2>3, <2>4
<1>23. W3[nextEdge(v, DOMAIN W3, r[j])][isA].right # "I"
  <2> SUFFICES ASSUME W3[nextEdge(v, DOMAIN W3, r[j])][isA].right = "I" PROVE FALSE
    OBVIOUS
  <2>1. PICK k \in 1..n : r[k] \in DOMAIN W3 /\ nextEdge(v, DOMAIN W3, r[j]) = r[k]
                          /\ IsNext(PlacesOf(v, r, DOMAIN W3), j, k)
    BY <1>1, <1>21, NextIs DEF n
  <2>2. k \in K /\ IsNext(K, j, k)
    BY <1>10, <1>15, <2>1 DEF K
  <2>3. PICK x \in Corners(g, v, r) : x[1] \in K /\ x[2] \in K /\ InSector(x[1], x[2], Before(n, k))
    BY <1>18, <2>1, <2>2
  <2>4. InSector(x[1], x[2], j)
    <3>1. n \in Nat /\ K \in SUBSET (1..n) /\ i \in K /\ j \in K /\ j # i
      BY <1>1, <1>4, <1>10, <1>11
    <3> QED BY <2>2, <2>3, <3>1, ReachesBack
  <2> QED BY <1>1, <1>4, <2>3, <2>4
<1>24. R = W3
  <2>1. R = updateIfAreaNext(v, updateIfAreaPrev(v, updateEdgesInArea(v, W2, isA, r[i], r[j]), isA, r[i]), isA, r[j])
    BY DEF addEdges, A, L, W2, W1, i, j
  <2>2. updateEdgesInArea(v, W2, isA, r[i], r[j]) = W3
    BY DEF updateEdgesInArea, W3, inside
  <2>3. updateIfAreaPrev(v, W3, isA, r[i]) = W3
    BY <1>22 DEF updateIfAreaPrev
  <2>4. updateIfAreaNext(v, W3, isA, r[j]) = W3
    BY <1>23 DEF updateIfAreaNext
  <2> QED BY <2>1, <2>2, <2>3, <2>4
<1>25. Extends(W3, W, isA)
  BY <1>6, <1>7, <1>15, ExtendsChain DEF HasEdge
<1>26. KnownAt(W3, isA, r[i]) /\ KnownAt(W3, isA, r[j])
  <2>1. W2[r[i]][isA] # UnknownLabel /\ W2[r[j]][isA] # UnknownLabel
    BY <1>7, <1>9, TrueIsKnown DEF HasEdge
  <2>2. r[i] \in DOMAIN W2 /\ r[j] \in DOMAIN W2
    BY <1>6, <1>7 DEF HasEdge
  <2> QED BY <1>15, <2>1, <2>2 DEF Extends, KnownAt
<1> QED BY <1>15, <1>19, <1>24, <1>25, <1>26 DEF InOrder, i, j

------------------------------------------------------------------------------
\* The edges of a line at its vertex i.
LEMMA LineCornerEdges ==
  ASSUME NEW line, ValidLine(line), LineEdges(line) # {}, NEW i \in DOMAIN line,
         NEW d, d \in {prevVertex(line, i), nextVertex(line, i)}
  PROVE  d = NoVertex \/ {line[i], d} \in LineEdges(line)
<1> DEFINE m == Len(line)
<1>1. m \in Nat /\ m >= 2 /\ DOMAIN line = 1..m /\ \A k \in 1..(m - 1) : line[k] # line[k + 1]
  BY DEF ValidLine
<1>2. \A k \in 1..(m - 1) : {line[k], line[k + 1]} \in LineEdges(line)
  BY <1>1 DEF LineEdges
<1>3. prevVertex(line, i) = IF i > 1 THEN line[i - 1]
                            ELSE IF line[1] = line[m] THEN line[m - 1] ELSE NoVertex
  BY DEF prevVertex, isClosed
<1>4. nextVertex(line, i) = IF i < m THEN line[i + 1]
                            ELSE IF line[1] = line[m] THEN line[2] ELSE NoVertex
  BY DEF nextVertex, isClosed
<1> HIDE DEF m
<1>5. CASE d = prevVertex(line, i)
  <2>1. CASE i > 1
    <3>1. i - 1 \in 1..(m - 1) /\ (i - 1) + 1 = i /\ d = line[i - 1]
      BY <1>1, <1>3, <1>5, <2>1
    <3>2. {line[i - 1], line[i]} \in LineEdges(line)
      BY <1>2, <3>1
    <3>3. {line[i - 1], line[i]} = {line[i], d}
      BY <3>1
    <3> QED BY <3>2, <3>3
  <2>2. CASE ~(i > 1) /\ line[1] = line[m]
    <3>1. m - 1 \in 1..(m - 1) /\ (m - 1) + 1 = m /\ i = 1 /\ d = line[m - 1]
      BY <1>1, <1>3, <1>5, <2>2
    <3>2. {line[m - 1], line[m]} \in LineEdges(line)
      BY <1>2, <3>1
    <3>3. {line[m - 1], line[m]} = {line[i], d}
      BY <2>2, <3>1
    <3> QED BY <3>2, <3>3
  <2> QED BY <1>3, <1>5, <2>1, <2>2
<1>6. CASE d = nextVertex(line, i)
  <2>1. CASE i < m
    <3>1. i \in 1..(m - 1) /\ d = line[i + 1]
      BY <1>1, <1>4, <1>6, <2>1
    <3> QED BY <1>2, <3>1
  <2>2. CASE ~(i < m) /\ line[1] = line[m]
    <3>1. 1 \in 1..(m - 1) /\ 1 + 1 = 2 /\ i = m /\ d = line[2]
      BY <1>1, <1>4, <1>6, <2>2
    <3>2. {line[1], line[2]} \in LineEdges(line)
      BY <1>2, <3>1
    <3> QED BY <2>2, <3>1, <3>2
  <2> QED BY <1>4, <1>6, <2>1, <2>2
<1> QED BY <1>5, <1>6

\* Each end of an edge of a line is a corner that has the edge.
LEMMA LineEdgeCorner ==
  ASSUME NEW line, ValidLine(line), NEW v, NEW d, {v, d} \in LineEdges(line)
  PROVE  \E i \in DOMAIN line : line[i] = v /\ d \in {prevVertex(line, i), nextVertex(line, i)}
<1> DEFINE m == Len(line)
<1>1. m \in Nat /\ DOMAIN line = 1..m
  BY DEF ValidLine
<1>2. PICK k \in 1..(m - 1) : {v, d} = {line[k], line[k + 1]}
  BY DEF LineEdges
<1> HIDE DEF m
<1>3. k \in DOMAIN line /\ k < m /\ k + 1 \in DOMAIN line /\ k + 1 > 1 /\ (k + 1) - 1 = k
  BY <1>1, <1>2
<1>4. CASE v = line[k] /\ d = line[k + 1]
  <2>1. nextVertex(line, k) = line[k + 1]
    BY <1>3 DEF nextVertex, m
  <2> QED BY <1>3, <1>4, <2>1
<1>5. CASE v = line[k + 1] /\ d = line[k]
  <2>1. prevVertex(line, k + 1) = line[k]
    BY <1>3 DEF prevVertex
  <2> QED BY <1>3, <1>5, <2>1
<1> QED BY <1>2, <1>4, <1>5

\* A geometry of lines is nowhere inside.
LEMMA LinesInside ==
  ASSUME NEW g \in Geometry, hasDimension(g, L)
  PROVE  Interior(g) = {} /\ ~hasDimension(g, A) /\ Shape[g].polygons = {}
<1>1. Shape[g].type = L
  BY DEF hasDimension
<1>2. Shape[g].polygons = {}
  BY <1>1, ShapeAssumption DEF L, A
<1> QED BY <1>1, <1>2 DEF Interior, hasDimension, L, A

\* addEdges() of a line, one end or both.
LEMMA AddEnd ==
  ASSUME NEW g \in Geometry, NEW v, NEW r, IsAround(v, r), NEW isA \in BOOLEAN,
         NEW W \in InOrder(g, v, r, isA), hasDimension(g, L),
         NEW d, d = NoVertex \/ (d \in Neighbours(v) /\ {v, d} \in LinearEdges(g)),
         NEW R, R = addEdge(W, isA, d, L, FALSE)
  PROVE  R \in InOrder(g, v, r, isA) /\ Extends(R, W, isA) /\ KnownAt(R, isA, d)
<1>1. Interior(g) = {} /\ ~hasDimension(g, A)
  BY LinesInside
<1>2. W \in Wheels(v) /\ LabelsOK(W, isA, g, v)
  BY DEF InOrder
<1>3. CASE d = NoVertex
  BY <1>3 DEF addEdge, Extends, KnownAt
<1>4. CASE d # NoVertex
  <2>1. IsTrueLabel(EdgeLabel(L, FALSE), g, v, d)
    BY <1>1, <1>4 DEF IsTrueLabel, EdgeLabel, LeftOf, OnOf, RightOf, FaceLocation, EdgeLocation, L, A
  <2>2. HasEdge(R, W, isA, g, v, d)
    BY <1>2, <1>4, <2>1, AddEdgeAdds
  <2>3. Sectored(R, isA, g, v, r)
    <3>1. ASSUME NEW x \in DOMAIN R PROVE R[x][isA].left # "I" /\ R[x][isA].right # "I"
      <4>1. LabelOK(R[x][isA], g, v, x)
        BY <2>2 DEF HasEdge, LabelsOK
      <4>2. LeftOf(g, v, x) = "E" /\ RightOf(g, v, x) = "E"
        BY <1>1 DEF LeftOf, RightOf, FaceLocation
      <4>3. CASE R[x][isA] = UnknownLabel
        <5>1. UnknownLabel.left = "N" /\ UnknownLabel.right = "N"
          BY DEF UnknownLabel
        <5> QED BY <4>3, <5>1
      <4>4. CASE IsTrueLabel(R[x][isA], g, v, x)
        BY <4>2, <4>4 DEF IsTrueLabel
      <4> QED BY <4>1, <4>3, <4>4 DEF LabelOK
    <3> QED BY <3>1 DEF Sectored, PlacesOf
  <2>4. R[d][isA] # UnknownLabel
    BY <2>2, TrueIsKnown DEF HasEdge
  <2> QED BY <2>2, <2>3, <2>4 DEF HasEdge, InOrder, KnownAt
<1> QED BY <1>3, <1>4

LEMMA AddLineCorner ==
  ASSUME NEW g \in Geometry, NEW v, NEW r, IsAround(v, r), NEW isA \in BOOLEAN,
         NEW W \in InOrder(g, v, r, isA), NEW c \in LineCorners(g, v),
         NEW R, R = addEdges(v, W, isA, L, c[1], c[2])
  PROVE  R \in InOrder(g, v, r, isA) /\ Extends(R, W, isA) /\ KnownAt(R, isA, c[1]) /\ KnownAt(R, isA, c[2])
<1>1. PICK line \in Shape[g].lines : c \in LineSections(line, v)
  BY LineCornersAre
<1>2. hasDimension(g, L) /\ ValidLine(line) /\ LineEdges(line) # {}
  BY <1>1, ShapeAssumption DEF LineSections, hasDimension, isEmpty
<1>3. PICK i \in DOMAIN line : line[i] = v /\ c = <<prevVertex(line, i), nextVertex(line, i)>>
  BY <1>1, <1>2 DEF LineSections
<1>4. ASSUME NEW d, d \in {c[1], c[2]} PROVE d = NoVertex \/ (d \in Neighbours(v) /\ {v, d} \in LinearEdges(g))
  <2>1. d = NoVertex \/ {v, d} \in LineEdges(line)
    BY <1>2, <1>3, <1>4, LineCornerEdges
  <2>2. LineEdges(line) \subseteq LinearEdges(g) /\ LineEdges(line) \subseteq Edge
    BY <1>1, <1>2 DEF LinearEdges, ValidLine
  <2>3. {v, d} \in Edge => d \in Neighbours(v)
    BY DartOf, NeighboursAre
  <2> QED BY <2>1, <2>2, <2>3
<1> DEFINE W1 == addEdge(W, isA, c[1], L, FALSE)
<1>5. W1 \in InOrder(g, v, r, isA) /\ Extends(W1, W, isA) /\ KnownAt(W1, isA, c[1])
  BY <1>2, <1>4, AddEnd
<1>6. R = addEdge(W1, isA, c[2], L, FALSE)
  BY DEF addEdges
<1> HIDE DEF W1
<1>7. R \in InOrder(g, v, r, isA) /\ Extends(R, W1, isA) /\ KnownAt(R, isA, c[2])
  BY <1>2, <1>4, <1>5, <1>6, AddEnd
<1>8. KnownAt(R, isA, c[1])
  BY <1>5, <1>7 DEF KnownAt, Extends
<1> QED BY <1>5, <1>7, <1>8, ExtendsChain

\* addEdges(): the section s has its edges in the wheel.
Added(R, W, isA, g, v, r, s) ==
  /\ R \in InOrder(g, v, r, isA) /\ Extends(R, W, isA)
  /\ KnownAt(R, isA, s.corner[1]) /\ KnownAt(R, isA, s.corner[2])

\* addEdges() of any section.
LEMMA AddSection ==
  ASSUME NEW g \in Geometry, NEW v, NEW r, IsAround(v, r), NEW isA \in BOOLEAN,
         NEW W \in InOrder(g, v, r, isA), NEW s \in SectionsAt(g, v)
  PROVE  Added(addEdges(v, W, isA, s.dim, s.corner[1], s.corner[2]), W, isA, g, v, r, s)
<1> DEFINE R == addEdges(v, W, isA, s.dim, s.corner[1], s.corner[2])
<1>1. s.dim \in {L, A} /\ s = [dim |-> s.dim, corner |-> s.corner]
  BY SectionsAre
<1>2. CASE s.dim = L
  <2>1. s.corner \in LineCorners(g, v)
    BY <1>1, <1>2, SectionsAre
  <2>2. R = addEdges(v, W, isA, L, s.corner[1], s.corner[2])
    BY <1>2
  <2> HIDE DEF R
  <2>3. Added(R, W, isA, g, v, r, s)
    BY <2>1, <2>2, AddLineCorner DEF Added
  <2> QED BY <2>3 DEF R
<1>3. CASE s.dim = A
  <2>1. s.corner \in AreaCorners(g, v)
    BY <1>1, <1>3, SectionsAre
  <2>2. PICK i \in 1..Count(v), j \in 1..Count(v) : s.corner = <<r[i], r[j]>>
    <3>1. PICK p \in Shape[g].polygons : \E m \in DOMAIN p.rings : s.corner \in RingSections(p, p.rings[m], v)
      BY <2>1, AreaCornersAre
    <3>2. PICK m \in DOMAIN p.rings : s.corner \in RingSections(p, p.rings[m], v)
      BY <3>1
    <3> QED BY <3>2, SectorOf
  <2>3. <<i, j>> \in Corners(g, v, r) /\ <<i, j>>[1] = i /\ <<i, j>>[2] = j
    BY <1>1, <1>3, <2>2 DEF Corners
  <2>4. R = addEdges(v, W, isA, A, r[i], r[j]) /\ s.corner[1] = r[i] /\ s.corner[2] = r[j]
    BY <1>3, <2>2
  <2> HIDE DEF R
  <2>5. Added(R, W, isA, g, v, r, s)
    BY <2>3, <2>4, AddCorner DEF Added
  <2> QED BY <2>5 DEF R
<1> QED BY <1>1, <1>2, <1>3

------------------------------------------------------------------------------
(***************************************************************************)
(* All sections of a geometry put into the wheel.                          *)
(***************************************************************************)
LEMMA SectionsFinite ==
  ASSUME NEW g \in Geometry, NEW v \in Vertex
  PROVE  IsFiniteSet(SectionsAt(g, v))
<1> DEFINE S == SectionsAt(g, v)
           V == Neighbours(v) \cup {NoVertex}
           T == (V \X V) \X {L, A}
           f == [s \in S |-> <<s.corner, s.dim>>]
<1>1. PICK r : IsAround(v, r)
  BY AroundExists
<1>2. ASSUME NEW s \in S PROVE s.corner \in V \X V /\ s.dim \in {L, A} /\ s = [dim |-> s.dim, corner |-> s.corner]
  <2>1. s.dim \in {L, A} /\ s = [dim |-> s.dim, corner |-> s.corner]
    BY SectionsAre
  <2>2. CASE s.dim = L
    <3>1. s.corner \in LineCorners(g, v)
      BY <2>1, <2>2, SectionsAre
    <3>2. PICK line \in Shape[g].lines : s.corner \in LineSections(line, v)
      BY <3>1, LineCornersAre
    <3>3. ValidLine(line) /\ LineEdges(line) # {} /\ LineEdges(line) \subseteq Edge
      BY <3>2, ShapeAssumption DEF LineSections, ValidLine
    <3>4. PICK i \in DOMAIN line : line[i] = v /\ s.corner = <<prevVertex(line, i), nextVertex(line, i)>>
      BY <3>2, <3>3 DEF LineSections
    <3>5. \A d \in {prevVertex(line, i), nextVertex(line, i)} : d = NoVertex \/ {v, d} \in Edge
      BY <3>3, <3>4, LineCornerEdges
    <3>6. \A d : {v, d} \in Edge => d \in Neighbours(v)
      BY DartOf, NeighboursAre
    <3>7. prevVertex(line, i) \in V /\ nextVertex(line, i) \in V
      BY <3>5, <3>6
    <3> HIDE DEF V
    <3> QED BY <2>1, <3>4, <3>7
  <2>3. CASE s.dim = A
    <3>1. s.corner \in AreaCorners(g, v)
      BY <2>1, <2>3, SectionsAre
    <3>2. PICK p \in Shape[g].polygons : \E m \in DOMAIN p.rings : s.corner \in RingSections(p, p.rings[m], v)
      BY <3>1, AreaCornersAre
    <3>3. PICK m \in DOMAIN p.rings : s.corner \in RingSections(p, p.rings[m], v)
      BY <3>2
    <3>4. PICK i \in 1..Count(v), j \in 1..Count(v) : s.corner = <<r[i], r[j]>>
      BY <1>1, <3>3, SectorOf
    <3>5. r[i] \in V /\ r[j] \in V
      BY <1>1, AroundFacts
    <3> HIDE DEF V
    <3> QED BY <2>1, <3>4, <3>5
  <2> QED BY <2>1, <2>2, <2>3
<1>3. IsFiniteSet(V) /\ IsFiniteSet({L, A})
  <2>1. IsFiniteSet(Neighbours(v))
    BY CountIsNat
  <2>2. IsFiniteSet({L}) /\ {L, A} = {L} \cup {A}
    BY FS_Singleton
  <2> QED BY <2>1, <2>2, FS_AddElement
<1>4. IsFiniteSet(T)
  <2>1. IsFiniteSet(V \X V)
    BY <1>3, FS_Product
  <2> HIDE DEF V
  <2> QED BY <1>3, <2>1, FS_Product
<1>5. f \in Injection(S, T)
  <2> HIDE DEF S, V
  <2>1. f \in [S -> T]
    BY <1>2
  <2>2. ASSUME NEW x \in S, NEW y \in S, f[x] = f[y] PROVE x = y
    <3>1. x.corner = y.corner /\ x.dim = y.dim
      BY <2>2
    <3> QED BY <1>2, <3>1
  <2>3. IsInjective(f)
    <3>1. DOMAIN f = S
      OBVIOUS
    <3> HIDE DEF f
    <3> QED BY <2>2, <3>1 DEF IsInjective
  <2> HIDE DEF f, T
  <2> QED BY <2>1, <2>3 DEF Injection
<1> HIDE DEF f, T, S
<1>6. IsFiniteSet(S)
  BY <1>4, <1>5, FS_Injection
<1> QED BY <1>6 DEF S

\* SetToSeq() lists all of a finite set.
LEMMA SetAsSequence ==
  ASSUME NEW S, IsFiniteSet(S)
  PROVE  /\ SetToSeq(S) \in Seq(S)
         /\ \A x \in S : \E k \in 1..Len(SetToSeq(S)) : SetToSeq(S)[k] = x
<1> DEFINE n == Cardinality(S)
           s == SetToSeq(S)
<1>1. n \in Nat /\ ExistsBijection(1..n, S)
  BY FS_CardinalityType
<1>2. \E f \in [1..n -> S] : IsInjective(f)
  BY <1>1 DEF ExistsBijection, Bijection, Injection
<1>3. s \in [1..n -> S] /\ IsInjective(s)
  BY <1>2 DEF SetToSeq
<1>4. s \in Injection(1..n, S)
  BY <1>3 DEF Injection
<1>5. Cardinality(1..n) = n
  <2> HIDE DEF n
  <2>1. 1 \in Int /\ n \in Int
    BY <1>1
  <2>2. Cardinality(1..n) = IF 1 > n THEN 0 ELSE n - 1 + 1
    BY <2>1, FS_Interval
  <2> QED BY <1>1, <2>2
<1> HIDE DEF s, n
<1>6. s \in Surjection(1..n, S)
  BY <1>4, <1>5, FS_Injection DEF n
<1>7. \A x \in S : \E k \in 1..n : s[k] = x
  BY <1>6 DEF Surjection
<1>8. s \in Seq(S) /\ Len(s) = n
  BY <1>1, <1>3
<1> QED BY <1>7, <1>8 DEF s

\* All sections have been added.
AllAdded(R, W, isA, g, v, r) ==
  /\ R \in InOrder(g, v, r, isA) /\ Extends(R, W, isA)
  /\ \A s \in SectionsAt(g, v) : KnownAt(R, isA, s.corner[1]) /\ KnownAt(R, isA, s.corner[2])

\* AddSections() puts in every section, whatever their order.
LEMMA AddSectionsAdds ==
  ASSUME NEW g \in Geometry, NEW v, NEW r, IsAround(v, r), NEW isA \in BOOLEAN,
         NEW W \in InOrder(g, v, r, isA)
  PROVE  AllAdded(AddSections(v, W, isA, SectionsAt(g, v)), W, isA, g, v, r)
<1> DEFINE S == SectionsAt(g, v)
           s == SetToSeq(S)
           n == Len(s)
           X == {Y \in InOrder(g, v, r, isA) : Extends(Y, W, isA)}
           step(Y, k) == addEdges(v, Y, isA, s[k].dim, s[k].corner[1], s[k].corner[2])
           Go(h) == [k \in 0..n |-> IF k = 0 THEN W ELSE step(h[k - 1], k)]
           added == CHOOSE h : h = Go(h)
<1>1. IsFiniteSet(S)
  BY SectionsFinite DEF IsAround
<1>2. s \in Seq(S) /\ \A x \in S : \E k \in 1..n : s[k] = x
  BY <1>1, SetAsSequence
<1>3. n \in Nat /\ \A k \in 1..n : s[k] \in S
  BY <1>2
<1>4. AddSections(v, W, isA, S) = added[n]
  BY DEF AddSections
<1> HIDE DEF S, s, n
<1>5. ASSUME NEW k \in 1..n, NEW Y \in X
      PROVE  step(Y, k) \in X /\ Added(step(Y, k), Y, isA, g, v, r, s[k])
  <2>1. Added(step(Y, k), Y, isA, g, v, r, s[k])
    BY <1>3, AddSection DEF S
  <2> HIDE DEF step
  <2> QED BY <2>1, ExtendsChain DEF Added
<1>6. W \in X
  BY DEF Extends
<1> HIDE DEF X, step
<1>7. PICK f : StepsTo(n, X, W, [k \in 1..n |-> [Y \in X |-> step(Y, k)]], f)
  BY <1>3, <1>5, <1>6, StepsExist
<1>8. f = Go(f)
  <2>1. f \in [0..n -> X] /\ \A k \in 0..n : f[k] = IF k = 0 THEN W ELSE step(f[k - 1], k)
    <3>1. f \in [0..n -> X] /\ f[0] = W
      <4>1. 0 \in 0..n
        BY <1>3
      <4>2. f \in [0..n -> X]
        BY <1>7 DEF StepsTo
      <4>3. f[0] = IF 0 = 0 THEN W ELSE [k \in 1..n |-> [Y \in X |-> step(Y, k)]][0][f[0 - 1]]
        BY <1>7, <4>1 DEF StepsTo
      <4> QED BY <4>2, <4>3
    <3>2. ASSUME NEW k \in 1..n PROVE f[k] = step(f[k - 1], k)
      <4>1. k - 1 \in 0..n /\ k \in 0..n /\ k # 0
        BY <1>3
      <4>2. f[k] = [l \in 1..n |-> [Y \in X |-> step(Y, l)]][k][f[k - 1]]
        BY <1>7, <4>1 DEF StepsTo
      <4> QED BY <3>1, <4>1, <4>2
    <3> QED BY <1>3, <3>1, <3>2
  <2> QED BY <2>1
<1>9. added = Go(added)
  BY <1>8
<1> HIDE DEF added
<1>10. added[0] = W /\ \A k \in 1..n : added[k] = step(added[k - 1], k)
  <2>1. ASSUME NEW h, h = Go(h) PROVE h[0] = W /\ \A k \in 1..n : h[k] = step(h[k - 1], k)
    BY <1>3, <2>1
  <2> QED BY <1>9, <2>1
<1>11. \A k \in 0..n : added[k] \in X
  <2> DEFINE G == {k \in 0..n : added[k] \in X}
  <2>1. 0 \in G
    BY <1>3, <1>6, <1>10
  <2>2. \A k \in 1..n : k - 1 \in G => k \in G
    BY <1>3, <1>5, <1>10
  <2>3. \A k \in 0..n : k \in G
    <3> HIDE DEF G
    <3> QED BY <1>3, <2>1, <2>2, StepByStep
  <2> QED BY <2>3
<1>12. \A k \in 1..n : Added(added[k], added[k - 1], isA, g, v, r, s[k])
  <2> TAKE k \in 1..n
  <2>1. k - 1 \in 0..n
    BY <1>3
  <2> QED BY <1>5, <1>10, <1>11, <2>1
<1> DEFINE Done(Y, m) == \A l \in 1..m : KnownAt(Y, isA, s[l].corner[1]) /\ KnownAt(Y, isA, s[l].corner[2])
<1>13. \A k \in 0..n : Done(added[k], k)
  <2> DEFINE G == {k \in 0..n : Done(added[k], k)}
  <2>1. 0 \in G
    BY <1>3
  <2>2. ASSUME NEW k \in 1..n, k - 1 \in G PROVE k \in G
    <3>1. Added(added[k], added[k - 1], isA, g, v, r, s[k])
      BY <1>12
    <3>2. ASSUME NEW l \in 1..k PROVE KnownAt(added[k], isA, s[l].corner[1]) /\ KnownAt(added[k], isA, s[l].corner[2])
      <4>1. CASE l = k
        BY <3>1, <4>1 DEF Added
      <4>2. CASE l # k
        <5>1. l \in 1..(k - 1)
          BY <1>3, <4>2
        <5>2. KnownAt(added[k - 1], isA, s[l].corner[1]) /\ KnownAt(added[k - 1], isA, s[l].corner[2])
          BY <2>2, <5>1
        <5> QED BY <3>1, <5>2 DEF Added, KnownAt, Extends
      <4> QED BY <4>1, <4>2
    <3> QED BY <1>3, <3>2
  <2>3. \A k \in 0..n : k \in G
    <3> HIDE DEF G
    <3> QED BY <1>3, <2>1, <2>2, StepByStep
  <2> QED BY <2>3
<1>14. added[n] \in X /\ Done(added[n], n)
  BY <1>3, <1>11, <1>13
<1>15. \A x \in S : KnownAt(added[n], isA, x.corner[1]) /\ KnownAt(added[n], isA, x.corner[2])
  <2> TAKE x \in S
  <2>1. PICK k \in 1..n : s[k] = x
    BY <1>2 DEF n
  <2> QED BY <1>14, <2>1
<1> QED BY <1>4, <1>14, <1>15 DEF AllAdded, X, S

------------------------------------------------------------------------------
(***************************************************************************)
(* The wheel with all sections, and what finish() makes of it.             *)
(***************************************************************************)
EdgesKnown(W, isA, g, v) ==
  \A d \in Neighbours(v) : {v, d} \in LinearEdges(g) => d \in DOMAIN W /\ W[d][isA] # UnknownLabel
Ready(W, isA, g, v) ==
  /\ W \in Wheels(v) /\ LabelsOK(W, isA, g, v) /\ EdgesKnown(W, isA, g, v)
  /\ \E d \in DOMAIN W : W[d][isA] # UnknownLabel

\* Each edge of a geometry at v is one of some corner.
LEMMA EdgeHasCorner ==
  ASSUME NEW g \in Geometry, NEW v, NEW d, {v, d} \in LinearEdges(g)
  PROVE  \E s \in SectionsAt(g, v) : d \in {s.corner[1], s.corner[2]}
<1>1. CASE \E line \in Shape[g].lines : {v, d} \in LineEdges(line)
  <2>1. PICK line \in Shape[g].lines : {v, d} \in LineEdges(line)
    BY <1>1
  <2>2. ValidLine(line)
    BY <2>1, ShapeAssumption
  <2>3. PICK i \in DOMAIN line : line[i] = v /\ d \in {prevVertex(line, i), nextVertex(line, i)}
    BY <2>1, <2>2, LineEdgeCorner
  <2> DEFINE c == <<prevVertex(line, i), nextVertex(line, i)>>
  <2>4. c \in LineSections(line, v)
    BY <2>1, <2>3 DEF LineSections
  <2>5. c \in LineCorners(g, v) /\ d \in {c[1], c[2]}
    BY <2>1, <2>3, <2>4, LineCornersAre
  <2> HIDE DEF c
  <2>6. [dim |-> L, corner |-> c] \in SectionsAt(g, v)
    BY <2>5, SectionsAre
  <2> QED BY <2>5, <2>6
<1>2. CASE \E p \in Shape[g].polygons : {v, d} \in PolygonEdges(p)
  <2>1. PICK p \in Shape[g].polygons : {v, d} \in PolygonEdges(p)
    BY <1>2
  <2>2. ValidPolygon(p)
    BY <2>1, PolygonInside
  <2>3. PICK i \in DOMAIN p.rings : {v, d} \in RingEdges(p.rings[i])
    BY <2>1 DEF PolygonEdges
  <2> DEFINE ring == p.rings[i]
             m == Len(ring)
  <2>4. /\ m \in Nat /\ m >= 3 /\ DOMAIN ring = 1..m
        /\ RingEdges(ring) = {{ring[j], Cyclic(ring, j + 1)} : j \in DOMAIN ring}
    BY <2>2, RingEdgesAre
  <2> HIDE DEF m
  <2>5. PICK j \in 1..m : {v, d} = {ring[j], Cyclic(ring, j + 1)}
    BY <2>3, <2>4
  <2>6. \E l \in DOMAIN ring : Cyclic(ring, j + 1) = ring[l]
    <3>1. Cyclic(ring, j + 1) = IF j + 1 > m THEN ring[j + 1 - m] ELSE ring[j + 1]
      BY <2>4 DEF Cyclic, m
    <3>2. IF j + 1 > m THEN j + 1 - m \in 1..m ELSE j + 1 \in 1..m
      BY <2>4
    <3> QED BY <2>4, <3>1, <3>2
  <2>7. PICK k \in DOMAIN ring : v = ring[k]
    BY <2>4, <2>5, <2>6
  <2> DEFINE before == Cyclic(ring, k - 1)
             after == Cyclic(ring, k + 1)
             c == IF InsideOnRight(p, before, v) THEN <<before, after>> ELSE <<after, before>>
  <2>8. {v, d} = {before, v} \/ {v, d} = {v, after}
    BY <2>1, <2>2, <2>7, CornerOfRing
  <2>9. c \in RingSections(p, ring, v)
    BY <2>7 DEF RingSections
  <2> HIDE DEF before, after, ring
  <2>10. d \in {c[1], c[2]}
    BY <2>8
  <2> HIDE DEF c
  <2>11. c \in AreaCorners(g, v)
    BY <2>9, AreaCornersAre DEF ring
  <2>12. [dim |-> A, corner |-> c] \in SectionsAt(g, v)
    BY <2>11, SectionsAre
  <2> QED BY <2>10, <2>12
<1> QED BY <1>1, <1>2 DEF LinearEdges

\* A section has an edge.
LEMMA SectionHasEdge ==
  ASSUME NEW g \in Geometry, NEW v, NEW r, IsAround(v, r), NEW s \in SectionsAt(g, v)
  PROVE  s.corner[1] # NoVertex \/ s.corner[2] # NoVertex
<1>1. s.dim \in {L, A} /\ s = [dim |-> s.dim, corner |-> s.corner]
  BY SectionsAre
<1>2. CASE s.dim = L
  <2>1. s.corner \in LineCorners(g, v)
    BY <1>1, <1>2, SectionsAre
  <2>2. PICK line \in Shape[g].lines : s.corner \in LineSections(line, v)
    BY <2>1, LineCornersAre
  <2>3. ValidLine(line) /\ LineEdges(line) # {}
    BY <2>2, ShapeAssumption DEF LineSections
  <2>4. PICK i \in DOMAIN line : line[i] = v /\ s.corner = <<prevVertex(line, i), nextVertex(line, i)>>
    BY <2>2, <2>3 DEF LineSections
  <2>5. Len(line) \in Nat /\ Len(line) >= 2 /\ DOMAIN line = 1..Len(line) /\ \A k \in 1..Len(line) : line[k] \in Vertex
    BY <2>3 DEF ValidLine
  <2>6. CASE i < Len(line)
    <3>1. s.corner[2] = line[i + 1] /\ i + 1 \in 1..Len(line)
      BY <2>4, <2>5, <2>6 DEF nextVertex
    <3> QED BY <2>5, <3>1, TurnAssumption
  <2>7. CASE ~(i < Len(line))
    <3>1. s.corner[1] = line[i - 1] /\ i - 1 \in 1..Len(line)
      BY <2>4, <2>5, <2>7 DEF prevVertex
    <3> QED BY <2>5, <3>1, TurnAssumption
  <2> QED BY <2>6, <2>7
<1>3. CASE s.dim = A
  <2>1. s.corner \in AreaCorners(g, v)
    BY <1>1, <1>3, SectionsAre
  <2>2. PICK p \in Shape[g].polygons : \E m \in DOMAIN p.rings : s.corner \in RingSections(p, p.rings[m], v)
    BY <2>1, AreaCornersAre
  <2>3. PICK m \in DOMAIN p.rings : s.corner \in RingSections(p, p.rings[m], v)
    BY <2>2
  <2>4. PICK i \in 1..Count(v), j \in 1..Count(v) : s.corner = <<r[i], r[j]>>
    BY <2>3, SectorOf
  <2>5. r[i] \in Neighbours(v)
    BY AroundFacts
  <2>6. r[i] \in Vertex
    BY <2>5 DEF Neighbours
  <2> QED BY <2>4, <2>6, TurnAssumption
<1> QED BY <1>1, <1>2, <1>3

\* Then each edge of the geometry is known, and there is one.
LEMMA AllAddedReady ==
  ASSUME NEW g \in Geometry, NEW v, NEW r, IsAround(v, r), NEW isA \in BOOLEAN, NEW W, NEW R,
         AllAdded(R, W, isA, g, v, r), SectionsAt(g, v) # {}
  PROVE  Ready(R, isA, g, v)
<1>1. R \in Wheels(v) /\ LabelsOK(R, isA, g, v)
  BY DEF AllAdded, InOrder
<1>2. \A s \in SectionsAt(g, v) : \A d \in {s.corner[1], s.corner[2]} : KnownAt(R, isA, d)
  BY DEF AllAdded
<1>3. EdgesKnown(R, isA, g, v)
  <2> SUFFICES ASSUME NEW d \in Neighbours(v), {v, d} \in LinearEdges(g)
               PROVE  d \in DOMAIN R /\ R[d][isA] # UnknownLabel
    BY DEF EdgesKnown
  <2>1. KnownAt(R, isA, d)
    BY <1>2, EdgeHasCorner
  <2>2. d # NoVertex
    BY TurnAssumption DEF Neighbours
  <2> QED BY <2>1, <2>2 DEF KnownAt
<1>4. \E d \in DOMAIN R : R[d][isA] # UnknownLabel
  <2>1. PICK s \in SectionsAt(g, v) : TRUE
    OBVIOUS
  <2>2. PICK d \in {s.corner[1], s.corner[2]} : d # NoVertex
    BY <2>1, SectionHasEdge
  <2>3. KnownAt(R, isA, d)
    BY <1>2, <2>1, <2>2
  <2> QED BY <2>2, <2>3 DEF KnownAt
<1> QED BY <1>1, <1>3, <1>4 DEF Ready

LEMMA NoAreaInside ==
  ASSUME NEW g \in Geometry, ~hasDimension(g, A)
  PROVE  Interior(g) = {}
<1>1. Shape[g].polygons = {}
  BY ShapeAssumption DEF hasDimension, isEmpty
<1> QED BY <1>1 DEF Interior

\* Where an edge of none of its lines and rings lies in a geometry.
LEMMA NoEdgeNoChange ==
  ASSUME NEW g \in Geometry, NEW v, NEW d \in Neighbours(v), {v, d} \notin LinearEdges(g)
  PROVE  LeftOf(g, v, d) = RightOf(g, v, d) /\ OnOf(g, v, d) = LeftOf(g, v, d)
<1>1. <<v, d>> \in Dart
  BY NeighboursAre
<1>2. \A p \in Shape[g].polygons : {v, d} \notin PolygonEdges(p)
  BY DEF LinearEdges
<1>3. LeftFace[<<v, d>>] \in Interior(g) <=> LeftFace[<<d, v>>] \in Interior(g)
  BY <1>1, <1>2, OtherEdgeSides
<1>4. LeftOf(g, v, d) = RightOf(g, v, d)
  BY <1>3 DEF LeftOf, RightOf, FaceLocation
<1>5. CASE hasDimension(g, A)
  <2>1. EdgeLocation(g, {v, d}) = IF LeftFace[<<v, d>>] \in Interior(g) THEN "I" ELSE "E"
    BY <1>1, <1>3, <1>5, EdgeLocations
  <2> QED BY <1>4, <2>1 DEF OnOf, LeftOf, FaceLocation
<1>6. CASE ~hasDimension(g, A)
  <2>1. EdgeLocation(g, {v, d}) = "E"
    BY <1>6 DEF EdgeLocation
  <2>2. FaceLocation(g, LeftFace[<<v, d>>]) = "E"
    BY <1>6, NoAreaInside DEF FaceLocation
  <2> QED BY <1>4, <2>1, <2>2 DEF OnOf, LeftOf
<1> QED BY <1>4, <1>5, <1>6

\* R is W with all labels of one geometry true.
Told(R, W, isA, g, v) ==
  /\ R \in Wheels(v) /\ DOMAIN R = DOMAIN W
  /\ \A d \in DOMAIN W : R[d][~isA] = W[d][~isA] /\ IsTrueLabel(R[d][isA], g, v, d)

LEMMA FillUnknownIs ==
  ASSUME NEW label \in Label, NEW loc
  PROVE  FillUnknown(label, loc) =
           [dim |-> label.dim, left |-> IF label.left = "N" THEN loc ELSE label.left,
            on |-> IF label.on = "N" THEN loc ELSE label.on,
            right |-> IF label.right = "N" THEN loc ELSE label.right]
<1> DEFINE x == IF label.left = "N" THEN loc ELSE label.left
           y == IF label.on = "N" THEN loc ELSE label.on
           z == IF label.right = "N" THEN loc ELSE label.right
<1>1. FillUnknown(label, loc) = WithSides(label, x, y, z)
  BY DEF FillUnknown, Label, WithSides
<1> HIDE DEF x, y, z
<1>2. WithSides(label, x, y, z) = [dim |-> label.dim, left |-> x, on |-> y, right |-> z]
  BY LabelExcept
<1> QED BY <1>1, <1>2 DEF x, y, z

\* propagateSideLocations(): what was not known is filled and right.
LEMMA PropagateTells ==
  ASSUME NEW g \in Geometry, NEW v, NEW r, IsAround(v, r), NEW isA \in BOOLEAN, NEW W, Ready(W, isA, g, v)
  PROVE  Told(propagateSideLocations(v, W, isA), W, isA, g, v)
<1> DEFINE n == Count(v)
           known == {d \in DOMAIN W : W[d][isA].left # "N"}
           K == PlacesOf(v, r, known)
           loc(d) == W[prevEdge(v, known, d)][isA].left
           label(d) == FillUnknown(W[d][isA], loc(d))
           R == propagateSideLocations(v, W, isA)
           Q == [m \in 1..n |-> FaceLocation(g, FaceAt(v, r, m))]
<1>1. W \in Wheels(v) /\ LabelsOK(W, isA, g, v) /\ EdgesKnown(W, isA, g, v)
      /\ \E d \in DOMAIN W : W[d][isA] # UnknownLabel
  BY DEF Ready
<1>2. DOMAIN W \subseteq Neighbours(v) /\ W \in [DOMAIN W -> [BOOLEAN -> Label]]
  BY <1>1, WheelsAre
<1>3. \A d \in DOMAIN W : LabelOK(W[d][isA], g, v, d)
  BY <1>1 DEF LabelsOK
<1>4. \A d \in DOMAIN W : W[d][isA] # UnknownLabel => d \in known /\ IsTrueLabel(W[d][isA], g, v, d)
  BY <1>3, TrueIsKnown DEF LabelOK
<1>5. \A d \in known : d \in DOMAIN W /\ IsTrueLabel(W[d][isA], g, v, d)
  <2>1. UnknownLabel.left = "N"
    BY DEF UnknownLabel
  <2> QED BY <1>3, <2>1 DEF LabelOK
<1>6. known \in SUBSET Neighbours(v) /\ known # {}
  BY <1>1, <1>2, <1>4
<1>7. /\ n \in Nat
      /\ \A k \in 1..n : /\ r[k] \in Neighbours(v) /\ Before(n, k) \in 1..n
                         /\ LeftFace[<<r[k], v>>] = FaceAt(v, r, Before(n, k))
      /\ \A u \in Neighbours(v) : \E k \in 1..n : r[k] = u
  <2> HIDE DEF known, K, loc, label, R, Q
  <2>1. /\ Count(v) \in Nat
        /\ \A k \in 1..Count(v) : /\ r[k] \in Neighbours(v) /\ Before(Count(v), k) \in 1..Count(v)
                                  /\ LeftFace[<<r[k], v>>] = FaceAt(v, r, Before(Count(v), k))
    <3> HIDE DEF n
    <3> QED BY AroundFacts
  <2>2. \A u \in Neighbours(v) : \E k \in 1..Count(v) : r[k] = u
    <3> HIDE DEF n
    <3> QED BY AroundFacts
  <2> QED BY <2>1, <2>2 DEF n
<1>8. R = [d \in DOMAIN W |-> [W[d] EXCEPT ![isA] = label(d)]]
  BY DEF propagateSideLocations
<1> HIDE DEF n, R
<1>9. K \in SUBSET (1..n) /\ \A k \in 1..n : k \in K <=> r[k] \in known
  BY DEF PlacesOf, n
<1>10. \A k \in 1..n : LeftOf(g, v, r[k]) = Q[k] /\ RightOf(g, v, r[k]) = Q[Before(n, k)]
  <2> TAKE k \in 1..n
  <2>1. Q[k] = FaceLocation(g, FaceAt(v, r, k)) /\ Q[Before(n, k)] = FaceLocation(g, FaceAt(v, r, Before(n, k)))
    BY <1>7
  <2> QED BY <1>7, <2>1 DEF LeftOf, RightOf, FaceAt
<1> HIDE DEF known, Q, K
<1>11. \A m \in 1..n : Q[m] # Q[Before(n, m)] => m \in K
  <2> SUFFICES ASSUME NEW m \in 1..n, Q[m] # Q[Before(n, m)] PROVE m \in K
    OBVIOUS
  <2>1. {v, r[m]} \in LinearEdges(g)
    <3> SUFFICES ASSUME {v, r[m]} \notin LinearEdges(g) PROVE FALSE
      OBVIOUS
    <3>1. r[m] \in Neighbours(v)
      BY <1>7
    <3>2. LeftOf(g, v, r[m]) = RightOf(g, v, r[m])
      BY <3>1, NoEdgeNoChange
    <3> QED BY <1>10, <3>2
  <2>2. r[m] \in DOMAIN W /\ W[r[m]][isA] # UnknownLabel
    BY <1>1, <1>7, <2>1 DEF EdgesKnown
  <2> QED BY <1>4, <1>9, <2>2
<1>12. ASSUME NEW d \in DOMAIN W
       PROVE  label(d) \in Label /\ IsTrueLabel(label(d), g, v, d)
  <2>1. W[d][isA] \in Label
    BY <1>2
  <2>2. PICK i \in 1..n : r[i] = d
    BY <1>2, <1>7
  <2>3. PICK k \in 1..n : r[k] \in known /\ prevEdge(v, known, d) = r[k] /\ IsPrevious(K, i, k)
    BY <1>6, <2>2, PreviousIs DEF n, K
  <2>4. loc(d) = LeftOf(g, v, r[k]) /\ loc(d) = Q[k]
    BY <1>5, <1>10, <2>3 DEF IsTrueLabel
  <2>5. loc(d) \in {"I", "E"}
    BY <2>4, LocationsAre
  <2> HIDE DEF loc
  <2>6. label(d) = [dim |-> W[d][isA].dim, left |-> IF W[d][isA].left = "N" THEN loc(d) ELSE W[d][isA].left,
            on |-> IF W[d][isA].on = "N" THEN loc(d) ELSE W[d][isA].on,
            right |-> IF W[d][isA].right = "N" THEN loc(d) ELSE W[d][isA].right]
    BY <2>1, FillUnknownIs
  <2>7. label(d) \in Label
    BY <2>1, <2>5, <2>6 DEF Label, LocationOrN, Location
  <2>8. CASE d \in known
    <3>1. IsTrueLabel(W[d][isA], g, v, d)
      BY <1>5, <2>8
    <3>2. W[d][isA].left # "N" /\ W[d][isA].on # "N" /\ W[d][isA].right # "N"
      BY <3>1, LocationsAre DEF IsTrueLabel, Location
    <3> QED BY <2>6, <2>7, <3>1, <3>2 DEF IsTrueLabel
  <2>9. CASE d \notin known
    <3>1. W[d][isA] = UnknownLabel
      BY <1>4, <2>9
    <3>2. {v, d} \notin LinearEdges(g)
      BY <1>1, <1>2, <3>1 DEF EdgesKnown
    <3>3. LeftOf(g, v, d) = RightOf(g, v, d) /\ OnOf(g, v, d) = LeftOf(g, v, d)
      BY <1>2, <3>2, NoEdgeNoChange
    <3>4. i \notin K
      BY <1>9, <2>2, <2>9
    <3>5. Q[i] = Q[k]
      <4>1. n \in Nat /\ K \in SUBSET (1..n) /\ i \in 1..n /\ IsPrevious(K, i, k)
        BY <1>7, <1>9, <2>3
      <4> QED BY <1>11, <3>4, <4>1, NoChangeBehind
    <3>6. LeftOf(g, v, d) = loc(d)
      BY <1>10, <2>2, <2>4, <3>5
    <3>7. label(d).left = loc(d) /\ label(d).on = loc(d) /\ label(d).right = loc(d)
      BY <2>6, <3>1 DEF UnknownLabel
    <3> QED BY <2>7, <3>3, <3>6, <3>7 DEF IsTrueLabel
  <2> QED BY <2>8, <2>9
<1> HIDE DEF label
<1>13. DOMAIN R = DOMAIN W /\ \A d \in DOMAIN W : R[d] = [W[d] EXCEPT ![isA] = label(d)]
  BY <1>8
<1>14. \A d \in DOMAIN W : R[d] \in [BOOLEAN -> Label] /\ R[d][isA] = label(d) /\ R[d][~isA] = W[d][~isA]
  <2> TAKE d \in DOMAIN W
  <2>1. W[d] \in [BOOLEAN -> Label] /\ label(d) \in Label
    BY <1>2, <1>12
  <2> QED BY <1>13, <2>1
<1>15. R \in Wheels(v)
  <2>1. R \in [DOMAIN W -> [BOOLEAN -> Label]]
    BY <1>8, <1>13, <1>14
  <2> QED BY <1>2, <2>1, WheelIs
<1>16. Told(R, W, isA, g, v)
  BY <1>12, <1>13, <1>14, <1>15 DEF Told
<1> QED BY <1>16 DEF R

\* All that a finished node says of the edges and their sides is so.
NodeIsTrue(W, g, h, v) ==
  /\ W \in Wheels(v)
  /\ \A d \in DOMAIN W : IsTrueLabel(W[d][TRUE], g, v, d) /\ IsTrueLabel(W[d][FALSE], h, v, d)

(***************************************************************************)
(* createNode(): whatever sections two geometries have at a vertex, and in *)
(* whatever order they are added, each edge of the finished node says      *)
(* where it and the faces on its two sides lie in both geometries.         *)
(***************************************************************************)
THEOREM NodesAreTrue ==
  ASSUME NEW g \in Geometry, NEW h \in Geometry, NEW v \in Vertex, hasInteractionAB(g, h, v)
  PROVE  NodeIsTrue(createNode(g, h, v), g, h, v)
<1> DEFINE W1 == AddSections(v, NoWheel, TRUE, SectionsAt(g, v))
           W2 == AddSections(v, W1, FALSE, SectionsAt(h, v))
           W3 == propagateSideLocations(v, W2, TRUE)
           W4 == propagateSideLocations(v, W3, FALSE)
<1>0. createNode(g, h, v) = W4 /\ SectionsAt(g, v) # {} /\ SectionsAt(h, v) # {}
  BY DEF createNode, hasInteractionAB
<1>1. PICK r : IsAround(v, r)
  BY AroundExists
<1> HIDE DEF W1, W2, W3, W4
<1>2. DOMAIN NoWheel = {}
  BY DEF NoWheel
<1>3. NoWheel \in InOrder(g, v, r, TRUE)
  <2>1. NoWheel \in [{} -> [BOOLEAN -> Label]]
    BY DEF NoWheel
  <2>2. NoWheel \in Wheels(v)
    BY <2>1, WheelIs
  <2>3. PlacesOf(v, r, DOMAIN NoWheel) = {}
    BY <1>2 DEF PlacesOf
  <2> QED BY <1>2, <2>2, <2>3 DEF InOrder, LabelsOK, Sectored
<1>4. AllAdded(W1, NoWheel, TRUE, g, v, r)
  BY <1>1, <1>3, AddSectionsAdds DEF W1
<1>5. ASSUME NEW d \in DOMAIN W1 PROVE W1[d][FALSE] = UnknownLabel
  <2>1. (~TRUE) = FALSE
    OBVIOUS
  <2> QED BY <1>2, <1>4, <2>1 DEF AllAdded, Extends
<1>6. W1 \in InOrder(h, v, r, FALSE)
  <2>1. W1 \in Wheels(v)
    BY <1>4 DEF AllAdded, InOrder
  <2>2. LabelsOK(W1, FALSE, h, v)
    BY <1>5, UnknownIsLabel DEF LabelsOK, LabelOK
  <2>3. UnknownLabel.left = "N" /\ UnknownLabel.right = "N"
    BY DEF UnknownLabel
  <2>4. Sectored(W1, FALSE, h, v, r)
    BY <1>5, <2>3 DEF Sectored, PlacesOf
  <2> QED BY <2>1, <2>2, <2>4 DEF InOrder
<1>7. AllAdded(W2, W1, FALSE, h, v, r)
  BY <1>1, <1>6, AddSectionsAdds DEF W2
<1>8. Ready(W2, FALSE, h, v)
  BY <1>0, <1>1, <1>7, AllAddedReady
<1>9. Ready(W1, TRUE, g, v)
  BY <1>0, <1>1, <1>4, AllAddedReady
<1>10. Ready(W2, TRUE, g, v)
  <2>1. /\ DOMAIN W1 \subseteq DOMAIN W2
        /\ \A d \in DOMAIN W1 : W2[d][TRUE] = W1[d][TRUE]
        /\ \A d \in DOMAIN W2 \ DOMAIN W1 : W2[d][TRUE] = UnknownLabel
    <3>1. (~FALSE) = TRUE
      OBVIOUS
    <3> QED BY <1>7, <3>1 DEF AllAdded, Extends
  <2>2. W2 \in Wheels(v)
    BY <1>7 DEF AllAdded, InOrder
  <2>3. LabelsOK(W2, TRUE, g, v)
    BY <1>9, <2>1, UnknownIsLabel DEF Ready, LabelsOK, LabelOK
  <2>4. EdgesKnown(W2, TRUE, g, v)
    BY <1>9, <2>1 DEF Ready, EdgesKnown
  <2>5. \E d \in DOMAIN W2 : W2[d][TRUE] # UnknownLabel
    BY <1>9, <2>1 DEF Ready
  <2> QED BY <2>2, <2>3, <2>4, <2>5 DEF Ready
<1>11. Told(W3, W2, TRUE, g, v)
  BY <1>1, <1>10, PropagateTells DEF W3
<1>12. /\ W3 \in Wheels(v) /\ DOMAIN W3 = DOMAIN W2
       /\ \A d \in DOMAIN W2 : W3[d][FALSE] = W2[d][FALSE] /\ IsTrueLabel(W3[d][TRUE], g, v, d)
  <2>1. (~TRUE) = FALSE
    OBVIOUS
  <2> QED BY <1>11, <2>1 DEF Told
<1>13. Ready(W3, FALSE, h, v)
  BY <1>8, <1>12 DEF Ready, LabelsOK, EdgesKnown
<1>14. Told(W4, W3, FALSE, h, v)
  BY <1>1, <1>13, PropagateTells DEF W4
<1>15. /\ W4 \in Wheels(v) /\ DOMAIN W4 = DOMAIN W3
       /\ \A d \in DOMAIN W3 : W4[d][TRUE] = W3[d][TRUE] /\ IsTrueLabel(W4[d][FALSE], h, v, d)
  <2>1. (~FALSE) = TRUE
    OBVIOUS
  <2> QED BY <1>14, <2>1 DEF Told
<1> QED BY <1>0, <1>12, <1>15 DEF NodeIsTrue

------------------------------------------------------------------------------
(***************************************************************************)
(* Entries that are found are seen in some cell of the plane.              *)
(***************************************************************************)
Seen(g, h, u) ==
  \/ \E f \in Face : FaceLocation(g, f) = u[1] /\ FaceLocation(h, f) = u[2]
  \/ u[3] <= L /\ \E e \in Edge : EdgeLocation(g, e) = u[1] /\ EdgeLocation(h, e) = u[2]
  \/ u[3] <= P /\ \E v \in Vertex : locate(g, v) = u[1] /\ locate(h, v) = u[2]
SeenUpdates(g, h) == {u \in Update : Seen(g, h, u)}

\* Ordered(): each of its elements is one of the edges.
LEMMA OrderedIsOf ==
  ASSUME NEW v, NEW r, IsAround(v, r), NEW dirs \in SUBSET Neighbours(v)
  PROVE  Ordered(v, dirs) \in Seq(dirs)
<1> DEFINE upTo(d) == {x \in dirs : compareAngle(v, x, d) <= 0}
           n == Cardinality(dirs)
           rank == [d \in dirs |-> Cardinality(upTo(d))]
<1>1. IsFiniteSet(dirs) /\ n \in Nat
  <2>1. IsFiniteSet(dirs)
    BY CountIsNat, FS_Subset
  <2> QED BY <2>1, FS_CardinalityType
<1>2. \A j, k \in 1..Count(v) : compareAngle(v, r[j], r[k]) = IF j < k THEN -1 ELSE IF j > k THEN 1 ELSE 0
  BY AroundFacts
<1>3. \A d \in dirs : \E k \in 1..Count(v) : r[k] = d
  BY AroundFacts
<1>4. \A d \in dirs : d \in upTo(d)
  BY <1>2, <1>3
<1>5. \A d \in dirs : upTo(d) \in SUBSET dirs
  OBVIOUS
<1>6. \A c, d \in dirs : c # d => upTo(c) # upTo(d) /\ (upTo(c) \subseteq upTo(d) \/ upTo(d) \subseteq upTo(c))
  <2> SUFFICES ASSUME NEW c \in dirs, NEW d \in dirs, c # d
               PROVE  upTo(c) # upTo(d) /\ (upTo(c) \subseteq upTo(d) \/ upTo(d) \subseteq upTo(c))
    OBVIOUS
  <2>1. PICK i \in 1..Count(v) : r[i] = c
    BY <1>3
  <2>2. PICK j \in 1..Count(v) : r[j] = d
    BY <1>3
  <2>3. \A x \in dirs : \E k \in 1..Count(v) : /\ r[k] = x
                                               /\ x \in upTo(c) <=> k <= i
                                               /\ x \in upTo(d) <=> k <= j
    <3> TAKE x \in dirs
    <3>1. PICK k \in 1..Count(v) : r[k] = x
      BY <1>3
    <3>2. i \in Int /\ j \in Int /\ k \in Int
      OBVIOUS
    <3> QED BY <1>2, <2>1, <2>2, <3>1, <3>2
  <2>4. i \in Int /\ j \in Int /\ i # j
    BY <2>1, <2>2
  <2> DEFINE U == upTo(c)
             V == upTo(d)
  <2>5. c \in U /\ d \in V /\ U \subseteq dirs /\ V \subseteq dirs
    BY <1>4
  <2>6. (d \in U <=> j <= i) /\ (c \in V <=> i <= j)
    BY <1>2, <2>1, <2>2, <2>4
  <2> HIDE DEF U, V, upTo
  <2>7. U # V
    BY <2>4, <2>5, <2>6
  <2>8. CASE i < j
    <3>1. \A x \in U : x \in V
      <4> TAKE x \in U
      <4>1. PICK k \in 1..Count(v) : (x \in U <=> k <= i) /\ (x \in V <=> k <= j)
        BY <2>3, <2>5 DEF U, V
      <4> QED BY <2>4, <2>8, <4>1
    <3> QED BY <2>7, <3>1 DEF U, V
  <2>9. CASE j < i
    <3>1. \A x \in V : x \in U
      <4> TAKE x \in V
      <4>1. PICK k \in 1..Count(v) : (x \in U <=> k <= i) /\ (x \in V <=> k <= j)
        BY <2>3, <2>5 DEF U, V
      <4> QED BY <2>4, <2>9, <4>1
    <3> QED BY <2>7, <3>1 DEF U, V
  <2> QED BY <2>4, <2>8, <2>9
<1>7. \A d \in dirs : IsFiniteSet(upTo(d)) /\ Cardinality(upTo(d)) \in Nat /\ Cardinality(upTo(d)) <= n
                      /\ Cardinality(upTo(d)) # 0
  <2> TAKE d \in dirs
  <2> DEFINE U == upTo(d)
  <2>1. U \in SUBSET dirs /\ U # {}
    BY <1>4
  <2> HIDE DEF U, upTo
  <2>2. IsFiniteSet(U) /\ Cardinality(U) <= n
    BY <1>1, <2>1, FS_Subset
  <2>3. Cardinality(U) \in Nat /\ Cardinality(U) # 0
    BY <2>1, <2>2, FS_CardinalityType, FS_EmptySet
  <2> QED BY <2>2, <2>3 DEF U
<1>8. \A c, d \in dirs : c # d => Cardinality(upTo(c)) # Cardinality(upTo(d))
  <2> SUFFICES ASSUME NEW c \in dirs, NEW d \in dirs, c # d PROVE Cardinality(upTo(c)) # Cardinality(upTo(d))
    OBVIOUS
  <2> DEFINE U == upTo(c)
             V == upTo(d)
  <2>1. U # V /\ (U \subseteq V \/ V \subseteq U)
    BY <1>6
  <2>2. IsFiniteSet(U) /\ IsFiniteSet(V)
    BY <1>7
  <2> HIDE DEF U, V
  <2>3. Cardinality(U) # Cardinality(V)
    BY <2>1, <2>2, FS_Subset
  <2> QED BY <2>3 DEF U, V
<1> HIDE DEF upTo, n
<1>9. rank \in Injection(dirs, 1..n)
  <2>1. rank \in [dirs -> 1..n]
    BY <1>1, <1>7
  <2>2. IsInjective(rank)
    BY <1>8 DEF IsInjective
  <2> QED BY <2>1, <2>2 DEF Injection
<1>10. IsFiniteSet(1..n) /\ Cardinality(1..n) = n
  <2>1. 1 \in Int /\ n \in Int
    BY <1>1
  <2>2. IsFiniteSet(1..n) /\ Cardinality(1..n) = IF 1 > n THEN 0 ELSE n - 1 + 1
    BY <2>1, FS_Interval
  <2> QED BY <1>1, <2>2
<1> HIDE DEF rank
<1>11. rank \in Surjection(dirs, 1..n)
  <2>1. Cardinality(dirs) = Cardinality(1..n)
    BY <1>10 DEF n
  <2> QED BY <1>9, <1>10, <2>1, FS_Injection
<1>12. \A i \in 1..n : \E d \in dirs : Cardinality(upTo(d)) = i
  BY <1>11 DEF Surjection, rank
<1>13. \A i \in 1..n : (CHOOSE d \in dirs : Cardinality(upTo(d)) = i) \in dirs
  BY <1>12
<1>14. Ordered(v, dirs) = [i \in 1..n |-> CHOOSE d \in dirs : Cardinality(upTo(d)) = i]
  BY DEF Ordered, n, upTo
<1> DEFINE o == Ordered(v, dirs)
<1>15. o \in [1..n -> dirs]
  BY <1>13, <1>14
<1> HIDE DEF o
<1>16. o \in Seq(dirs)
  BY <1>1, <1>15
<1> QED BY <1>16 DEF o

\* What right labels of an edge tell is there, so for a whole node.
LEMMA EdgeUpdatesSeen ==
  ASSUME NEW g \in Geometry, NEW h \in Geometry, NEW v, NEW d \in Neighbours(v), NEW label,
         IsTrueLabel(label[TRUE], g, v, d), IsTrueLabel(label[FALSE], h, v, d), NEW areaArea \in BOOLEAN
  PROVE  EdgeUpdates(label, areaArea) \in Seq(SeenUpdates(g, h))
<1> DEFINE l == <<label[TRUE].left, label[FALSE].left, A>>
           s == <<label[TRUE].right, label[FALSE].right, A>>
           o == <<label[TRUE].on, label[FALSE].on, L>>
           U == SeenUpdates(g, h)
<1>1. <<v, d>> \in Dart /\ <<d, v>> \in Dart /\ {v, d} \in Edge
  BY NeighboursAre, SidesAre, EdgeOfDart
<1>2. LeftFace[<<v, d>>] \in Face /\ LeftFace[<<d, v>>] \in Face
  BY <1>1 DEF Face
<1>3. /\ LeftOf(g, v, d) \in Location /\ LeftOf(h, v, d) \in Location
      /\ RightOf(g, v, d) \in Location /\ RightOf(h, v, d) \in Location
      /\ OnOf(g, v, d) \in Location /\ OnOf(h, v, d) \in Location
  BY LocationsAre DEF Location
<1>4. l \in U
  <2>1. l = <<LeftOf(g, v, d), LeftOf(h, v, d), A>>
    BY DEF IsTrueLabel
  <2>2. Seen(g, h, l)
    BY <1>2, <2>1 DEF Seen, LeftOf
  <2>3. l \in Update
    BY <1>3, <2>1 DEF Update, Dimension
  <2> QED BY <2>2, <2>3 DEF SeenUpdates
<1>5. s \in U
  <2>1. s = <<RightOf(g, v, d), RightOf(h, v, d), A>>
    BY DEF IsTrueLabel
  <2>2. Seen(g, h, s)
    BY <1>2, <2>1 DEF Seen, RightOf
  <2>3. s \in Update
    BY <1>3, <2>1 DEF Update, Dimension
  <2> QED BY <2>2, <2>3 DEF SeenUpdates
<1>6. o \in U
  <2>1. o = <<OnOf(g, v, d), OnOf(h, v, d), L>>
    BY DEF IsTrueLabel
  <2>2. Seen(g, h, o)
    BY <1>1, <2>1 DEF Seen, OnOf, L
  <2>3. o \in Update
    BY <1>3, <2>1 DEF Update, Dimension
  <2> QED BY <2>2, <2>3 DEF SeenUpdates
<1>7. EdgeUpdates(label, areaArea) = (IF areaArea THEN <<l, s>> ELSE <<>>) \o <<o>>
  BY DEF EdgeUpdates
<1> HIDE DEF l, s, o, U
<1>8. <<l, s>> \in Seq(U) /\ <<>> \in Seq(U) /\ <<o>> \in Seq(U)
  BY <1>4, <1>5, <1>6
<1>9. (IF areaArea THEN <<l, s>> ELSE <<>>) \in Seq(U)
  BY <1>8
<1>10. ((IF areaArea THEN <<l, s>> ELSE <<>>) \o <<o>>) \in Seq(U)
  BY <1>8, <1>9
<1> QED BY <1>7, <1>10 DEF U

LEMMA WheelUpdatesSeen ==
  ASSUME NEW g \in Geometry, NEW h \in Geometry, NEW v \in Vertex, NEW W, NodeIsTrue(W, g, h, v),
         NEW areaArea \in BOOLEAN
  PROVE  WheelUpdates(v, W, areaArea) \in Seq(SeenUpdates(g, h))
<1> DEFINE order == Ordered(v, DOMAIN W)
           n == Len(order)
           X == Seq(SeenUpdates(g, h))
           new(k) == EdgeUpdates(W[order[k]], areaArea)
           step(s, k) == s \o new(k)
           Go(t) == [k \in 0..n |-> IF k = 0 THEN <<>> ELSE step(t[k - 1], k)]
           upto == CHOOSE t : t = Go(t)
<1>1. PICK r : IsAround(v, r)
  BY AroundExists
<1>2. W \in Wheels(v) /\ DOMAIN W \subseteq Neighbours(v)
  BY WheelsAre DEF NodeIsTrue
<1>3. order \in Seq(DOMAIN W)
  BY <1>1, <1>2, OrderedIsOf
<1>4. n \in Nat /\ \A k \in 1..n : order[k] \in DOMAIN W
  BY <1>3
<1>5. WheelUpdates(v, W, areaArea) = upto[n]
  BY DEF WheelUpdates
<1> HIDE DEF order, n
<1>6. \A k \in 1..n : new(k) \in X
  BY <1>2, <1>4, EdgeUpdatesSeen DEF NodeIsTrue
<1> HIDE DEF new
<1>7. ASSUME NEW k \in 1..n, NEW s \in X PROVE step(s, k) \in X
  BY <1>6
<1>8. <<>> \in X
  OBVIOUS
<1> HIDE DEF X, step
<1>9. PICK f : StepsTo(n, X, <<>>, [k \in 1..n |-> [s \in X |-> step(s, k)]], f)
  BY <1>4, <1>7, <1>8, StepsExist
<1>10. f = Go(f)
  <2>1. f \in [0..n -> X] /\ \A k \in 0..n : f[k] = IF k = 0 THEN <<>> ELSE step(f[k - 1], k)
    <3>1. f \in [0..n -> X] /\ f[0] = <<>>
      <4>1. 0 \in 0..n
        BY <1>4
      <4>2. f \in [0..n -> X]
        BY <1>9 DEF StepsTo
      <4>3. f[0] = IF 0 = 0 THEN <<>> ELSE [k \in 1..n |-> [s \in X |-> step(s, k)]][0][f[0 - 1]]
        BY <1>9, <4>1 DEF StepsTo
      <4> QED BY <4>2, <4>3
    <3>2. ASSUME NEW k \in 1..n PROVE f[k] = step(f[k - 1], k)
      <4>1. k - 1 \in 0..n /\ k \in 0..n /\ k # 0
        BY <1>4
      <4>2. f[k] = [l \in 1..n |-> [s \in X |-> step(s, l)]][k][f[k - 1]]
        BY <1>9, <4>1 DEF StepsTo
      <4> QED BY <3>1, <4>1, <4>2
    <3> QED BY <1>4, <3>1, <3>2
  <2> QED BY <2>1
<1>11. upto = Go(upto)
  BY <1>10
<1> HIDE DEF upto
<1>12. upto[0] = <<>> /\ \A k \in 1..n : upto[k] = step(upto[k - 1], k)
  <2>1. ASSUME NEW t, t = Go(t) PROVE t[0] = <<>> /\ \A k \in 1..n : t[k] = step(t[k - 1], k)
    BY <1>4, <2>1
  <2> QED BY <1>11, <2>1
<1>13. upto[n] \in X
  <2> DEFINE G == {k \in 0..n : upto[k] \in X}
  <2>1. 0 \in G
    BY <1>4, <1>8, <1>12
  <2>2. \A k \in 1..n : k - 1 \in G => k \in G
    BY <1>4, <1>7, <1>12
  <2>3. \A k \in 0..n : k \in G
    <3> HIDE DEF G
    <3> QED BY <1>4, <2>1, <2>2, StepByStep
  <2> QED BY <1>4, <2>3
<1> QED BY <1>5, <1>13 DEF X

LEMMA NodeUpdatesSeen ==
  ASSUME NEW g \in Geometry, NEW h \in Geometry, NEW v \in Vertex, hasInteractionAB(g, h, v)
  PROVE  NodeUpdates(g, h, v) \in Seq(SeenUpdates(g, h))
<1>1. (getDimension(g) = A /\ getDimension(h) = A) \in BOOLEAN
  OBVIOUS
<1> QED BY <1>1, NodesAreTrue, WheelUpdatesSeen DEF NodeUpdates

------------------------------------------------------------------------------
(***************************************************************************)
(* What the location of a vertex says of the cells around it.              *)
(***************************************************************************)
LEMMA Dimensions ==
  ASSUME NEW g \in Geometry
  PROVE  /\ hasDimension(g, A) <=> Shape[g].type = A /\ Shape[g].polygons # {}
         /\ hasDimension(g, L) <=> Shape[g].type = L /\ Shape[g].lines # {}
         /\ hasDimension(g, P) <=> Shape[g].type = P /\ Shape[g].points # {}
         /\ ~isEmpty(g) <=> hasDimension(g, A) \/ hasDimension(g, L) \/ hasDimension(g, P)
         /\ Shape[g].type \in {P, L, A}
         /\ (Shape[g].type # A => Shape[g].polygons = {}) /\ (Shape[g].type # L => Shape[g].lines = {})
         /\ (Shape[g].type # P => Shape[g].points = {})
<1>1. P # L /\ P # A /\ L # A
  BY DEF P, L, A
<1> QED BY <1>1, ShapeAssumption DEF hasDimension, isEmpty

\* locate(), by the kind of geometry.
LEMMA LocateIs ==
  ASSUME NEW g \in Geometry, NEW v
  PROVE  locate(g, v) = IF hasDimension(g, A) THEN locateOnPolygons(g, v)
                        ELSE IF hasDimension(g, L) THEN locateOnLines(g, v)
                        ELSE IF hasDimension(g, P) /\ v \in Shape[g].points THEN "I" ELSE "E"
<1>1. P # L /\ P # A /\ L # A
  BY DEF P, L, A
<1>2. ~(hasDimension(g, A) /\ hasDimension(g, L)) /\ ~(hasDimension(g, A) /\ hasDimension(g, P))
      /\ ~(hasDimension(g, L) /\ hasDimension(g, P))
  BY <1>1 DEF hasDimension
<1>3. ~isEmpty(g) <=> hasDimension(g, A) \/ hasDimension(g, L) \/ hasDimension(g, P)
  BY Dimensions
<1> QED BY <1>2, <1>3 DEF locate

LEMMA DartCells ==
  ASSUME NEW v, NEW d, <<v, d>> \in Dart
  PROVE  /\ {v, d} \in Edge /\ v \in Vertex
         /\ LeftFace[<<v, d>>] \in Face /\ LeftFace[<<d, v>>] \in Face
         /\ LeftFace[<<v, d>>] \in FacesAround(v) /\ LeftFace[<<d, v>>] \in FacesAround(v)
<1>1. {v, d} \in Edge
  BY EdgeOfDart
<1>2. <<d, v>> \in Dart /\ v \in Vertex
  BY <1>1, DartOf
<1> QED BY <1>1, <1>2 DEF Face, FacesAround

\* Around a vertex outside a geometry there is nothing of it.
LEMMA OutsideAround ==
  ASSUME NEW g \in Geometry, NEW v, NEW d, <<v, d>> \in Dart, locate(g, v) = "E"
  PROVE  OnOf(g, v, d) = "E" /\ LeftOf(g, v, d) = "E" /\ RightOf(g, v, d) = "E"
<1>1. CASE hasDimension(g, A)
  <2>1. FacesAround(v) \cap Interior(g) = {}
    BY <1>1, LocateIs DEF locateOnPolygons
  <2>2. LeftFace[<<v, d>>] \notin Interior(g) /\ LeftFace[<<d, v>>] \notin Interior(g)
    BY <2>1, DartCells
  <2>3. EdgeLocation(g, {v, d}) = "E"
    BY <1>1, <2>2, EdgeLocations
  <2> QED BY <2>2, <2>3 DEF OnOf, LeftOf, RightOf, FaceLocation
<1>2. CASE ~hasDimension(g, A)
  <2>1. Interior(g) = {}
    BY <1>2, NoAreaInside
  <2>2. {v, d} \notin LinearEdges(g)
    <3> SUFFICES ASSUME {v, d} \in LinearEdges(g) PROVE FALSE
      OBVIOUS
    <3>1. Shape[g].polygons = {}
      BY <1>2, Dimensions
    <3>2. PICK line \in Shape[g].lines : {v, d} \in LineEdges(line)
      BY <3>1 DEF LinearEdges
    <3>3. hasDimension(g, L) /\ ValidLine(line)
      BY <3>2, Dimensions, ShapeAssumption
    <3>4. PICK i \in DOMAIN line : line[i] = v
      BY <3>2, <3>3, LineEdgeCorner
    <3>5. v \in LineVertices(line)
      BY <3>4 DEF LineVertices
    <3> QED BY <1>2, <3>2, <3>3, <3>5, LocateIs DEF locateOnLines
  <2>3. EdgeLocation(g, {v, d}) = "E"
    BY <1>2, <2>2 DEF EdgeLocation
  <2> QED BY <2>1, <2>3 DEF OnOf, LeftOf, RightOf, FaceLocation
<1> QED BY <1>1, <1>2

\* Around a vertex inside an area there is nothing but the area.
LEMMA InsideAround ==
  ASSUME NEW g \in Geometry, NEW v, NEW d, <<v, d>> \in Dart, locate(g, v) = "I", hasDimension(g, A)
  PROVE  OnOf(g, v, d) = "I" /\ LeftOf(g, v, d) = "I" /\ RightOf(g, v, d) = "I"
<1>1. FacesAround(v) \subseteq Interior(g)
  BY LocateIs DEF locateOnPolygons
<1>2. LeftFace[<<v, d>>] \in Interior(g) /\ LeftFace[<<d, v>>] \in Interior(g)
  BY <1>1, DartCells
<1>3. EdgeLocation(g, {v, d}) = "I"
  BY <1>2, EdgeLocations
<1> QED BY <1>2, <1>3 DEF OnOf, LeftOf, RightOf, FaceLocation

\* An edge of a polygon has the inside on one side, and its ends on the
\* boundary.
LEMMA PolygonEdgeAround ==
  ASSUME NEW g \in Geometry, NEW p \in Shape[g].polygons, NEW v, NEW d, {v, d} \in PolygonEdges(p)
  PROVE  /\ <<v, d>> \in Dart /\ hasDimension(g, A) /\ locate(g, v) = "B" /\ OnOf(g, v, d) = "B"
         /\ \/ LeftOf(g, v, d) = "I" /\ RightOf(g, v, d) = "E"
            \/ LeftOf(g, v, d) = "E" /\ RightOf(g, v, d) = "I"
<1>1. /\ <<v, d>> \in Dart
      /\ LeftFace[<<v, d>>] \in Interior(g) <=> LeftFace[<<d, v>>] \notin Interior(g)
  BY PolygonEdgeSides
<1>2. hasDimension(g, A)
  BY Dimensions, ShapeAssumption
<1>3. OnOf(g, v, d) = "B"
  BY <1>1, <1>2, EdgeLocations DEF OnOf
<1>4. locate(g, v) = "B"
  <2>1. FacesAround(v) \cap Interior(g) # {} /\ ~(FacesAround(v) \subseteq Interior(g))
    BY <1>1, DartCells
  <2> QED BY <1>2, <2>1, LocateIs DEF locateOnPolygons
<1> QED BY <1>1, <1>2, <1>3, <1>4 DEF LeftOf, RightOf, FaceLocation

\* Each vertex of a ring has an edge of the polygon.
LEMMA RingVertexEdge ==
  ASSUME NEW g \in Geometry, NEW p \in Shape[g].polygons, NEW i \in DOMAIN p.rings, NEW k \in DOMAIN p.rings[i]
  PROVE  \E d : {p.rings[i][k], d} \in PolygonEdges(p)
<1>1. ValidPolygon(p)
  BY PolygonInside
<1>2. {p.rings[i][k], Cyclic(p.rings[i], k + 1)} \in RingEdges(p.rings[i])
  <2>1. RingEdges(p.rings[i]) = {{p.rings[i][j], Cyclic(p.rings[i], j + 1)} : j \in DOMAIN p.rings[i]}
    BY <1>1, RingEdgesAre
  <2> QED BY <2>1
<1> QED BY <1>2 DEF PolygonEdges

\* A polygon has at least three vertices, so it has an edge.
LEMMA PolygonHasEdge ==
  ASSUME NEW g \in Geometry, hasDimension(g, A)
  PROVE  \E p \in Shape[g].polygons : \E v, d : {v, d} \in PolygonEdges(p)
<1>1. PICK p \in Shape[g].polygons : TRUE
  BY Dimensions
<1>2. ValidPolygon(p)
  BY <1>1, PolygonInside
<1>3. 1 \in DOMAIN p.rings
  BY <1>2 DEF ValidPolygon
<1>4. 1 \in DOMAIN p.rings[1]
  BY <1>2, <1>3, RingEdgesAre
<1>5. PICK d : {p.rings[1][1], d} \in PolygonEdges(p)
  BY <1>1, <1>3, <1>4, RingVertexEdge
<1> QED BY <1>1, <1>5

------------------------------------------------------------------------------
(***************************************************************************)
(* What each kind of evidence tells is there.                              *)
(***************************************************************************)
\* addLineEndOnLine() and addLineEndOnArea() infer a length from the end of a
\* line: they take one of no length for a line like any other.
NoZeroLengthLines == \A g \in Geometry : \A line \in Shape[g].lines : LineEdges(line) # {}

\* What a face, an edge or a vertex shows.
LEMMA SeenFace ==
  ASSUME NEW g, NEW h, NEW f \in Face, NEW n \in Dimension
  PROVE  <<FaceLocation(g, f), FaceLocation(h, f), n>> \in SeenUpdates(g, h)
<1> DEFINE u == <<FaceLocation(g, f), FaceLocation(h, f), n>>
<1>1. FaceLocation(g, f) \in Location /\ FaceLocation(h, f) \in Location
  BY DEF FaceLocation, Location
<1>2. u \in Update
  BY <1>1 DEF Update
<1>3. Seen(g, h, u)
  BY DEF Seen
<1> QED BY <1>2, <1>3 DEF SeenUpdates

LEMMA SeenEdge ==
  ASSUME NEW g, NEW h, NEW e \in Edge
  PROVE  <<EdgeLocation(g, e), EdgeLocation(h, e), L>> \in SeenUpdates(g, h)
<1> DEFINE u == <<EdgeLocation(g, e), EdgeLocation(h, e), L>>
<1>1. EdgeLocation(g, e) \in Location /\ EdgeLocation(h, e) \in Location
  BY DEF EdgeLocation, Location
<1>2. u \in Update
  BY <1>1 DEF Update, Dimension
<1>3. Seen(g, h, u)
  BY DEF Seen, L
<1> QED BY <1>2, <1>3 DEF SeenUpdates

LEMMA LocateIsLocation == \A g \in Geometry : \A v : locate(g, v) \in Location
BY LocateIs DEF locateOnLines, locateOnPolygons, Location

LEMMA SeenVertex ==
  ASSUME NEW g \in Geometry, NEW h \in Geometry, NEW v \in Vertex
  PROVE  <<locate(g, v), locate(h, v), P>> \in SeenUpdates(g, h)
<1> DEFINE u == <<locate(g, v), locate(h, v), P>>
<1>1. u \in Update
  BY LocateIsLocation DEF Update, Dimension
<1>2. Seen(g, h, u)
  BY DEF Seen, P
<1> QED BY <1>1, <1>2 DEF SeenUpdates

\* The edge from v to d and its sides.
LEMMA SeenDart ==
  ASSUME NEW g, NEW h, NEW v, NEW d, <<v, d>> \in Dart
  PROVE  /\ <<OnOf(g, v, d), OnOf(h, v, d), L>> \in SeenUpdates(g, h)
         /\ \A n \in Dimension : <<LeftOf(g, v, d), LeftOf(h, v, d), n>> \in SeenUpdates(g, h)
         /\ \A n \in Dimension : <<RightOf(g, v, d), RightOf(h, v, d), n>> \in SeenUpdates(g, h)
BY DartCells, SeenFace, SeenEdge DEF OnOf, LeftOf, RightOf

\* A polygon of g beside something that has no area.
LEMMA AreaSeen ==
  ASSUME NEW g \in Geometry, NEW h \in Geometry, hasDimension(g, A), ~hasDimension(h, A)
  PROVE  /\ <<"I", "E", A>> \in SeenUpdates(g, h) /\ <<"E", "I", A>> \in SeenUpdates(h, g)
         /\ ~hasDimension(h, L) => <<"B", "E", L>> \in SeenUpdates(g, h) /\ <<"E", "B", L>> \in SeenUpdates(h, g)
<1>1. PICK p \in Shape[g].polygons : \E v, d : {v, d} \in PolygonEdges(p)
  BY PolygonHasEdge
<1>2. PICK v, d : {v, d} \in PolygonEdges(p)
  BY <1>1
<1>3. /\ <<v, d>> \in Dart /\ OnOf(g, v, d) = "B"
      /\ \/ LeftOf(g, v, d) = "I" /\ RightOf(g, v, d) = "E"
         \/ LeftOf(g, v, d) = "E" /\ RightOf(g, v, d) = "I"
  BY <1>1, <1>2, PolygonEdgeAround
<1>4. LeftOf(h, v, d) = "E" /\ RightOf(h, v, d) = "E"
  BY NoAreaInside DEF LeftOf, RightOf, FaceLocation
<1>5. ~hasDimension(h, L) => OnOf(h, v, d) = "E"
  <2>1. ~hasDimension(h, L) => LinearEdges(h) = {}
    BY Dimensions DEF LinearEdges
  <2> QED BY <2>1 DEF OnOf, EdgeLocation
<1>6. A \in Dimension
  BY DEF Dimension
<1>7. /\ \/ <<"I", "E", A>> = <<LeftOf(g, v, d), LeftOf(h, v, d), A>>
         \/ <<"I", "E", A>> = <<RightOf(g, v, d), RightOf(h, v, d), A>>
      /\ \/ <<"E", "I", A>> = <<LeftOf(h, v, d), LeftOf(g, v, d), A>>
         \/ <<"E", "I", A>> = <<RightOf(h, v, d), RightOf(g, v, d), A>>
  BY <1>3, <1>4
<1>8. <<"I", "E", A>> \in SeenUpdates(g, h) /\ <<"E", "I", A>> \in SeenUpdates(h, g)
  BY <1>3, <1>6, <1>7, SeenDart
<1>9. ASSUME ~hasDimension(h, L)
      PROVE  <<"B", "E", L>> \in SeenUpdates(g, h) /\ <<"E", "B", L>> \in SeenUpdates(h, g)
  <2>1. <<OnOf(g, v, d), OnOf(h, v, d), L>> \in SeenUpdates(g, h) /\ <<OnOf(h, v, d), OnOf(g, v, d), L>> \in SeenUpdates(h, g)
    BY <1>3, SeenDart
  <2> QED BY <1>3, <1>5, <1>9, <2>1
<1> QED BY <1>8, <1>9

\* A line of g beside something that has no edges.
LEMMA LineSeen ==
  ASSUME NoZeroLengthLines, NEW g \in Geometry, NEW h \in Geometry,
         hasDimension(g, L), ~hasDimension(h, A), ~hasDimension(h, L)
  PROVE  <<"I", "E", L>> \in SeenUpdates(g, h) /\ <<"E", "I", L>> \in SeenUpdates(h, g)
<1>1. PICK line \in Shape[g].lines : TRUE
  BY Dimensions
<1>2. PICK e \in LineEdges(line) : TRUE
  BY <1>1 DEF NoZeroLengthLines
<1>3. e \in Edge /\ e \in LinearEdges(g)
  BY <1>1, <1>2, ShapeAssumption DEF ValidLine, LinearEdges
<1>4. EdgeLocation(g, e) = "I"
  BY <1>3, LinesInside DEF EdgeLocation
<1>5. EdgeLocation(h, e) = "E"
  BY Dimensions DEF EdgeLocation, LinearEdges
<1> QED BY <1>3, <1>4, <1>5, SeenEdge

------------------------------------------------------------------------------
\* A point of the source.
LEMMA PointsSeen ==
  ASSUME a \in Geometry, b \in Geometry, NEW v \in Shape[source].points
  PROVE  PointUpdates(locate(target, v)) \in Seq(SeenUpdates(source, target))
<1> DEFINE g == source
           h == target
           U == SeenUpdates(g, h)
           here == <<"I", locate(h, v), P>>
           inside == <<"E", "I", A>>
           border == <<"E", "B", L>>
<1>1. g \in Geometry /\ h \in Geometry
  BY DEF source, target
<1>2. v \in Shape[g].points
  OBVIOUS
<1>3. PointUpdates(locate(h, v)) =
        <<here>> \o (IF ~isEmpty(h) /\ getDimension(h) = A THEN <<inside, border>> ELSE <<>>)
  BY DEF PointUpdates
<1> HIDE DEF g, h
<1>4. v \in Vertex /\ hasDimension(g, P) /\ ~hasDimension(g, A) /\ ~hasDimension(g, L)
  <2>1. v \in Vertex /\ Shape[g].type = P
    BY <1>1, <1>2, ShapeAssumption
  <2>2. P # L /\ P # A
    BY DEF P, L, A
  <2> QED BY <1>1, <1>2, <2>1, <2>2, Dimensions
<1>5. locate(g, v) = "I"
  BY <1>1, <1>2, <1>4, LocateIs
<1>6. here \in U
  <2>1. <<locate(g, v), locate(h, v), P>> \in U
    BY <1>1, <1>4, SeenVertex
  <2> QED BY <1>5, <2>1
<1>7. CASE ~isEmpty(h) /\ getDimension(h) = A
  <2>1. hasDimension(h, A)
    BY <1>7 DEF hasDimension, getDimension
  <2>2. inside \in U /\ border \in U
    BY <1>1, <1>4, <2>1, AreaSeen
  <2> HIDE DEF U, here, inside, border
  <2>3. <<here>> \in Seq(U) /\ <<inside, border>> \in Seq(U)
    BY <1>6, <2>2
  <2>4. <<here>> \o <<inside, border>> \in Seq(U)
    BY <2>3
  <2>5. PointUpdates(locate(h, v)) \in Seq(U)
    BY <1>3, <1>7, <2>4
  <2> QED BY <2>5 DEF U, g, h
<1>8. CASE ~(~isEmpty(h) /\ getDimension(h) = A)
  <2> HIDE DEF U, here
  <2>1. <<here>> \o <<>> \in Seq(U)
    BY <1>6
  <2>2. PointUpdates(locate(h, v)) \in Seq(U)
    BY <1>3, <1>8, <2>1
  <2> QED BY <2>2 DEF U, g, h
<1> QED BY <1>7, <1>8

------------------------------------------------------------------------------
LineEnds(g) == UNION {{line[1], line[Len(line)]} : line \in Shape[g].lines}

\* At an end of a line that has a length the line goes on in some edge.
LEMMA LineEndEdge ==
  ASSUME NoZeroLengthLines, NEW g \in Geometry, NEW v \in LineEnds(g)
  PROVE  /\ v \in Vertex /\ hasDimension(g, L) /\ locate(g, v) = locateLineEnd(g, v)
         /\ \E d : <<v, d>> \in Dart /\ OnOf(g, v, d) = "I" /\ LeftOf(g, v, d) = "E"
<1>1. PICK line \in Shape[g].lines : v \in {line[1], line[Len(line)]}
  BY DEF LineEnds
<1>2. ValidLine(line) /\ LineEdges(line) # {} /\ hasDimension(g, L)
  BY <1>1, Dimensions, ShapeAssumption DEF NoZeroLengthLines
<1> DEFINE m == Len(line)
<1>3. line \in Seq(Vertex) /\ m \in Nat /\ m >= 2 /\ DOMAIN line = 1..m
      /\ LineEdges(line) \subseteq Edge /\ \A i \in 1..(m - 1) : line[i] # line[i + 1]
  BY <1>2 DEF ValidLine
<1>4. 1 \in 1..m /\ m \in 1..m /\ 1 \in 1..(m - 1) /\ m - 1 \in 1..(m - 1) /\ (m - 1) + 1 = m /\ 1 + 1 = 2
  BY <1>3
<1>5. v \in Vertex /\ v \in LineVertices(line)
  <2>1. \A i \in 1..m : line[i] \in Vertex
    BY <1>3
  <2> QED BY <1>1, <1>3, <1>4, <2>1 DEF LineVertices
<1>6. \A i \in 1..(m - 1) : {line[i], line[i + 1]} \in LineEdges(line)
  BY <1>3 DEF LineEdges
<1>7. {line[1], line[2]} \in LineEdges(line) /\ {line[m - 1], line[m]} \in LineEdges(line)
  BY <1>4, <1>6
<1>8. \E d : {v, d} \in LineEdges(line)
  <2>1. CASE v = line[1]
    BY <1>7, <2>1
  <2>2. CASE v = line[m]
    <3>1. {line[m], line[m - 1]} \in LineEdges(line)
      <4>1. {line[m], line[m - 1]} = {line[m - 1], line[m]}
        OBVIOUS
      <4> QED BY <1>7, <4>1
    <3> QED BY <2>2, <3>1
  <2> QED BY <1>1, <2>1, <2>2
<1>9. PICK d : {v, d} \in LineEdges(line)
  BY <1>8
<1>10. <<v, d>> \in Dart
  BY <1>3, <1>9, DartOf
<1>11. {v, d} \in LinearEdges(g)
  BY <1>1, <1>9 DEF LinearEdges
<1>12. Interior(g) = {} /\ ~hasDimension(g, A)
  BY <1>2, LinesInside
<1>13. OnOf(g, v, d) = "I" /\ LeftOf(g, v, d) = "E"
  BY <1>11, <1>12 DEF OnOf, LeftOf, EdgeLocation, FaceLocation
<1>14. locate(g, v) = locateLineEnd(g, v)
  <2>1. locate(g, v) = locateOnLines(g, v)
    BY <1>2, <1>12, LocateIs
  <2> QED BY <1>1, <1>5, <2>1 DEF locateOnLines, locateLineEnd
<1> QED BY <1>2, <1>5, <1>10, <1>13, <1>14

\* An end of a line of the source.
LEMMA LineEndsSeen ==
  ASSUME NoZeroLengthLines, a \in Geometry, b \in Geometry, NEW v \in LineEnds(source)
  PROVE  LineEndUpdates(locateLineEnd(source, v), locate(target, v)) \in Seq(SeenUpdates(source, target))
<1> DEFINE g == source
           h == target
           U == SeenUpdates(g, h)
           loc == locate(h, v)
           here == <<locateLineEnd(g, v), loc, P>>
           more == CASE hasDimension(h, L) /\ loc = "E" -> << <<"I", "E", L>> >>
                     [] hasDimension(h, A) /\ loc # "B" -> << <<"I", loc, L>>, <<"E", loc, A>> >>
                     [] OTHER -> <<>>
<1>1. g \in Geometry /\ h \in Geometry /\ v \in LineEnds(g)
  BY DEF source, target
<1>2. LineEndUpdates(locateLineEnd(g, v), loc) = <<here>> \o more
  BY DEF LineEndUpdates
<1>3. SUFFICES LineEndUpdates(locateLineEnd(g, v), loc) \in Seq(U)
  OBVIOUS
<1> HIDE DEF g, h
<1>4. v \in Vertex /\ locate(g, v) = locateLineEnd(g, v)
  BY <1>1, LineEndEdge
<1>5. PICK d : <<v, d>> \in Dart /\ OnOf(g, v, d) = "I" /\ LeftOf(g, v, d) = "E"
  BY <1>1, LineEndEdge
<1>6. here \in U
  <2>1. <<locate(g, v), locate(h, v), P>> \in U
    BY <1>1, <1>4, SeenVertex
  <2> QED BY <1>4, <2>1
<1>7. loc \in Location
  BY <1>1, LocateIsLocation
<1>8. A \in Dimension /\ L # A
  BY DEF Dimension, L, A
<1>9. <<"I", OnOf(h, v, d), L>> \in U /\ <<"E", LeftOf(h, v, d), A>> \in U
  BY <1>5, <1>8, SeenDart
<1>10. more \in Seq(U)
  <2>1. ~(hasDimension(h, L) /\ hasDimension(h, A))
    BY <1>8 DEF hasDimension
  <2>2. CASE hasDimension(h, L) /\ loc = "E"
    <3>1. OnOf(h, v, d) = "E"
      BY <1>1, <1>5, <2>2, OutsideAround
    <3>2. <<"I", "E", L>> \in U
      BY <1>9, <3>1
    <3>3. more = << <<"I", "E", L>> >>
      BY <2>1, <2>2
    <3> QED BY <3>2, <3>3
  <2>3. CASE hasDimension(h, A) /\ loc # "B"
    <3>1. loc = "E" \/ loc = "I"
      BY <1>7, <2>3 DEF Location
    <3>2. OnOf(h, v, d) = loc /\ LeftOf(h, v, d) = loc
      BY <1>1, <1>5, <2>3, <3>1, OutsideAround, InsideAround
    <3>3. <<"I", loc, L>> \in U /\ <<"E", loc, A>> \in U
      BY <1>9, <3>2
    <3>4. more = << <<"I", loc, L>>, <<"E", loc, A>> >>
      BY <2>1, <2>3
    <3> HIDE DEF U, loc, more
    <3> QED BY <3>3, <3>4
  <2>4. CASE ~(hasDimension(h, L) /\ loc = "E") /\ ~(hasDimension(h, A) /\ loc # "B")
    <3>1. more = <<>>
      BY <2>4
    <3> QED BY <3>1
  <2> QED BY <2>2, <2>3, <2>4
<1> HIDE DEF here, more, U
<1>11. <<here>> \in Seq(U)
  BY <1>6
<1>12. <<here>> \o more \in Seq(U)
  BY <1>10, <1>11
<1> QED BY <1>2, <1>12

------------------------------------------------------------------------------
RingStarts(g) == UNION {{p.rings[i][1] : i \in DOMAIN p.rings} : p \in Shape[g].polygons}

\* The first vertex of a ring has an edge with the inside on one side.
LEMMA RingStartEdge ==
  ASSUME NEW g \in Geometry, NEW v \in RingStarts(g)
  PROVE  /\ v \in Vertex /\ hasDimension(g, A) /\ locate(g, v) = "B"
         /\ \E d : /\ <<v, d>> \in Dart /\ OnOf(g, v, d) = "B"
                   /\ \/ LeftOf(g, v, d) = "I" /\ RightOf(g, v, d) = "E"
                      \/ LeftOf(g, v, d) = "E" /\ RightOf(g, v, d) = "I"
<1>1. PICK p \in Shape[g].polygons : v \in {p.rings[i][1] : i \in DOMAIN p.rings}
  BY DEF RingStarts
<1>2. PICK i \in DOMAIN p.rings : v = p.rings[i][1]
  BY <1>1
<1>3. ValidPolygon(p)
  BY <1>1, PolygonInside
<1>4. 1 \in DOMAIN p.rings[i]
  BY <1>3, RingEdgesAre
<1>5. PICK d : {v, d} \in PolygonEdges(p)
  BY <1>1, <1>2, <1>4, RingVertexEdge
<1>6. /\ <<v, d>> \in Dart /\ hasDimension(g, A) /\ locate(g, v) = "B" /\ OnOf(g, v, d) = "B"
      /\ \/ LeftOf(g, v, d) = "I" /\ RightOf(g, v, d) = "E"
         \/ LeftOf(g, v, d) = "E" /\ RightOf(g, v, d) = "I"
  BY <1>1, <1>5, PolygonEdgeAround
<1>7. v \in Vertex
  BY <1>6, DartCells
<1> QED BY <1>6, <1>7

\* A vertex of a ring of the source.
LEMMA RingStartsSeen ==
  ASSUME a \in Geometry, b \in Geometry, NEW v \in RingStarts(source)
  PROVE  AreaVertexUpdates(locate(target, v)) \in Seq(SeenUpdates(source, target))
<1> DEFINE g == source
           h == target
           U == SeenUpdates(g, h)
           loc == locate(h, v)
           here == <<"B", loc, P>>
           on(l) == <<"B", l, L>>
           in(l) == <<"I", l, A>>
           out(l) == <<"E", l, A>>
<1>1. g \in Geometry /\ h \in Geometry /\ v \in RingStarts(g)
  BY DEF source, target
<1>2. AreaVertexUpdates(loc) =
        CASE loc = "E" -> <<in("E"), on("E"), out("E")>>
          [] loc # "E" /\ getDimension(h) = P -> << <<"B", "I", P>>, in("E"), on("E"), out("E")>>
          [] loc # "E" /\ getDimension(h) = L -> <<here>>
          [] loc = "B" /\ getDimension(h) = A -> << <<"B", "B", P>> >>
          [] loc = "I" /\ getDimension(h) = A -> <<in(loc), on(loc), out(loc)>>
  BY DEF AreaVertexUpdates
<1>3. SUFFICES AreaVertexUpdates(loc) \in Seq(U)
  OBVIOUS
<1> HIDE DEF g, h
<1>4. v \in Vertex /\ locate(g, v) = "B"
  BY <1>1, RingStartEdge
<1>5. PICK d : /\ <<v, d>> \in Dart /\ OnOf(g, v, d) = "B"
               /\ \/ LeftOf(g, v, d) = "I" /\ RightOf(g, v, d) = "E"
                  \/ LeftOf(g, v, d) = "E" /\ RightOf(g, v, d) = "I"
  BY <1>1, RingStartEdge
<1>6. here \in U
  <2>1. <<locate(g, v), locate(h, v), P>> \in U
    BY <1>1, <1>4, SeenVertex
  <2> QED BY <1>4, <2>1
<1>7. A \in Dimension /\ P # L /\ P # A /\ L # A
  BY DEF Dimension, P, L, A
<1>8. /\ <<OnOf(g, v, d), OnOf(h, v, d), L>> \in U
      /\ <<LeftOf(g, v, d), LeftOf(h, v, d), A>> \in U
      /\ <<RightOf(g, v, d), RightOf(h, v, d), A>> \in U
  BY <1>5, <1>7, SeenDart
<1>9. ASSUME NEW l, OnOf(h, v, d) = l, LeftOf(h, v, d) = l, RightOf(h, v, d) = l
      PROVE  on(l) \in U /\ in(l) \in U /\ out(l) \in U
  BY <1>5, <1>8, <1>9
<1>10. CASE loc = "E"
  <2>1. on("E") \in U /\ in("E") \in U /\ out("E") \in U
    BY <1>1, <1>5, <1>9, <1>10, OutsideAround
  <2>2. AreaVertexUpdates(loc) = <<in("E"), on("E"), out("E")>>
    BY <1>2, <1>10
  <2> HIDE DEF U, on, in, out
  <2> QED BY <2>1, <2>2
<1>11. CASE loc # "E"
  <2>1. hasDimension(h, A) \/ hasDimension(h, L) \/ (hasDimension(h, P) /\ loc = "I")
    BY <1>1, <1>11, LocateIs
  <2>2. CASE hasDimension(h, P) /\ loc = "I"
    <3>1. getDimension(h) = P /\ ~hasDimension(h, A) /\ ~hasDimension(h, L)
      BY <1>7, <2>2 DEF hasDimension, getDimension
    <3>2. LeftOf(h, v, d) = "E" /\ RightOf(h, v, d) = "E"
      BY <1>1, <3>1, NoAreaInside DEF LeftOf, RightOf, FaceLocation
    <3>3. OnOf(h, v, d) = "E"
      BY <1>1, <3>1, Dimensions DEF OnOf, EdgeLocation, LinearEdges
    <3>4. on("E") \in U /\ in("E") \in U /\ out("E") \in U
      BY <1>9, <3>2, <3>3
    <3>5. AreaVertexUpdates(loc) = <<here, in("E"), on("E"), out("E")>>
      BY <1>2, <1>11, <2>2, <3>1
    <3> HIDE DEF U, on, in, out, here
    <3> QED BY <1>6, <3>4, <3>5
  <2>3. CASE hasDimension(h, L)
    <3>1. AreaVertexUpdates(loc) = <<here>>
      <4>1. getDimension(h) = L
        BY <2>3 DEF hasDimension, getDimension
      <4> QED BY <1>2, <1>7, <1>11, <4>1
    <3> HIDE DEF U, here
    <3> QED BY <1>6, <3>1
  <2>4. CASE hasDimension(h, A)
    <3>1. getDimension(h) = A
      BY <2>4 DEF hasDimension, getDimension
    <3>2. CASE loc = "B"
      <4>1. AreaVertexUpdates(loc) = <<here>>
        BY <1>2, <1>7, <3>1, <3>2
      <4> HIDE DEF U, here
      <4> QED BY <1>6, <4>1
    <3>3. CASE loc = "I"
      <4>1. on("I") \in U /\ in("I") \in U /\ out("I") \in U
        BY <1>1, <1>5, <1>9, <2>4, <3>3, InsideAround
      <4>2. AreaVertexUpdates(loc) = <<in("I"), on("I"), out("I")>>
        BY <1>2, <1>7, <3>1, <3>3
      <4> HIDE DEF U, on, in, out
      <4> QED BY <4>1, <4>2
    <3>4. loc \in Location
      BY <1>1, LocateIsLocation
    <3> QED BY <1>11, <3>2, <3>3, <3>4 DEF Location
  <2> QED BY <2>1, <2>2, <2>3, <2>4
<1> QED BY <1>10, <1>11

------------------------------------------------------------------------------
\* locateNode() agrees with locate() where the geometry has edges.
LEMMA NodeLocated ==
  ASSUME NEW g \in Geometry, NEW v, SectionsAt(g, v) # {}
  PROVE  locateNode(g, v) = locate(g, v)
<1>1. PICK s \in SectionsAt(g, v) : TRUE
  OBVIOUS
<1>2. s.dim \in {L, A} /\ s = [dim |-> s.dim, corner |-> s.corner]
  BY SectionsAre
<1>3. ~(hasDimension(g, A) /\ hasDimension(g, L))
  BY DEF hasDimension, L, A
<1>4. CASE hasDimension(g, A)
  <2>1. s.dim # L
    <3> SUFFICES ASSUME s.dim = L PROVE FALSE
      OBVIOUS
    <3>1. s.corner \in LineCorners(g, v)
      BY <1>2, SectionsAre
    <3>2. PICK line \in Shape[g].lines : s.corner \in LineSections(line, v)
      BY <3>1, LineCornersAre
    <3>3. Shape[g].type = L
      BY <3>2, ShapeAssumption
    <3> QED BY <1>4, <3>3 DEF hasDimension, L, A
  <2>2. s.corner \in AreaCorners(g, v)
    BY <1>1, <1>2, <2>1, SectionsAre
  <2>3. PICK p \in Shape[g].polygons : \E i \in DOMAIN p.rings : s.corner \in RingSections(p, p.rings[i], v)
    BY <2>2, AreaCornersAre
  <2>4. PICK i \in DOMAIN p.rings : s.corner \in RingSections(p, p.rings[i], v)
    BY <2>3
  <2>5. PICK k \in DOMAIN p.rings[i] : p.rings[i][k] = v
    BY <2>4 DEF RingSections
  <2>6. PICK d : {v, d} \in PolygonEdges(p)
    BY <2>3, <2>5, RingVertexEdge
  <2>7. locate(g, v) = "B"
    BY <2>3, <2>6, PolygonEdgeAround
  <2> QED BY <1>3, <1>4, <2>7 DEF locateNode
<1>5. CASE hasDimension(g, L)
  <2>1. s.dim # A
    <3> SUFFICES ASSUME s.dim = A PROVE FALSE
      OBVIOUS
    <3>1. s.corner \in AreaCorners(g, v)
      BY <1>2, SectionsAre
    <3>2. PICK p \in Shape[g].polygons : TRUE
      BY <3>1, AreaCornersAre
    <3>3. Shape[g].type = A
      BY <3>2, ShapeAssumption
    <3> QED BY <1>5, <3>3 DEF hasDimension, L, A
  <2>2. s.corner \in LineCorners(g, v)
    BY <1>1, <1>2, <2>1, SectionsAre
  <2>3. PICK line \in Shape[g].lines : s.corner \in LineSections(line, v)
    BY <2>2, LineCornersAre
  <2>4. v \in LineVertices(line)
    BY <2>3 DEF LineSections, LineVertices
  <2>5. locate(g, v) = locateOnLines(g, v)
    BY <1>3, <1>5, LocateIs
  <2> QED BY <1>3, <1>5, <2>3, <2>4, <2>5 DEF locateOnLines, locateNode
<1>6. CASE ~hasDimension(g, A) /\ ~hasDimension(g, L)
  BY <1>6 DEF locateNode
<1> QED BY <1>4, <1>5, <1>6

------------------------------------------------------------------------------
\* Two corners that cross share a sector.
LEMMA CrossingSectors ==
  ASSUME NEW v, NEW r, IsAround(v, r), NEW i \in 1..Count(v), NEW j \in 1..Count(v), NEW k \in 1..Count(v),
         NEW l \in 1..Count(v), isCrossing(v, <<r[i], r[j]>>, <<r[k], r[l]>>)
  PROVE  InSector(i, j, k) \/ InSector(k, l, i)
<1> DEFINE lo == IF i > j THEN j ELSE i
           hi == IF i > j THEN i ELSE j
           side(x) == compareBetween(v, r[x], r[lo], r[hi])
<1>1. i \in Int /\ j \in Int /\ k \in Int /\ l \in Int
  OBVIOUS
<1>2. lo \in 1..Count(v) /\ hi \in 1..Count(v)
  OBVIOUS
<1>3. \A x, y \in 1..Count(v) : compareAngle(v, r[x], r[y]) = IF x < y THEN -1 ELSE IF x > y THEN 1 ELSE 0
  BY AroundFacts
<1>4. compareAngle(v, r[i], r[j]) > 0 <=> i > j
  BY <1>1, <1>3
<1>5. r[lo] = (IF compareAngle(v, r[i], r[j]) > 0 THEN r[j] ELSE r[i])
      /\ r[hi] = (IF compareAngle(v, r[i], r[j]) > 0 THEN r[i] ELSE r[j])
  BY <1>4
<1>6. side(k) # 0 /\ side(l) # 0 /\ side(k) # side(l)
  BY <1>5 DEF isCrossing
<1> HIDE DEF lo, hi
<1>7. ASSUME NEW x \in 1..Count(v)
      PROVE  side(x) = IF x = lo \/ x = hi THEN 0 ELSE IF lo < x /\ x < hi THEN 1 ELSE -1
  <2>1. x \in Int /\ lo \in Int /\ hi \in Int
    BY <1>2
  <2>2. /\ compareAngle(v, r[x], r[lo]) = IF x < lo THEN -1 ELSE IF x > lo THEN 1 ELSE 0
        /\ compareAngle(v, r[x], r[hi]) = IF x < hi THEN -1 ELSE IF x > hi THEN 1 ELSE 0
    BY <1>2, <1>3
  <2> QED BY <2>1, <2>2 DEF compareBetween
<1>8. /\ k # lo /\ k # hi /\ l # lo /\ l # hi
      /\ (lo < k /\ k < hi) <=> ~(lo < l /\ l < hi)
  <2>1. /\ side(k) = IF k = lo \/ k = hi THEN 0 ELSE IF lo < k /\ k < hi THEN 1 ELSE -1
        /\ side(l) = IF l = lo \/ l = hi THEN 0 ELSE IF lo < l /\ l < hi THEN 1 ELSE -1
    BY <1>7
  <2> HIDE DEF side
  <2> QED BY <1>6, <2>1
<1> QED BY <1>1, <1>8 DEF InSector, lo, hi

\* Areas whose corners cross have a face in common.
LEMMA CrossSeen ==
  ASSUME NEW g \in Geometry, NEW h \in Geometry, NEW v \in Vertex, AreasCross(g, h, v)
  PROVE  <<"I", "I", A>> \in SeenUpdates(g, h)
<1>1. PICK r : IsAround(v, r)
  BY AroundExists
<1> DEFINE Crossed(s, t) == s.dim = A /\ t.dim = A /\ isCrossing(v, s.corner, t.corner)
<1>2. PICK s \in SectionsAt(g, v) : \E t \in SectionsAt(h, v) : Crossed(s, t)
  BY DEF AreasCross
<1>3. PICK t \in SectionsAt(h, v) : Crossed(s, t)
  BY <1>2
<1>4. ASSUME NEW x \in Geometry, NEW s0 \in SectionsAt(x, v), s0.dim = A
      PROVE  \E c \in Corners(x, v, r) : s0.corner = <<r[c[1]], r[c[2]]>>
  <2>1. s0 = [dim |-> A, corner |-> s0.corner]
    BY <1>4, SectionsAre
  <2>2. s0.corner \in AreaCorners(x, v)
    BY <2>1, SectionsAre
  <2>3. PICK p \in Shape[x].polygons : \E m \in DOMAIN p.rings : s0.corner \in RingSections(p, p.rings[m], v)
    BY <2>2, AreaCornersAre
  <2>4. PICK m \in DOMAIN p.rings : s0.corner \in RingSections(p, p.rings[m], v)
    BY <2>3
  <2>5. PICK i0 \in 1..Count(v), j0 \in 1..Count(v) : s0.corner = <<r[i0], r[j0]>>
    BY <1>1, <2>4, SectorOf
  <2>6. <<i0, j0>> \in Corners(x, v, r)
    BY <2>1, <2>5 DEF Corners
  <2> QED BY <2>5, <2>6
<1>5. PICK c \in Corners(g, v, r) : s.corner = <<r[c[1]], r[c[2]]>>
  BY <1>3, <1>4
<1>6. PICK e \in Corners(h, v, r) : t.corner = <<r[e[1]], r[e[2]]>>
  BY <1>3, <1>4
<1>7. /\ c[1] \in 1..Count(v) /\ c[2] \in 1..Count(v) /\ c[1] # c[2]
      /\ \A k \in 1..Count(v) : InSector(c[1], c[2], k) => FaceAt(v, r, k) \in Interior(g)
  BY <1>1, CornerSectors
<1>8. /\ e[1] \in 1..Count(v) /\ e[2] \in 1..Count(v) /\ e[1] # e[2]
      /\ \A k \in 1..Count(v) : InSector(e[1], e[2], k) => FaceAt(v, r, k) \in Interior(h)
  BY <1>1, CornerSectors
<1>9. InSector(c[1], c[2], e[1]) \/ InSector(e[1], e[2], c[1])
  <2>1. isCrossing(v, <<r[c[1]], r[c[2]]>>, <<r[e[1]], r[e[2]]>>)
    BY <1>3, <1>5, <1>6
  <2> QED BY <1>1, <1>7, <1>8, <2>1, CrossingSectors
<1>10. InSector(c[1], c[2], c[1]) /\ InSector(e[1], e[2], e[1])
  BY <1>7, <1>8 DEF InSector
<1>11. PICK k \in 1..Count(v) : FaceAt(v, r, k) \in Interior(g) /\ FaceAt(v, r, k) \in Interior(h)
  BY <1>7, <1>8, <1>9, <1>10
<1>12. FaceAt(v, r, k) \in Face
  BY <1>1, AroundFacts
<1>13. <<FaceLocation(g, FaceAt(v, r, k)), FaceLocation(h, FaceAt(v, r, k)), A>> \in SeenUpdates(g, h)
  BY <1>12, SeenFace DEF Dimension
<1> QED BY <1>11, <1>13 DEF FaceLocation

\* An intersection of segments.
LEMMA SegmentsSeen ==
  ASSUME a \in Geometry, b \in Geometry, NEW v \in SharedVertices
  PROVE  SegmentUpdates(v) \in Seq(SeenUpdates(a, b))
<1> DEFINE U == SeenUpdates(a, b)
           here == <<locateNode(a, v), locateNode(b, v), P>>
           cross == IF AreasCross(a, b, v) THEN << <<"I", "I", A>> >> ELSE <<>>
<1>1. v \in Vertex /\ SectionsAt(a, v) # {} /\ SectionsAt(b, v) # {}
  BY DEF SharedVertices, hasInteractionAB
<1>2. here \in U
  BY <1>1, NodeLocated, SeenVertex
<1>3. cross \in Seq(U)
  <2>1. CASE AreasCross(a, b, v)
    <3>1. <<"I", "I", A>> \in U
      BY <1>1, <2>1, CrossSeen
    <3>2. << <<"I", "I", A>> >> \in Seq(U)
      BY <3>1
    <3> QED BY <2>1, <3>2
  <2>2. CASE ~AreasCross(a, b, v)
    BY <2>2
  <2> QED BY <2>1, <2>2
<1>4. SegmentUpdates(v) = cross \o <<here>>
  BY DEF SegmentUpdates
<1> HIDE DEF U, here, cross
<1>5. cross \o <<here>> \in Seq(U)
  BY <1>2, <1>3
<1> QED BY <1>4, <1>5 DEF U

------------------------------------------------------------------------------
\* What is seen of two geometries is seen of them in the other order.
LEMMA SeenOriented ==
  ASSUME NEW g, NEW h, NEW isAB \in BOOLEAN, NEW us \in Seq(SeenUpdates(g, h))
  PROVE  OrientedAll(isAB, us) \in Seq(IF isAB THEN SeenUpdates(g, h) ELSE SeenUpdates(h, g))
<1> DEFINE U == SeenUpdates(g, h)
           V == IF isAB THEN SeenUpdates(g, h) ELSE SeenUpdates(h, g)
<1>1. ASSUME NEW u \in U PROVE Oriented(isAB, u) \in V
  <2>1. u \in Update /\ Seen(g, h, u)
    BY DEF SeenUpdates
  <2>2. CASE isAB
    BY <2>2 DEF Oriented
  <2>3. CASE ~isAB
    <3> DEFINE w == <<u[2], u[1], u[3]>>
    <3>1. w \in Update
      BY <2>1 DEF Update
    <3>2. Seen(h, g, w)
      BY <2>1 DEF Seen
    <3>3. Oriented(isAB, u) = w
      BY <2>3 DEF Oriented
    <3> HIDE DEF w
    <3> QED BY <2>3, <3>1, <3>2, <3>3 DEF SeenUpdates
  <2> QED BY <2>2, <2>3
<1> HIDE DEF U, V
<1>2. us \in Seq(U)
  BY DEF U
<1>3. OrientedAll(isAB, us) \in Seq(V)
  <2>1. OrientedAll(isAB, us) = [i \in 1..Len(us) |-> Oriented(isAB, us[i])]
    BY <1>2 DEF OrientedAll
  <2>2. \A i \in 1..Len(us) : Oriented(isAB, us[i]) \in V
    BY <1>1, <1>2
  <2> QED BY <1>2, <2>1, <2>2
<1> QED BY <1>3 DEF V

\* The dimension of a geometry whose lines have a length.
LEMMA RealDimensions ==
  ASSUME NoZeroLengthLines, NEW g \in Geometry
  PROVE  /\ getDimensionReal(g) = IF isEmpty(g) THEN None ELSE Shape[g].type
         /\ \A d \in {P, L, A} : getDimensionReal(g) = d <=> hasDimension(g, d)
         /\ getDimensionReal(g) \in Dimension
<1>1. isLineZeroLen(g) => isEmpty(g)
  <2> SUFFICES ASSUME isLineZeroLen(g), ~isEmpty(g) PROVE FALSE
    OBVIOUS
  <2>1. Shape[g].type = L /\ \A line \in Shape[g].lines : LineEdges(line) = {}
    BY DEF isLineZeroLen
  <2>2. Shape[g].lines # {}
    BY <2>1, Dimensions DEF hasDimension, P, L, A
  <2> QED BY <2>1, <2>2 DEF NoZeroLengthLines
<1>2. Shape[g].type \in {P, L, A}
  BY Dimensions
<1> QED BY <1>1, <1>2 DEF getDimensionReal, hasDimension, None, P, L, A, Dimension

\* A geometry beside an empty one.
LEMMA ExteriorEmptySeen ==
  ASSUME NoZeroLengthLines, NEW g \in Geometry, NEW h \in Geometry, ~isEmpty(g), isEmpty(h), NEW isA \in BOOLEAN
  PROVE  ExteriorEmpty(isA, g) \in Seq(IF isA THEN SeenUpdates(g, h) ELSE SeenUpdates(h, g))
<1> DEFINE U == SeenUpdates(g, h)
           found == CASE getDimension(g) = P -> << <<"I", "E", P>> >>
                      [] getDimension(g) = L ->
                           (IF hasBoundary(g) THEN << <<"B", "E", P>> >> ELSE <<>>) \o << <<"I", "E", L>> >>
                      [] getDimension(g) = A -> << <<"B", "E", L>>, <<"I", "E", A>> >>
<1>1. ~hasDimension(h, A) /\ ~hasDimension(h, L) /\ \A v : locate(h, v) = "E"
  <2>1. ~hasDimension(h, A) /\ ~hasDimension(h, L) /\ ~hasDimension(h, P)
    BY DEF hasDimension
  <2> QED BY <2>1, LocateIs
<1>2. P # L /\ P # A /\ L # A
  BY DEF P, L, A
<1>3. getDimension(g) \in {P, L, A} /\ \A d : getDimension(g) = d => hasDimension(g, d)
  BY Dimensions DEF getDimension, hasDimension
<1>4. found \in Seq(U)
  <2>1. CASE getDimension(g) = P
    <3>1. hasDimension(g, P) /\ ~hasDimension(g, A) /\ ~hasDimension(g, L)
      BY <1>2, <1>3, <2>1 DEF hasDimension, getDimension
    <3>2. PICK v : v \in Shape[g].points
      BY <3>1, Dimensions
    <3>3. v \in Vertex
      BY <3>2, ShapeAssumption
    <3>4. locate(g, v) = "I"
      BY <3>1, <3>2, LocateIs
    <3>5. <<"I", "E", P>> \in U
      <4>1. <<locate(g, v), locate(h, v), P>> \in U
        BY <3>3, SeenVertex
      <4> QED BY <1>1, <3>4, <4>1
    <3>6. found = << <<"I", "E", P>> >>
      BY <1>2, <2>1
    <3> HIDE DEF found, U
    <3> QED BY <3>5, <3>6
  <2>2. CASE getDimension(g) = L
    <3> DEFINE ends == IF hasBoundary(g) THEN << <<"B", "E", P>> >> ELSE <<>>
    <3>1. hasDimension(g, L) /\ ~hasDimension(g, A)
      BY <1>2, <1>3, <2>2 DEF hasDimension, getDimension
    <3>2. <<"I", "E", L>> \in U
      BY <1>1, <3>1, LineSeen
    <3>3. ASSUME hasBoundary(g) PROVE <<"B", "E", P>> \in U
      <4>1. PICK v \in Vertex : isBoundary(g, v)
        BY <3>3 DEF hasBoundary
      <4>2. locate(g, v) = "B"
        BY <3>1, <4>1, LocateIs DEF locateOnLines
      <4>3. <<locate(g, v), locate(h, v), P>> \in U
        BY <4>1, SeenVertex
      <4> QED BY <1>1, <4>2, <4>3
    <3>4. ends \in Seq(U)
      <4>1. CASE hasBoundary(g)
        <5>1. << <<"B", "E", P>> >> \in Seq(U)
          BY <3>3, <4>1
        <5> QED BY <4>1, <5>1
      <4>2. CASE ~hasBoundary(g)
        BY <4>2
      <4> QED BY <4>1, <4>2
    <3>5. found = ends \o << <<"I", "E", L>> >>
      BY <1>2, <2>2
    <3> HIDE DEF ends, found, U
    <3>6. << <<"I", "E", L>> >> \in Seq(U)
      BY <3>2
    <3> QED BY <3>4, <3>5, <3>6
  <2>3. CASE getDimension(g) = A
    <3>1. hasDimension(g, A)
      BY <1>3, <2>3
    <3>2. <<"B", "E", L>> \in U /\ <<"I", "E", A>> \in U
      BY <1>1, <3>1, AreaSeen
    <3>3. found = << <<"B", "E", L>>, <<"I", "E", A>> >>
      BY <1>2, <2>3
    <3> HIDE DEF found, U
    <3> QED BY <3>2, <3>3
  <2> QED BY <1>3, <2>1, <2>2, <2>3
<1>5. ExteriorEmpty(isA, g) = OrientedAll(isA, found)
  BY DEF ExteriorEmpty
<1> HIDE DEF found
<1> QED BY <1>4, <1>5, SeenOriented DEF U

\* What the dimensions imply.
LEMMA ExteriorsSeen ==
  ASSUME NoZeroLengthLines, a \in Geometry, b \in Geometry
  PROVE  ExteriorDims(dimA, dimB) \in Seq(SeenUpdates(a, b))
<1> DEFINE U == SeenUpdates(a, b)
<1>1. P # L /\ P # A /\ L # A /\ None # P /\ None # L /\ None # A
  BY DEF None, P, L, A
<1>2. /\ dimA \in Dimension /\ dimB \in Dimension
      /\ (dimA = None <=> isEmpty(a)) /\ (dimB = None <=> isEmpty(b))
      /\ \A d \in {P, L, A} : (dimA = d <=> hasDimension(a, d)) /\ (dimB = d <=> hasDimension(b, d))
  <2>1. Shape[a].type \in {P, L, A} /\ Shape[b].type \in {P, L, A}
    BY Dimensions
  <2> QED BY <1>1, <2>1, RealDimensions DEF dimA, dimB
<1>3. \A d \in {P, L, A} : \A e \in {P, L, A} : dimA = d /\ e # d => ~hasDimension(a, e)
  BY <1>2
<1>4. \A d \in {P, L, A} : \A e \in {P, L, A} : dimB = d /\ e # d => ~hasDimension(b, e)
  BY <1>2
<1>5. CASE dimA = None \/ dimB = None
  <2> DEFINE fromA == IF dimA # None THEN ExteriorEmpty(TRUE, a) ELSE <<>>
             fromB == IF dimB # None THEN ExteriorEmpty(FALSE, b) ELSE <<>>
  <2>1. fromA \in Seq(U)
    <3>1. CASE dimA # None
      <4>1. ExteriorEmpty(TRUE, a) \in Seq(IF TRUE THEN SeenUpdates(a, b) ELSE SeenUpdates(b, a))
        BY <1>2, <1>5, <3>1, ExteriorEmptySeen
      <4> QED BY <3>1, <4>1
    <3>2. CASE dimA = None
      BY <3>2
    <3> QED BY <3>1, <3>2
  <2>2. fromB \in Seq(U)
    <3>1. CASE dimB # None
      <4>1. ExteriorEmpty(FALSE, b) \in Seq(IF FALSE THEN SeenUpdates(b, a) ELSE SeenUpdates(a, b))
        BY <1>2, <1>5, <3>1, ExteriorEmptySeen
      <4> QED BY <3>1, <4>1
    <3>2. CASE dimB = None
      BY <3>2
    <3> QED BY <3>1, <3>2
  <2>3. ExteriorDims(dimA, dimB) = fromA \o fromB
    BY <1>5 DEF ExteriorDims
  <2> HIDE DEF fromA, fromB, U
  <2>4. fromA \o fromB \in Seq(U)
    BY <2>1, <2>2
  <2> QED BY <2>3, <2>4 DEF U
<1>6. CASE dimA # None /\ dimB # None
  <2>1. ExteriorDims(dimA, dimB) =
          CASE dimA = dimB -> <<>>
            [] dimA = P /\ dimB = L -> << <<"E", "I", L>> >>
            [] dimA = L /\ dimB = P -> << <<"I", "E", L>> >>
            [] dimA = P /\ dimB = A -> << <<"E", "I", A>>, <<"E", "B", L>> >>
            [] dimA = A /\ dimB = P -> << <<"I", "E", A>>, <<"B", "E", L>> >>
            [] dimA = L /\ dimB = A -> << <<"E", "I", A>> >>
            [] dimA = A /\ dimB = L -> << <<"I", "E", A>> >>
    BY <1>6 DEF ExteriorDims
  <2>2. dimA \in {P, L, A} /\ dimB \in {P, L, A}
    BY <1>2, <1>6 DEF Dimension
  <2> DEFINE X == ExteriorDims(dimA, dimB)
  <2>3. CASE dimA = dimB
    <3>1. X = <<>>
      BY <1>1, <2>1, <2>3
    <3> QED BY <3>1
  <2>4. CASE dimA = P /\ dimB = L
    <3>1. X = << <<"E", "I", L>> >>
      BY <1>1, <2>1, <2>4
    <3>2. <<"E", "I", L>> \in U
      BY <1>1, <1>2, <1>3, <2>4, LineSeen
    <3> QED BY <3>1, <3>2
  <2>5. CASE dimA = L /\ dimB = P
    <3>1. X = << <<"I", "E", L>> >>
      BY <1>1, <2>1, <2>5
    <3>2. <<"I", "E", L>> \in U
      BY <1>1, <1>2, <1>4, <2>5, LineSeen
    <3> QED BY <3>1, <3>2
  <2>6. CASE dimA = P /\ dimB = A
    <3>1. X = << <<"E", "I", A>>, <<"E", "B", L>> >>
      BY <1>1, <2>1, <2>6
    <3>2. <<"E", "I", A>> \in U /\ <<"E", "B", L>> \in U
      BY <1>1, <1>2, <1>3, <2>6, AreaSeen
    <3> QED BY <3>1, <3>2
  <2>7. CASE dimA = A /\ dimB = P
    <3>1. X = << <<"I", "E", A>>, <<"B", "E", L>> >>
      BY <1>1, <2>1, <2>7
    <3>2. <<"I", "E", A>> \in U /\ <<"B", "E", L>> \in U
      BY <1>1, <1>2, <1>4, <2>7, AreaSeen
    <3> QED BY <3>1, <3>2
  <2>8. CASE dimA = L /\ dimB = A
    <3>1. X = << <<"E", "I", A>> >>
      BY <1>1, <2>1, <2>8
    <3>2. <<"E", "I", A>> \in U
      BY <1>1, <1>2, <1>3, <2>8, AreaSeen
    <3> QED BY <3>1, <3>2
  <2>9. CASE dimA = A /\ dimB = L
    <3>1. X = << <<"I", "E", A>> >>
      BY <1>1, <2>1, <2>9
    <3>2. <<"I", "E", A>> \in U
      BY <1>1, <1>2, <1>4, <2>9, AreaSeen
    <3> QED BY <3>1, <3>2
  <2> QED BY <2>2, <2>3, <2>4, <2>5, <2>6, <2>7, <2>8, <2>9
<1> QED BY <1>5, <1>6

------------------------------------------------------------------------------
\* Points against points.
LEMMA MatchesSeen ==
  ASSUME NoZeroLengthLines, a \in Geometry, b \in Geometry, dimA = P, dimB = P
  PROVE  /\ VerticesOf(a) = Shape[a].points /\ VerticesOf(b) = Shape[b].points
         /\ VerticesOf(a) \subseteq Vertex /\ VerticesOf(b) \subseteq Vertex
         /\ \A v : locate(a, v) = IF v \in VerticesOf(a) THEN "I" ELSE "E"
         /\ \A v : locate(b, v) = IF v \in VerticesOf(b) THEN "I" ELSE "E"
<1>1. ASSUME NEW g \in Geometry, getDimensionReal(g) = P
      PROVE  /\ VerticesOf(g) = Shape[g].points /\ VerticesOf(g) \subseteq Vertex
             /\ \A v : locate(g, v) = IF v \in VerticesOf(g) THEN "I" ELSE "E"
  <2>1. hasDimension(g, P) /\ ~hasDimension(g, L) /\ ~hasDimension(g, A)
    BY <1>1, RealDimensions DEF P, L, A
  <2>2. Shape[g].lines = {} /\ Shape[g].polygons = {}
    BY <2>1, Dimensions DEF hasDimension
  <2>3. VerticesOf(g) = Shape[g].points
    BY <2>2 DEF VerticesOf, LinearEdges
  <2>4. Shape[g].points \subseteq Vertex
    BY ShapeAssumption
  <2>5. \A v : locate(g, v) = IF v \in Shape[g].points THEN "I" ELSE "E"
    BY <2>1, LocateIs
  <2> QED BY <2>3, <2>4, <2>5
<1> QED BY <1>1 DEF dimA, dimB

\* The value of a seen entry is at most that of the complete matrix.
LEMMA SeenIsTrue ==
  ASSUME NEW g \in Geometry, NEW h \in Geometry, NEW u \in SeenUpdates(g, h)
  PROVE  u[3] <= Truth[<<g, h>>][<<u[1], u[2]>>]
<1> DEFINE e == <<u[1], u[2]>>
           truth(x) == IF \E f \in Face : <<FaceLocation(g, f), FaceLocation(h, f)>> = x THEN A
            ELSE IF \E y \in Edge : <<EdgeLocation(g, y), EdgeLocation(h, y)>> = x THEN L
            ELSE IF \E v \in Vertex : <<locate(g, v), locate(h, v)>> = x THEN P
            ELSE None
<1>1. u \in Update /\ Seen(g, h, u)
  BY DEF SeenUpdates
<1>2. e \in Entry /\ u[3] \in Dimension
  BY <1>1 DEF Update, Entry
<1>3. Truth[<<g, h>>][e] = truth(e)
  <2>1. Truth[<<g, h>>] = [x \in Entry |-> truth(x)]
    BY DEF Truth, Where
  <2> QED BY <1>2, <2>1
<1>4. u[3] <= truth(e)
  BY <1>1, <1>2 DEF Seen, Dimension, None, P, L, A
<1> QED BY <1>3, <1>4

------------------------------------------------------------------------------
(***************************************************************************)
(* The inductive invariant: nothing is known before the topology is        *)
(* computed, parts and pending entries only exist where they are produced, *)
(* and a known value is the value of every larger matrix.                  *)
(***************************************************************************)
Early == {"envelopes", "dimensions", "bounds", "exteriors"}
Later == Evidence \cup {"matching", "finish"}

NothingKnownEarly == phase \in Early => value = "unknown" /\ pending = <<>>
PartsOnlyOfElements == phase \notin Evidence => parts = <<>>
NodesAreShared == phase = "nodes" => todo \subseteq SharedVertices /\ parts \in Seq(SharedVertices)
FinalFor(n) ==
  AtMost(matrix, n) /\ LinesShareNoArea(n, dimA, dimB)
    => value = AsValue(valueIM(predicate, n, dimA, dimB))
Decided == phase \in Later /\ isKnown => \A n \in Matrix : FinalFor(n)

IInv == TypeOK /\ NothingKnownEarly /\ PartsOnlyOfElements /\ NodesAreShared /\ Decided

LEMMA UpdatesTyped ==
  ASSUME TypeOK, NodesAreShared, phase \in Evidence, NEW v, phase = "nodes" => v \in SharedVertices
  PROVE  Updates(v) \in Seq(Update)
<1>1. target \in Geometry /\ source \in Geometry /\ ofA \in BOOLEAN /\ a \in Geometry /\ b \in Geometry
  BY DEF target, source, ofA, TypeOK
<1>2. locate(target, v) \in Location /\ locateLineEnd(source, v) \in Location
  BY <1>1, LocateTyped
<1>3. CASE phase \in {"pointsA", "pointsB"}
  <2>1. OrientedAll(ofA, PointUpdates(locate(target, v))) \in Seq(Update)
    BY <1>1, <1>2, PointUpdatesTyped, OrientedTyped
  <2> QED BY <1>3, <2>1 DEF Updates
<1>4. CASE phase \in {"endsA", "endsB"}
  <2>1. OrientedAll(ofA, LineEndUpdates(locateLineEnd(source, v), locate(target, v))) \in Seq(Update)
    BY <1>1, <1>2, LineEndUpdatesTyped, OrientedTyped
  <2> QED BY <1>4, <2>1 DEF Updates
<1>5. CASE phase \in {"ringsA", "ringsB"}
  <2>1. OrientedAll(ofA, AreaVertexUpdates(locate(target, v))) \in Seq(Update)
    BY <1>1, <1>2, AreaVertexUpdatesTyped, OrientedTyped
  <2> QED BY <1>5, <2>1 DEF Updates
<1>6. CASE phase = "segments"
  <2>1. SegmentUpdates(v) \in Seq(Update)
    BY <1>1, SegmentUpdatesTyped
  <2> QED BY <1>6, <2>1 DEF Updates
<1>7. CASE phase = "nodes"
  <2>1. v \in Vertex /\ hasInteractionAB(a, b, v)
    BY <1>7 DEF SharedVertices
  <2>2. NodeUpdates(a, b, v) \in Seq(SeenUpdates(a, b))
    BY <1>1, <2>1, NodeUpdatesSeen
  <2>3. NodeUpdates(a, b, v) \in Seq(Update)
    <3>1. SeenUpdates(a, b) \subseteq Update
      BY DEF SeenUpdates
    <3> QED BY <2>2, <3>1
  <2> QED BY <1>7, <2>3 DEF Updates
<1> QED BY <1>3, <1>4, <1>5, <1>6, <1>7 DEF Evidence

LEMMA DecidedKept ==
  ASSUME IInv, UNCHANGED <<predicate, a, b, matrix, value>>, phase # "done"
  PROVE  Decided'
<1>1. phase \in Early \cup Later
  BY DEF IInv, TypeOK, Early, Later
<1>2. phase \in Early => ~isKnown'
  BY DEF IInv, NothingKnownEarly, isKnown
<1>3. isKnown' = isKnown
  BY DEF isKnown
<1>4. \A n \in Matrix : FinalFor(n) => FinalFor(n)'
  BY DEF FinalFor, dimA, dimB
<1> QED BY <1>1, <1>2, <1>3, <1>4 DEF IInv, Decided

LEMMA AnswerKeeps ==
  ASSUME IInv, NEW v \in {"true", "false"}, Answer(v), phase \notin Evidence
  PROVE  IInv'
<1>1. TypeOK'
  BY DEF IInv, TypeOK, Answer, inputs, isKnown
<1>2. NothingKnownEarly' /\ NodesAreShared' /\ Decided'
  BY DEF Answer, NothingKnownEarly, NodesAreShared, Decided, Early, Later, Evidence
<1>3. PartsOnlyOfElements'
  BY DEF IInv, Answer, PartsOnlyOfElements
<1> QED BY <1>1, <1>2, <1>3 DEF IInv

LEMMA GoToKeeps ==
  ASSUME IInv, NEW next \in Early, GoTo(next), phase \in Early
  PROVE  IInv'
<1>1. TypeOK'
  BY DEF IInv, TypeOK, GoTo, inputs, isKnown, Early
<1>2. NothingKnownEarly'
  BY DEF IInv, GoTo, NothingKnownEarly
<1>3. PartsOnlyOfElements' /\ NodesAreShared' /\ Decided'
  BY DEF IInv, GoTo, PartsOnlyOfElements, NodesAreShared, Decided, Early, Later, Evidence
<1> QED BY <1>1, <1>2, <1>3 DEF IInv

\* Entering a phase of the topology; the caller has set pending'.
LEMMA EnterKeeps ==
  ASSUME IInv, NEW next \in Later, Enter(next), pending' \in Seq(Update), parts = <<>>, phase # "done"
  PROVE  IInv'
<1>1. TypeOK'
  BY DEF IInv, TypeOK, Enter, inputs, isKnown, Later, Evidence
<1>2. NothingKnownEarly'
  BY DEF Enter, NothingKnownEarly, Early, Later, Evidence
<1>3. PartsOnlyOfElements'
  BY DEF Enter, PartsOnlyOfElements
<1>4. NodesAreShared'
  <2>1. SharedVertices' = SharedVertices
    BY DEF Enter, inputs, SharedVertices
  <2>2. next = "nodes" => todo' = SharedVertices
    BY DEF Enter, Elements
  <2> QED BY <2>1, <2>2 DEF Enter, NodesAreShared
<1>5. Decided'
  BY DecidedKept DEF Enter, inputs
<1> QED BY <1>1, <1>2, <1>3, <1>4, <1>5 DEF IInv

\* An entry rises: what was decided stays, what is decided now stays.
LEMMA UpdateKeeps ==
  ASSUME IInv, UpdateDimension
  PROVE  IInv'
<1> DEFINE u == Head(pending)
           entry == <<u[1], u[2]>>
           m == [matrix EXCEPT ![entry] = u[3]]
<1>1. u \in Update /\ entry \in Entry /\ u[3] \in Dimension /\ pending' \in Seq(Update)
  BY DEF IInv, TypeOK, UpdateDimension, Update, Entry
<1>2. matrix \in Matrix /\ predicate \in Predicate /\ dimA \in Dimension /\ dimB \in Dimension
  BY PredicatesAssumption, ShapeTypes DEF IInv, TypeOK, dimA, dimB
<1>3. m \in Matrix
  BY <1>1, <1>2 DEF Matrix
<1>4. phase \notin Early /\ phase' = phase /\ UNCHANGED <<predicate, a, b, todo, parts, seenExterior>>
  BY DEF IInv, NothingKnownEarly, UpdateDimension, inputs
<1>5. u[3] > matrix[entry] => AtMost(matrix, m)
  BY <1>1, <1>2 DEF Matrix, AtMost, Dimension, None, P, L, A
<1>6. \/ matrix' = m /\ AtMost(matrix, m)
      \/ matrix' = matrix
  BY <1>5 DEF UpdateDimension
<1>7. \/ value' = value
      \/ /\ ~isKnown
         /\ matrix' = m
         /\ isDetermined(predicate, m, dimA, dimB)
         /\ value' = AsValue(valueIM(predicate, m, dimA, dimB))
  BY DEF UpdateDimension
<1> HIDE DEF u, entry, m
<1>8. dimA' = dimA /\ dimB' = dimB
  BY <1>4 DEF dimA, dimB
<1>9. TypeOK'
  <2>1. matrix' \in Matrix
    BY <1>2, <1>3, <1>6
  <2>2. value' \in {"unknown", "false", "true"}
    BY <1>7 DEF IInv, TypeOK, AsValue
  <2>3. isKnown => isKnown'
    BY <1>7 DEF isKnown
  <2> QED BY <1>1, <1>4, <2>1, <2>2, <2>3 DEF IInv, TypeOK
<1>10. NothingKnownEarly' /\ PartsOnlyOfElements'
  BY <1>4 DEF IInv, NothingKnownEarly, PartsOnlyOfElements
<1>11. NodesAreShared'
  <2>1. SharedVertices' = SharedVertices
    BY <1>4 DEF SharedVertices
  <2> QED BY <1>4, <2>1 DEF IInv, NodesAreShared
<1>12. Decided'
  <2> SUFFICES ASSUME phase \in Later, isKnown', NEW n \in Matrix,
                      AtMost(matrix', n), LinesShareNoArea(n, dimA, dimB)
               PROVE  value' = AsValue(valueIM(predicate, n, dimA, dimB))
    BY <1>4, <1>8 DEF Decided, FinalFor
  <2>1. CASE value' = value
    <3>1. isKnown
      BY <2>1 DEF isKnown
    <3>2. AtMost(matrix, n)
      <4>1. ASSUME NEW e \in Entry PROVE matrix[e] <= n[e]
        <5>1. matrix[e] <= matrix'[e]
          BY <1>2, <1>6 DEF AtMost, Matrix, Dimension, None, P, L, A
        <5>2. matrix'[e] <= n[e]
          BY DEF AtMost
        <5>3. matrix[e] \in Int /\ matrix'[e] \in Int /\ n[e] \in Int
          BY <1>2, <1>3, <1>6 DEF Matrix, Dimension, None, P, L, A
        <5> QED BY <5>1, <5>2, <5>3
      <4> QED BY <4>1 DEF AtMost
    <3> QED BY <2>1, <3>1, <3>2 DEF IInv, Decided, FinalFor
  <2>2. CASE /\ matrix' = m
             /\ isDetermined(predicate, m, dimA, dimB)
             /\ value' = AsValue(valueIM(predicate, m, dimA, dimB))
    <3>1. valueIM(predicate, m, dimA, dimB) <=> valueIM(predicate, n, dimA, dimB)
      BY <1>2, <1>3, <2>2, DeterminedIsFinal
    <3> QED BY <2>2, <3>1 DEF AsValue
  <2> QED BY <1>7, <2>1, <2>2
<1> QED BY <1>9, <1>10, <1>11, <1>12 DEF IInv

LEMMA Inductive ==
  /\ Init => IInv
  /\ IInv /\ [Next]_vars => IInv'
<1>1. ASSUME Init PROVE IInv
  <2>1. NoMatrix \in Matrix
    BY DEF NoMatrix, Matrix, Dimension
  <2>2. TypeOK
    <3>1. pending \in Seq(Update)
      BY <1>1 DEF Init
    <3> QED BY <1>1, <2>1, <3>1 DEF Init, TypeOK, isKnown
  <2> QED BY <1>1, <2>2 DEF Init, IInv, NothingKnownEarly, PartsOnlyOfElements, NodesAreShared, Decided, isKnown, Evidence
<1>2. ASSUME IInv, [Next]_vars PROVE IInv'
  <2>0. a \in Geometry /\ b \in Geometry /\ dimA \in Dimension /\ dimB \in Dimension
    BY <1>2, ShapeTypes DEF IInv, TypeOK, dimA, dimB
  <2>1. CASE CheckEnvelopes
    BY <1>2, <2>1, AnswerKeeps, GoToKeeps DEF CheckEnvelopes, Early, Evidence
  <2>2. CASE InitDimensions
    BY <1>2, <2>2, AnswerKeeps, GoToKeeps DEF InitDimensions, Early, Evidence
  <2>3. CASE InitEnvelopes
    <3> DEFINE v == ValueOfEnvelopes(predicate, Envelope[a], Envelope[b])
    <3>1. v \in {"unknown", "true", "false"}
      BY DEF ValueOfEnvelopes
    <3> HIDE DEF v
    <3>2. CASE v = "unknown"
      <4>1. GoTo("exteriors") /\ phase = "bounds"
        BY <2>3, <3>2 DEF InitEnvelopes, v
      <4> QED BY <1>2, <4>1, GoToKeeps DEF Early
    <3>3. CASE v # "unknown"
      <4>1. Answer(v) /\ phase = "bounds"
        BY <2>3, <3>3 DEF InitEnvelopes, v
      <4> QED BY <1>2, <3>1, <3>3, <4>1, AnswerKeeps DEF Evidence
    <3> QED BY <3>2, <3>3
  <2>4. CASE StartTopology
    <3>1. pending' \in Seq(Update)
      BY <2>0, <2>4, ExteriorDimsTyped DEF StartTopology
    <3>2. parts = <<>> /\ phase # "done"
      BY <1>2, <2>4 DEF StartTopology, IInv, PartsOnlyOfElements, Evidence
    <3>3. Enter("matching") \/ Enter("pointsB")
      BY <2>4 DEF StartTopology
    <3> QED BY <1>2, <3>1, <3>2, <3>3, EnterKeeps DEF Later, Evidence
  <2>5. CASE UpdateDimension
    BY <1>2, <2>5, UpdateKeeps
  <2>6. ASSUME NEW x \in todo, MatchPoint(x) PROVE IInv'
    <3>1. <<"I", "I", P>> \in Update /\ <<"E", "I", P>> \in Update
      BY UpdateTyped DEF Location, Dimension
    <3>2. TypeOK'
      BY <1>2, <2>6, <3>1 DEF IInv, TypeOK, MatchPoint, inputs, isKnown
    <3>3. NothingKnownEarly' /\ PartsOnlyOfElements' /\ NodesAreShared'
      BY <1>2, <2>6 DEF IInv, MatchPoint, inputs, NothingKnownEarly, PartsOnlyOfElements, NodesAreShared, Early
    <3>4. Decided'
      BY <1>2, <2>6, DecidedKept DEF MatchPoint, inputs
    <3> QED BY <3>2, <3>3, <3>4 DEF IInv
  <2>7. CASE EndMatching
    <3>1. <<"I", "E", P>> \in Update
      BY UpdateTyped DEF Location, Dimension
    <3>2. pending' \in Seq(Update)
      BY <2>7, <3>1 DEF EndMatching
    <3> QED BY <1>2, <2>7, <3>2, EnterKeeps DEF EndMatching, idle, Later
  <2>8. ASSUME NEW x \in todo, TakeElement(x) PROVE IInv'
    <3>1. TypeOK'
      BY <1>2, <2>8 DEF IInv, TypeOK, TakeElement, inputs, isKnown
    <3>2. NothingKnownEarly' /\ PartsOnlyOfElements'
      BY <1>2, <2>8 DEF IInv, TakeElement, inputs, NothingKnownEarly, PartsOnlyOfElements, Early, Evidence
    <3>3. NodesAreShared'
      <4>1. SharedVertices' = SharedVertices /\ phase' = phase
        BY <2>8 DEF TakeElement, inputs, SharedVertices
      <4>2. ASSUME phase = "nodes" PROVE parts' \in Seq(SharedVertices) /\ todo' \subseteq SharedVertices
        <5>1. x \in SharedVertices /\ todo \subseteq SharedVertices
          BY <1>2, <2>8, <4>2 DEF IInv, NodesAreShared
        <5>2. PartsOf(x) = <<x>>
          BY <4>2 DEF PartsOf
        <5> QED BY <2>8, <5>1, <5>2 DEF TakeElement
      <4> QED BY <4>1, <4>2 DEF NodesAreShared
    <3>4. Decided'
      BY <1>2, <2>8, DecidedKept DEF TakeElement, inputs, Evidence
    <3> QED BY <3>1, <3>2, <3>3, <3>4 DEF IInv
  <2>9. CASE TakePart
    <3>1. phase \in Evidence
      BY <1>2, <2>9 DEF IInv, PartsOnlyOfElements, TakePart
    <3>2. phase = "nodes" => Head(parts) \in SharedVertices /\ Tail(parts) \in Seq(SharedVertices)
      BY <1>2, <2>9 DEF IInv, NodesAreShared, TakePart
    <3>3. Updates(Head(parts)) \in Seq(Update)
      BY <1>2, <3>1, <3>2, UpdatesTyped DEF IInv
    <3>4. TypeOK'
      BY <1>2, <2>9, <3>3 DEF IInv, TypeOK, TakePart, inputs, isKnown
    <3>5. NothingKnownEarly' /\ PartsOnlyOfElements'
      BY <2>9, <3>1 DEF TakePart, inputs, NothingKnownEarly, PartsOnlyOfElements, Early, Evidence
    <3>6. NodesAreShared'
      <4>1. SharedVertices' = SharedVertices
        BY <2>9 DEF TakePart, inputs, SharedVertices
      <4> QED BY <1>2, <2>9, <3>2, <4>1 DEF IInv, NodesAreShared, TakePart
    <3>7. Decided'
      BY <1>2, <2>9, <3>1, DecidedKept DEF TakePart, inputs, Evidence
    <3> QED BY <3>4, <3>5, <3>6, <3>7 DEF IInv
  <2>10. CASE EndPhase
    <3>1. NextPhase \in Later
      BY <2>10 DEF EndPhase, NextPhase, AfterPoints, Later, Evidence
    <3>2. pending' \in Seq(Update) /\ parts = <<>> /\ phase # "done" /\ Enter(NextPhase)
      BY <2>10 DEF EndPhase, idle, Evidence
    <3> QED BY <1>2, <3>1, <3>2, EnterKeeps
  <2>11. CASE StopEarly
    <3>1. TypeOK'
      BY <1>2, <2>11 DEF IInv, TypeOK, StopEarly, inputs, isKnown
    <3>2. NothingKnownEarly' /\ PartsOnlyOfElements' /\ NodesAreShared' /\ Decided'
      BY <2>11 DEF StopEarly, NothingKnownEarly, PartsOnlyOfElements, NodesAreShared, Decided, Early, Later, Evidence
    <3> QED BY <3>1, <3>2 DEF IInv
  <2>12. CASE Finish
    <3>1. PICK v \in {"true", "false"} : Answer(v)
      BY <1>2, <2>12 DEF Finish, AsValue, IInv, TypeOK, isKnown
    <3> QED BY <1>2, <2>12, <3>1, AnswerKeeps DEF Finish, Evidence
  <2>13. CASE UNCHANGED vars
    <3>1. SharedVertices' = SharedVertices /\ dimA' = dimA /\ dimB' = dimB
      BY <2>13 DEF vars, SharedVertices, dimA, dimB
    <3>2. TypeOK' /\ NothingKnownEarly' /\ PartsOnlyOfElements' /\ NodesAreShared'
      BY <1>2, <2>13, <3>1 DEF vars, IInv, TypeOK, NothingKnownEarly, PartsOnlyOfElements, NodesAreShared, isKnown
    <3>3. Decided'
      BY <1>2, <2>13, <3>1 DEF vars, IInv, Decided, FinalFor, isKnown
    <3> QED BY <3>2, <3>3 DEF IInv
  <2> QED BY <1>2, <2>1, <2>2, <2>3, <2>4, <2>5, <2>6, <2>7, <2>8, <2>9, <2>10, <2>11, <2>12, <2>13
          DEF Next
<1> QED BY <1>1, <1>2

(***************************************************************************)
(* Types, and an evaluation that is over has an answer.                    *)
(***************************************************************************)
THEOREM TypeCorrect == Spec => []TypeOK
<1>1. IInv => TypeOK
  BY DEF IInv
<1> QED BY <1>1, Inductive, PTL DEF Spec

(***************************************************************************)
(* A known value is that of every complete matrix that agrees with the     *)
(* entries found: stopping early is sound for every pair of geometries.    *)
(***************************************************************************)
THEOREM KnownValueIsFinal == Spec => []KnownIsFinal
<1>1. IInv => KnownIsFinal
  <2> SUFFICES ASSUME IInv, phase \in Later, isKnown, NEW m \in Complete[<<dimA, dimB>>],
                      \A e \in Entry : matrix[e] <= m[e]
               PROVE  value = AsValue(valueIM(predicate, m, dimA, dimB))
    BY DEF KnownIsFinal, Later
  <2>1. <<dimA, dimB>> \in Dimension \X Dimension
    BY ShapeTypes DEF IInv, TypeOK, dimA, dimB
  <2>2. PICK gh \in Geometry \X Geometry :
          m = Truth[gh] /\ <<getDimensionReal(gh[1]), getDimensionReal(gh[2])>> = <<dimA, dimB>>
    BY <2>1 DEF Complete
  <2>3. m \in Matrix /\ LinesShareNoArea(m, dimA, dimB)
    BY <2>2, TruthTyped, TruthOfLines
  <2> QED BY <2>3 DEF IInv, Decided, FinalFor, AtMost
<1> QED BY <1>1, Inductive, PTL DEF Spec

------------------------------------------------------------------------------
(***************************************************************************)
(* What is inferred is there.  Whatever is still to be looked at is where  *)
(* it is looked for, so each entry that is recorded is seen in some face,  *)
(* edge or vertex of the plane.                                            *)
(***************************************************************************)
Sites ==
  CASE phase \in {"pointsA", "pointsB"} -> Shape[source].points
    [] phase \in {"endsA", "endsB"} -> LineEnds(source)
    [] phase \in {"ringsA", "ringsB"} -> RingStarts(source)
    [] phase \in {"segments", "nodes"} -> SharedVertices

TodoInOrder == phase \in Evidence \cup {"matching"} => todo \subseteq Elements(phase)
PartsInOrder == phase \in Evidence => parts \in Seq(Sites)
PointsMatched == phase = "matching" => dimA = P /\ dimB = P
PendingIsSeen == pending \in Seq(SeenUpdates(a, b))
SeenInv == TodoInOrder /\ PartsInOrder /\ PointsMatched /\ PendingIsSeen /\ NothingIsInvented

\* Short sequences.
LEMMA OneOrTwo ==
  ASSUME NEW S, NEW x \in S, NEW y \in S
  PROVE  <<>> \in Seq(S) /\ <<x>> \in Seq(S) /\ <<x, y>> \in Seq(S)
OBVIOUS

\* Whatever a phase makes of one of its points is there.
LEMMA UpdatesSeen ==
  ASSUME NoZeroLengthLines, a \in Geometry, b \in Geometry, phase \in Evidence, NEW v \in Sites
  PROVE  Updates(v) \in Seq(SeenUpdates(a, b))
<1> DEFINE g == source
           h == target
           oriented == IF ofA THEN SeenUpdates(g, h) ELSE SeenUpdates(h, g)
<1>1. oriented = SeenUpdates(a, b) /\ ofA \in BOOLEAN
  BY DEF source, target, ofA
<1>2. CASE phase \in {"pointsA", "pointsB"}
  <2>1. v \in Shape[source].points
    BY <1>2 DEF Sites
  <2>2. PointUpdates(locate(target, v)) \in Seq(SeenUpdates(g, h))
    BY <2>1, PointsSeen
  <2>3. OrientedAll(ofA, PointUpdates(locate(target, v))) \in Seq(oriented)
    BY <1>1, <2>2, SeenOriented
  <2>4. Updates(v) = OrientedAll(ofA, PointUpdates(locate(target, v)))
    BY <1>2 DEF Updates
  <2> QED BY <1>1, <2>3, <2>4
<1>3. CASE phase \in {"endsA", "endsB"}
  <2>1. v \in LineEnds(source)
    BY <1>3 DEF Sites
  <2>2. LineEndUpdates(locateLineEnd(source, v), locate(target, v)) \in Seq(SeenUpdates(g, h))
    BY <2>1, LineEndsSeen
  <2>3. OrientedAll(ofA, LineEndUpdates(locateLineEnd(source, v), locate(target, v))) \in Seq(oriented)
    BY <1>1, <2>2, SeenOriented
  <2>4. Updates(v) = OrientedAll(ofA, LineEndUpdates(locateLineEnd(source, v), locate(target, v)))
    BY <1>3 DEF Updates
  <2> QED BY <1>1, <2>3, <2>4
<1>4. CASE phase \in {"ringsA", "ringsB"}
  <2>1. v \in RingStarts(source)
    BY <1>4 DEF Sites
  <2>2. AreaVertexUpdates(locate(target, v)) \in Seq(SeenUpdates(g, h))
    BY <2>1, RingStartsSeen
  <2>3. OrientedAll(ofA, AreaVertexUpdates(locate(target, v))) \in Seq(oriented)
    BY <1>1, <2>2, SeenOriented
  <2>4. Updates(v) = OrientedAll(ofA, AreaVertexUpdates(locate(target, v)))
    BY <1>4 DEF Updates
  <2> QED BY <1>1, <2>3, <2>4
<1>5. CASE phase = "segments"
  <2>1. v \in SharedVertices /\ Updates(v) = SegmentUpdates(v)
    BY <1>5 DEF Sites, Updates
  <2> QED BY <2>1, SegmentsSeen
<1>6. CASE phase = "nodes"
  <2>1. v \in SharedVertices /\ Updates(v) = NodeUpdates(a, b, v)
    BY <1>6 DEF Sites, Updates
  <2>2. v \in Vertex /\ hasInteractionAB(a, b, v)
    BY <2>1 DEF SharedVertices
  <2> QED BY <2>1, <2>2, NodeUpdatesSeen
<1> QED BY <1>2, <1>3, <1>4, <1>5, <1>6 DEF Evidence

\* The parts of an element are what its phase looks at.
LEMMA PartsAreSites ==
  ASSUME a \in Geometry, b \in Geometry, phase \in Evidence, NEW x \in Elements(phase)
  PROVE  PartsOf(x) \in Seq(Sites)
<1>1. source \in Geometry
  BY DEF source
<1>2. CASE phase \in {"pointsA", "pointsB"}
  <2>1. x \in Shape[source].points
    BY <1>2 DEF Elements, source, ofA
  <2>2. PartsOf(x) = <<x>> /\ Sites = Shape[source].points
    BY <1>2 DEF PartsOf, Sites
  <2> QED BY <2>1, <2>2, OneOrTwo
<1>3. CASE phase \in {"endsA", "endsB"}
  <2>1. x \in Shape[source].lines
    BY <1>3 DEF Elements, source, ofA
  <2>2. Sites = LineEnds(source)
    BY <1>3 DEF Sites
  <2>3. x[1] \in Sites /\ x[Len(x)] \in Sites
    BY <2>1, <2>2 DEF LineEnds
  <2>4. PartsOf(x) = <<x[1]>> \/ PartsOf(x) = <<x[1], x[Len(x)]>>
    BY <1>3 DEF PartsOf
  <2> QED BY <2>3, <2>4, OneOrTwo
<1>4. CASE phase \in {"ringsA", "ringsB"}
  <2>1. x \in Shape[source].polygons
    BY <1>4 DEF Elements, source, ofA
  <2>2. Sites = RingStarts(source)
    BY <1>4 DEF Sites
  <2>3. \A i \in DOMAIN x.rings : x.rings[i][1] \in Sites
    BY <2>1, <2>2 DEF RingStarts
  <2>4. PartsOf(x) = [i \in DOMAIN x.rings |-> x.rings[i][1]]
    BY <1>4 DEF PartsOf
  <2>5. DOMAIN x.rings = 1..Len(x.rings) /\ Len(x.rings) \in Nat
    BY <1>1, <2>1, PolygonInside DEF ValidPolygon
  <2> QED BY <2>3, <2>4, <2>5
<1>5. CASE phase \in {"segments", "nodes"}
  <2>1. x \in SharedVertices
    BY <1>5 DEF Elements
  <2>2. PartsOf(x) = <<x>> /\ Sites = SharedVertices
    BY <1>5 DEF PartsOf, Sites
  <2> QED BY <2>1, <2>2, OneOrTwo
<1> QED BY <1>2, <1>3, <1>4, <1>5 DEF Evidence

\* Entering a phase, leaving the topology, and matching points.
LEMMA EnterSeen ==
  ASSUME NEW next \in Later, Enter(next), parts = <<>>, pending' \in Seq(SeenUpdates(a, b)),
         next = "matching" => dimA = P /\ dimB = P, NothingIsInvented
  PROVE  SeenInv'
<1>1. phase' = next /\ todo' = Elements(next) /\ parts' = <<>> /\ a' = a /\ b' = b /\ matrix' = matrix
  BY DEF Enter, inputs
<1>2. TodoInOrder'
  <2>1. SharedVertices' = SharedVertices
    BY <1>1 DEF SharedVertices
  <2>2. Elements(phase)' = Elements(next)
    BY <1>1, <2>1 DEF Elements
  <2> QED BY <1>1, <2>2 DEF TodoInOrder
<1>3. PartsInOrder'
  BY <1>1 DEF PartsInOrder
<1>4. PointsMatched'
  BY <1>1 DEF PointsMatched, dimA, dimB
<1>5. PendingIsSeen' /\ NothingIsInvented'
  BY <1>1 DEF PendingIsSeen, NothingIsInvented
<1> QED BY <1>2, <1>3, <1>4, <1>5 DEF SeenInv

LEMMA AnswerSeen ==
  ASSUME SeenInv, NEW next, phase' = next, next \notin Evidence \cup {"matching"},
         UNCHANGED <<a, b, matrix, pending>>
  PROVE  SeenInv'
<1>1. TodoInOrder' /\ PartsInOrder' /\ PointsMatched'
  BY DEF TodoInOrder, PartsInOrder, PointsMatched
<1>2. PendingIsSeen' /\ NothingIsInvented'
  BY DEF SeenInv, PendingIsSeen, NothingIsInvented
<1> QED BY <1>1, <1>2 DEF SeenInv

\* While a phase goes on, what it looks at stays.
LEMMA WithinPhaseSeen ==
  ASSUME SeenInv, UNCHANGED <<a, b, phase>>, todo' \subseteq todo, phase \in Evidence => parts' \in Seq(Sites),
         pending' \in Seq(SeenUpdates(a, b)), NothingIsInvented'
  PROVE  SeenInv'
<1>1. SharedVertices' = SharedVertices /\ source' = source /\ dimA' = dimA /\ dimB' = dimB
  BY DEF SharedVertices, source, ofA, dimA, dimB
<1>2. Elements(phase)' = Elements(phase)
  BY <1>1 DEF Elements
<1>3. Sites' = Sites
  BY <1>1 DEF Sites
<1>4. TodoInOrder' /\ PartsInOrder' /\ PointsMatched' /\ PendingIsSeen'
  BY <1>1, <1>2, <1>3 DEF SeenInv, TodoInOrder, PartsInOrder, PointsMatched, PendingIsSeen
<1> QED BY <1>4 DEF SeenInv

\* A new matrix claims nothing that is not there: some face is outside both.
LEMMA NewMatrixIsTrue ==
  ASSUME a \in Geometry, b \in Geometry
  PROVE  \A e \in Entry : NoMatrix[e] <= Truth[<<a, b>>][e]
<1>1. PICK f \in Face : \A g \in Geometry : f \notin Interior(g)
  BY SubdivisionAssumption
<1>2. <<FaceLocation(a, f), FaceLocation(b, f), A>> \in SeenUpdates(a, b)
  BY SeenFace DEF Dimension
<1>3. <<"E", "E", A>> \in SeenUpdates(a, b)
  BY <1>1, <1>2 DEF FaceLocation
<1>4. A <= Truth[<<a, b>>][<<"E", "E">>]
  BY <1>3, SeenIsTrue
<1>5. \A e \in Entry : None <= Truth[<<a, b>>][e]
  <2>1. Truth[<<a, b>>] \in Matrix
    BY TruthTyped
  <2> QED BY <2>1 DEF Matrix, Dimension, None, P, L, A
<1> QED BY <1>4, <1>5 DEF NoMatrix

\* Fewer points in common than in A: one is missing.
LEMMA EndMatchingSeen ==
  ASSUME NoZeroLengthLines, a \in Geometry, b \in Geometry, SeenInv, EndMatching
  PROVE  pending' \in Seq(SeenUpdates(a, b))
<1>1. dimA = P /\ dimB = P
  BY DEF EndMatching, SeenInv, PointsMatched
<1> DEFINE S == VerticesOf(a)
           T == VerticesOf(b)
           missing == ~isKnown /\ Cardinality(S \cap T) < Cardinality(S)
<1>2. pending' = IF missing THEN << <<"I", "E", P>> >> ELSE <<>>
  BY DEF EndMatching
<1>3. ASSUME missing PROVE <<"I", "E", P>> \in SeenUpdates(a, b)
  <2>1. IsFiniteSet(S) /\ S \subseteq Vertex
    BY <1>1, MatchesSeen, SubdivisionAssumption, FS_Subset
  <2>2. Cardinality(S) \in Nat
    BY <2>1, FS_CardinalityType
  <2>3. S \cap T # S
    <3>1. Cardinality(S \cap T) < Cardinality(S)
      BY <1>3
    <3> HIDE DEF S, T
    <3> QED BY <2>2, <3>1
  <2>4. PICK v \in S : v \notin T
    BY <2>3
  <2>5. locate(a, v) = "I" /\ locate(b, v) = "E"
    BY <1>1, <2>4, MatchesSeen
  <2>6. <<locate(a, v), locate(b, v), P>> \in SeenUpdates(a, b)
    BY <2>1, <2>4, SeenVertex
  <2> QED BY <2>5, <2>6
<1> HIDE DEF missing
<1>4. CASE missing
  <2>1. << <<"I", "E", P>> >> \in Seq(SeenUpdates(a, b))
    BY <1>3, <1>4
  <2> QED BY <1>2, <1>4, <2>1
<1>5. CASE ~missing
  BY <1>2, <1>5
<1> QED BY <1>4, <1>5

\* A point of B is in A, or outside.
LEMMA MatchPointSeen ==
  ASSUME NoZeroLengthLines, a \in Geometry, b \in Geometry, SeenInv, NEW v \in todo, MatchPoint(v)
  PROVE  pending' \in Seq(SeenUpdates(a, b))
<1>1. dimA = P /\ dimB = P /\ v \in VerticesOf(b)
  BY DEF MatchPoint, SeenInv, PointsMatched, TodoInOrder, Elements
<1>2. locate(a, v) = (IF v \in VerticesOf(a) THEN "I" ELSE "E") /\ locate(b, v) = "I" /\ v \in Vertex
  BY <1>1, MatchesSeen
<1>3. <<locate(a, v), "I", P>> \in SeenUpdates(a, b)
  BY <1>2, SeenVertex
<1>4. << <<locate(a, v), "I", P>> >> \in Seq(SeenUpdates(a, b))
  BY <1>3
<1>5. pending' = << <<locate(a, v), "I", P>> >>
  BY <1>2 DEF MatchPoint
<1> QED BY <1>4, <1>5

\* SeenInv is inductive, given the types and shared nodes of IInv.
LEMMA SeenInductive ==
  ASSUME NoZeroLengthLines
  PROVE  /\ Init => SeenInv
         /\ IInv /\ SeenInv /\ [Next]_vars => SeenInv'
<1>1. ASSUME Init PROVE SeenInv
  <2>1. a \in Geometry /\ b \in Geometry /\ phase = "envelopes" /\ pending = <<>> /\ matrix = NoMatrix
    BY <1>1 DEF Init
  <2>2. TodoInOrder /\ PartsInOrder /\ PointsMatched /\ PendingIsSeen
    BY <2>1 DEF TodoInOrder, PartsInOrder, PointsMatched, PendingIsSeen, Evidence
  <2>3. NothingIsInvented
    BY <2>1, NewMatrixIsTrue DEF NothingIsInvented
  <2> QED BY <2>2, <2>3 DEF SeenInv
<1>2. ASSUME IInv, SeenInv, [Next]_vars PROVE SeenInv'
  <2>0. /\ a \in Geometry /\ b \in Geometry /\ matrix \in Matrix /\ NothingIsInvented
        /\ pending \in Seq(SeenUpdates(a, b)) /\ (phase \notin Evidence => parts = <<>>)
    BY <1>2 DEF IInv, TypeOK, SeenInv, PendingIsSeen, PartsOnlyOfElements
  <2>1. ASSUME NEW v, Answer(v) PROVE SeenInv'
    BY <1>2, <2>1, AnswerSeen DEF Answer, inputs, Evidence
  <2>2. ASSUME NEW next \in Early, GoTo(next) PROVE SeenInv'
    BY <1>2, <2>2, AnswerSeen DEF GoTo, inputs, Evidence, Early
  <2>3. CASE CheckEnvelopes
    BY <2>1, <2>2, <2>3 DEF CheckEnvelopes, Early
  <2>4. CASE InitDimensions
    BY <2>1, <2>2, <2>4 DEF InitDimensions, Early
  <2>5. CASE InitEnvelopes
    BY <2>1, <2>2, <2>5 DEF InitEnvelopes, Early
  <2>6. CASE StartTopology
    <3>1. pending' \in Seq(SeenUpdates(a, b)) /\ parts = <<>>
      BY <2>0, <2>6, ExteriorsSeen DEF StartTopology, Evidence
    <3> DEFINE next == IF dimA = P /\ dimB = P THEN "matching" ELSE "pointsB"
    <3>2. Enter(next) /\ next \in Later /\ (next = "matching" => dimA = P /\ dimB = P)
      BY <2>6 DEF StartTopology, Later, Evidence
    <3> HIDE DEF next
    <3> QED BY <2>0, <3>1, <3>2, EnterSeen
  <2>7. CASE UpdateDimension
    <3> DEFINE u == Head(pending)
               entry == <<u[1], u[2]>>
    <3>1. /\ u \in SeenUpdates(a, b) /\ pending' \in Seq(SeenUpdates(a, b))
          /\ UNCHANGED <<a, b, phase, todo, parts>>
      BY <2>0, <2>7 DEF UpdateDimension, inputs
    <3>2. \/ matrix' = [matrix EXCEPT ![entry] = u[3]]
          \/ matrix' = matrix
      BY <2>7 DEF UpdateDimension
    <3> HIDE DEF u
    <3>3. u[3] <= Truth[<<a, b>>][entry]
      BY <2>0, <3>1, SeenIsTrue
    <3>4. NothingIsInvented'
      <4>1. \A e \in Entry : matrix[e] <= Truth[<<a, b>>][e]
        BY <2>0 DEF NothingIsInvented
      <4>2. \A e \in Entry : matrix'[e] <= Truth[<<a, b>>][e]
        BY <2>0, <3>2, <3>3, <4>1 DEF Matrix
      <4> QED BY <3>1, <4>2 DEF NothingIsInvented
    <3>5. phase \in Evidence => parts' \in Seq(Sites)
      BY <1>2, <3>1 DEF SeenInv, PartsInOrder
    <3> QED BY <1>2, <3>1, <3>4, <3>5, WithinPhaseSeen
  <2>8. ASSUME NEW x \in todo, MatchPoint(x) PROVE SeenInv'
    <3>1. /\ todo' \subseteq todo /\ phase = "matching" /\ "matching" \notin Evidence
          /\ UNCHANGED <<a, b, phase, matrix>>
      BY <2>8 DEF MatchPoint, inputs, Evidence
    <3>2. pending' \in Seq(SeenUpdates(a, b))
      BY <1>2, <2>0, <2>8, MatchPointSeen
    <3>3. NothingIsInvented'
      BY <2>0, <3>1 DEF NothingIsInvented
    <3> QED BY <1>2, <3>1, <3>2, <3>3, WithinPhaseSeen
  <2>9. CASE EndMatching
    <3>1. pending' \in Seq(SeenUpdates(a, b))
      BY <1>2, <2>0, <2>9, EndMatchingSeen
    <3>2. Enter("finish") /\ parts = <<>>
      BY <2>9 DEF EndMatching, idle
    <3> QED BY <2>0, <3>1, <3>2, EnterSeen DEF Later
  <2>10. ASSUME NEW x \in todo, TakeElement(x) PROVE SeenInv'
    <3>1. /\ todo' \subseteq todo /\ phase \in Evidence
          /\ UNCHANGED <<a, b, phase, matrix, pending>>
          /\ parts' = <<>> \/ parts' = PartsOf(x)
      BY <2>10 DEF TakeElement, inputs
    <3>2. x \in Elements(phase)
      BY <1>2, <3>1 DEF SeenInv, TodoInOrder
    <3>3. PartsOf(x) \in Seq(Sites)
      BY <2>0, <3>1, <3>2, PartsAreSites
    <3>4. NothingIsInvented'
      BY <2>0, <3>1 DEF NothingIsInvented
    <3>5. parts' \in Seq(Sites)
      <4>1. <<>> \in Seq(Sites)
        OBVIOUS
      <4> QED BY <3>1, <3>3, <4>1
    <3> QED BY <1>2, <2>0, <3>1, <3>4, <3>5, WithinPhaseSeen
  <2>11. CASE TakePart
    <3>1. /\ parts # <<>> /\ parts' = Tail(parts) /\ pending' = Updates(Head(parts))
          /\ UNCHANGED <<a, b, phase, matrix, todo>>
      BY <2>11 DEF TakePart, inputs
    <3>2. phase \in Evidence
      BY <2>0, <3>1
    <3>3. parts \in Seq(Sites)
      BY <1>2, <3>2 DEF SeenInv, PartsInOrder
    <3>4. Head(parts) \in Sites /\ parts' \in Seq(Sites)
      BY <3>1, <3>3
    <3>5. pending' \in Seq(SeenUpdates(a, b))
      BY <2>0, <3>1, <3>2, <3>4, UpdatesSeen
    <3>6. NothingIsInvented'
      BY <2>0, <3>1 DEF NothingIsInvented
    <3> QED BY <1>2, <3>1, <3>4, <3>5, <3>6, WithinPhaseSeen
  <2>12. CASE EndPhase
    <3>1. NextPhase \in Later \ {"matching"}
      BY <2>12 DEF EndPhase, NextPhase, AfterPoints, Later, Evidence
    <3>2. pending' \in Seq(SeenUpdates(a, b)) /\ parts = <<>> /\ Enter(NextPhase)
      BY <2>12 DEF EndPhase, idle
    <3> HIDE DEF NextPhase
    <3> QED BY <2>0, <3>1, <3>2, EnterSeen
  <2>13. CASE StopEarly
    BY <1>2, <2>13, AnswerSeen DEF StopEarly, inputs, Evidence
  <2>14. CASE Finish
    BY <2>1, <2>14 DEF Finish
  <2>15. CASE UNCHANGED vars
    <3>1. UNCHANGED <<a, b, phase, matrix, todo, parts, pending>>
      BY <2>15 DEF vars
    <3>2. NothingIsInvented' /\ (phase \in Evidence => parts' \in Seq(Sites))
      BY <1>2, <2>0, <3>1 DEF NothingIsInvented, SeenInv, PartsInOrder
    <3> QED BY <1>2, <2>0, <3>1, <3>2, WithinPhaseSeen
  <2> QED BY <1>2, <2>3, <2>4, <2>5, <2>6, <2>7, <2>8, <2>9, <2>10, <2>11, <2>12, <2>13, <2>14, <2>15
          DEF Next
<1> QED BY <1>1, <1>2

(***************************************************************************)
(* No entry of the matrix ever exceeds the truth.                          *)
(***************************************************************************)
THEOREM MatrixIsSound == NoZeroLengthLines /\ Spec => []NothingIsInvented
<1> SUFFICES ASSUME NoZeroLengthLines PROVE Spec => []NothingIsInvented
  OBVIOUS
<1>1. SeenInv => NothingIsInvented
  BY DEF SeenInv
<1>2. Init => IInv /\ SeenInv
  BY Inductive, SeenInductive
<1>3. IInv /\ SeenInv /\ [Next]_vars => (IInv /\ SeenInv)'
  BY Inductive, SeenInductive
<1> QED BY <1>1, <1>2, <1>3, PTL DEF Spec

\* A known value is that of the complete matrix.
EarlyAnswersAreRight ==
  phase \in Later /\ isKnown => value = AsValue(valueIM(predicate, Truth[<<a, b>>], dimA, dimB))

(***************************************************************************)
(* A value that is known before all is looked at is the value of the       *)
(* complete matrix of the two geometries.                                  *)
(***************************************************************************)
THEOREM EarlyAnswers == NoZeroLengthLines /\ Spec => []EarlyAnswersAreRight
<1>1. IInv /\ NothingIsInvented => EarlyAnswersAreRight
  <2> SUFFICES ASSUME IInv, NothingIsInvented, phase \in Later, isKnown
               PROVE  value = AsValue(valueIM(predicate, Truth[<<a, b>>], dimA, dimB))
    BY DEF EarlyAnswersAreRight
  <2>1. <<a, b>> \in Geometry \X Geometry
    BY DEF IInv, TypeOK
  <2>2. Truth[<<a, b>>] \in Matrix /\ LinesShareNoArea(Truth[<<a, b>>], dimA, dimB)
    BY <2>1, TruthTyped, TruthOfLines DEF dimA, dimB
  <2> QED BY <2>2 DEF IInv, Decided, FinalFor, AtMost, NothingIsInvented
<1>2. Spec => []IInv
  BY Inductive, PTL DEF Spec
<1> QED BY <1>1, <1>2, MatrixIsSound, PTL

------------------------------------------------------------------------------
(***************************************************************************)
(* The caches of prepared geometries, for every plane, every shape and any *)
(* number of exceptions.                                                   *)
(***************************************************************************)
\* What getPointLocator has made when a later step counts on it.
LocatorsInOrder ==
  /\ indexedPtOnGeomLoc => ptOnGeomLoc
  /\ treesBuilt => index
  /\ index => indexedPtOnGeomLoc
  /\ pc \in {"locate", "interior"} => indexedPtOnGeomLoc

\* A tree is filled only when the finder has its segments.
FinderInOrder ==
  /\ pc \in {"process", "detect"} => segIntFinder
  /\ indexBuilt => segIntFinder /\ inserted = "whole"

\* Where calls that need no segments can be.
PointSteps == {"locator", "locate", "located", "relocate", "interior", "interiorFound", "done"}
PointCalls ==
  Shape[baseGeom].type = A /\ call # NoCall /\ OnlyLocates(call.op, call.test) => pc \in PointSteps

\* Only polygons have locators.
LocatorsOfPolygons == pc \in PointSteps \ {"done"} => Shape[baseGeom].type = A

CachesInOrder == PreparedTypeOK /\ LocatorsInOrder /\ FinderInOrder /\ PointCalls /\ LocatorsOfPolygons

------------------------------------------------------------------------------
LEMMA PassableAreVertices == \A g \in Geometry : Passable(g) \subseteq Vertex
<1> SUFFICES ASSUME NEW g \in Geometry PROVE UNION LinearEdges(g) \subseteq Vertex
  BY DEF Passable
<1>1. \A line \in Shape[g].lines : LineEdges(line) \subseteq Edge
  BY ShapeAssumption DEF ValidLine
<1>2. \A polygon \in Shape[g].polygons : PolygonEdges(polygon) \subseteq Edge
  BY ShapeAssumption DEF ValidPolygon
<1>3. LinearEdges(g) \subseteq Edge
  BY <1>1, <1>2 DEF LinearEdges
<1> QED BY <1>3, EdgesOfVertices

\* No call is what a target is asked.
LEMMA NoCallIsNone == \A c : c.op \in AskedOf(baseGeom) => c # NoCall
BY DEF AskedOf, NoCall

LEMMA AskedIsNamed == AskedOf(baseGeom) \subseteq {"contains", "covers", "containsProperly", "intersects", "distance"}
BY DEF AskedOf

LEMMA InitKeeps == PreparedInit => CachesInOrder
<1> SUFFICES ASSUME PreparedInit PROVE CachesInOrder
  OBVIOUS
<1>1. baseGeom \in Geometry
  BY PreparedAssumption DEF PreparedInit
<1>2. passed \subseteq Vertex
  BY <1>1, PassableAreVertices DEF PreparedInit
<1>3. pc = "idle" /\ call = NoCall /\ answer = Nothing
  BY DEF PreparedInit
<1>4. failures \in 0..MaxFailures
  BY PreparedAssumption DEF PreparedInit
<1>5. PreparedTypeOK
  BY <1>2, <1>3, <1>4 DEF PreparedInit, PreparedTypeOK, Steps, Nothing
<1> QED BY <1>3, <1>5 DEF PreparedInit, CachesInOrder, LocatorsInOrder, FinderInOrder, PointCalls, LocatorsOfPolygons, PointSteps

LEMMA CallKeeps ==
  ASSUME CachesInOrder, NEW op \in AskedOf(baseGeom), NEW g \in Test, NEW gPassed, Call(op, g, gPassed)
  PROVE  CachesInOrder'
<1>1. call'.op = op /\ call'.test = g /\ call' # NoCall /\ UNCHANGED <<baseGeom, passed, cacheVars, failures>>
  BY NoCallIsNone DEF Call
<1>2. op \in {"contains", "covers", "containsProperly", "intersects", "distance"}
  BY AskedIsNamed
<1>3. AskedOf(baseGeom)' = AskedOf(baseGeom)
  BY <1>1 DEF AskedOf
<1>4. Shape[baseGeom].type \in {A, L, P}
  BY ShapeAssumption, PreparedAssumption DEF CachesInOrder, PreparedTypeOK
<1>5. FirstStep(op) \in {"locator", "finder", "facets", "points"}
       /\ (FirstStep(op) = "locator" <=> Shape[baseGeom].type = A)
  BY <1>4 DEF FirstStep, A, L, P
<1>6. \/ pc' = FirstStep(op) /\ answer' = Nothing
      \/ pc' = "done" /\ answer' \in {"infinity", "false"}
  BY DEF Call, CachesInOrder, PreparedTypeOK
<1>7. PreparedTypeOK'
  BY <1>1, <1>3, <1>5, <1>6 DEF CachesInOrder, PreparedTypeOK, Steps, Nothing, cacheVars, locatorVars, finderVars
<1>8. LocatorsInOrder' /\ FinderInOrder'
  BY <1>1, <1>5, <1>6 DEF CachesInOrder, LocatorsInOrder, FinderInOrder, cacheVars, locatorVars, finderVars
<1>9. PointCalls' /\ LocatorsOfPolygons'
  BY <1>1, <1>5, <1>6 DEF PointCalls, LocatorsOfPolygons, PointSteps
<1> QED BY <1>7, <1>8, <1>9 DEF CachesInOrder

LEMMA ForgetKeeps == ASSUME CachesInOrder, Forget PROVE CachesInOrder'
<1>1. PreparedTypeOK'
  BY DEF Forget, CachesInOrder, PreparedTypeOK, Steps, Nothing, cacheVars, locatorVars, finderVars
<1>2. LocatorsInOrder' /\ FinderInOrder' /\ PointCalls' /\ LocatorsOfPolygons'
  BY DEF Forget, CachesInOrder, LocatorsInOrder, FinderInOrder, PointCalls, LocatorsOfPolygons, PointSteps,
         cacheVars, locatorVars, finderVars
<1> QED BY <1>1, <1>2 DEF CachesInOrder

(***************************************************************************)
(* A step within a call keeps the call, and either goes on or returns.     *)
(***************************************************************************)
Within(answers, steps) ==
  /\ UNCHANGED <<baseGeom, passed, call>>
  /\ \/ pc' \in steps /\ UNCHANGED <<answer, failures>>
     \/ pc' = "done" /\ answer' \in answers /\ UNCHANGED failures
     \/ pc' = "done" /\ answer' = "exception" /\ failures < MaxFailures /\ failures' = failures + 1

Answers == {"true", "false", "zero", "positive"}
Inside == Steps \ {"idle", "done"}

LEMMA WithinKeepsTypes ==
  ASSUME CachesInOrder, pc \in Inside, Within(Answers, Inside),
         {ptOnGeomLoc, indexedPtOnGeomLoc, index, treesBuilt, segIntFinder, indexBuilt, indexedDistance}'
           \subseteq BOOLEAN,
         inserted' \in {"none", "part", "whole"}, round' \in {0, 1}
  PROVE  PreparedTypeOK'
<1>1. failures' \in 0..MaxFailures
  BY PreparedAssumption DEF Within, CachesInOrder, PreparedTypeOK
<1>2. pc # "idle" /\ pc # "done" /\ pc' \in Steps /\ pc' # "idle"
  BY DEF Inside, Within, Steps
<1>3. answer = Nothing /\ call # NoCall /\ call.op \in AskedOf(baseGeom) /\ call.test \in Test
  BY <1>2 DEF CachesInOrder, PreparedTypeOK
<1>4. AskedOf(baseGeom)' = AskedOf(baseGeom)
  BY DEF Within, AskedOf
<1>5. answer' \in {Nothing} \cup Answers \cup {"exception"} /\ (answer' # Nothing <=> pc' = "done")
  BY <1>2, <1>3 DEF Within, Answers, Nothing, Inside
<1> QED BY <1>1, <1>2, <1>3, <1>4, <1>5 DEF Within, CachesInOrder, PreparedTypeOK, Answers, Nothing

\* Where a step leads, when every cache it leaves alone is in order.
LEMMA WithinKeepsOrder ==
  ASSUME CachesInOrder, pc \in Inside, Within(Answers, Inside),
         pc' \in PointSteps \ {"done"} => Shape[baseGeom].type = A,
         pc \in PointSteps /\ OnlyLocates(call.op, call.test) => pc' \in PointSteps
  PROVE  PointCalls' /\ LocatorsOfPolygons'
BY DEF CachesInOrder, PreparedTypeOK, Within, PointCalls, LocatorsOfPolygons, OnlyLocates

LEMMA LocatorKeeps == ASSUME CachesInOrder, getPointLocator PROVE CachesInOrder'
<1>1. pc \in Inside /\ Shape[baseGeom].type = A
  BY DEF getPointLocator, Inside, Steps, CachesInOrder, LocatorsOfPolygons, PointSteps
<1>2. \/ /\ ptOnGeomLoc' = TRUE /\ indexedPtOnGeomLoc' = ptOnGeomLoc
         /\ pc' \in {"locate", "interior", "located", "interiorFound"}
         /\ pc' \in {"locate", "interior"} => ptOnGeomLoc
         /\ UNCHANGED <<call, answer, failures>>
      \/ /\ ~indexedPtOnGeomLoc /\ UNCHANGED <<ptOnGeomLoc, indexedPtOnGeomLoc, call>>
         /\ pc' = "done" /\ answer' = "exception" /\ failures < MaxFailures /\ failures' = failures + 1
  BY DEF getPointLocator, Goto, Throw, Return, AfterLocator
<1>3. UNCHANGED <<baseGeom, passed, call, index, treesBuilt, finderVars, indexedDistance>>
  BY <1>2 DEF getPointLocator
<1>4. Within(Answers, Inside) /\ pc' \in PointSteps
  BY <1>2, <1>3 DEF Within, Inside, Steps, PointSteps
<1>5. PreparedTypeOK'
  BY <1>1, <1>2, <1>3, <1>4, WithinKeepsTypes DEF CachesInOrder, PreparedTypeOK, finderVars
<1>6. PointCalls' /\ LocatorsOfPolygons'
  BY <1>1, <1>4, WithinKeepsOrder
<1>7. LocatorsInOrder'
  BY <1>2, <1>3 DEF CachesInOrder, LocatorsInOrder
<1>8. FinderInOrder'
  BY <1>2, <1>3 DEF CachesInOrder, FinderInOrder, finderVars
<1> QED BY <1>5, <1>6, <1>7, <1>8 DEF CachesInOrder

LEMMA IndexedKeeps == ASSUME CachesInOrder, locateIndexed PROVE CachesInOrder'
<1>1. pc \in Inside /\ Shape[baseGeom].type = A /\ indexedPtOnGeomLoc
  BY DEF locateIndexed, Inside, Steps, CachesInOrder, LocatorsInOrder, LocatorsOfPolygons, PointSteps
<1>2. \/ /\ index' = TRUE /\ treesBuilt' = TRUE
         /\ pc' \in {"located", "interiorFound"} /\ UNCHANGED <<call, answer, failures>>
      \/ /\ index' \in {index, TRUE} /\ UNCHANGED <<treesBuilt, call>>
         /\ pc' = "done" /\ answer' = "exception" /\ failures < MaxFailures /\ failures' = failures + 1
  BY DEF locateIndexed, Goto, Throw, Return
<1>3. UNCHANGED <<baseGeom, passed, call, ptOnGeomLoc, indexedPtOnGeomLoc, finderVars, indexedDistance>>
  BY <1>2 DEF locateIndexed
<1>4. Within(Answers, Inside) /\ pc' \in PointSteps
  BY <1>2, <1>3 DEF Within, Inside, Steps, PointSteps
<1>5. PreparedTypeOK'
  BY <1>1, <1>2, <1>3, <1>4, WithinKeepsTypes DEF CachesInOrder, PreparedTypeOK, finderVars
<1>6. PointCalls' /\ LocatorsOfPolygons'
  BY <1>1, <1>4, WithinKeepsOrder
<1>7. treesBuilt' => index'
  <2>1. CASE index' = TRUE
    BY <2>1
  <2>2. CASE index' = index /\ treesBuilt' = treesBuilt
    BY <2>2 DEF CachesInOrder, LocatorsInOrder
  <2> QED BY <1>2, <2>1, <2>2
<1>8. LocatorsInOrder'
  <2>1. ptOnGeomLoc /\ ptOnGeomLoc' = ptOnGeomLoc /\ indexedPtOnGeomLoc' = indexedPtOnGeomLoc
    BY <1>1, <1>3 DEF CachesInOrder, LocatorsInOrder
  <2> QED BY <1>1, <1>7, <2>1 DEF LocatorsInOrder
<1>9. FinderInOrder'
  BY <1>2, <1>3 DEF CachesInOrder, FinderInOrder, finderVars
<1> QED BY <1>5, <1>6, <1>8, <1>9 DEF CachesInOrder

\* Steps that only decide change no cache.
LEMMA DecisionKeeps ==
  ASSUME CachesInOrder, pc \in Inside, UNCHANGED <<baseGeom, passed, cacheVars, failures, call>>,
         \/ pc' = "done" /\ answer' \in Answers
         \/ pc' \in {"finder", "facets", "relocate"} /\ UNCHANGED answer,
         pc' = "relocate" => Shape[baseGeom].type = A,
         pc \in PointSteps /\ OnlyLocates(call.op, call.test) => pc' \in PointSteps
  PROVE  CachesInOrder'
<1>1. Within(Answers, Inside)
  BY DEF Within, Inside, Steps
<1>2. UNCHANGED <<ptOnGeomLoc, indexedPtOnGeomLoc, index, treesBuilt, segIntFinder, indexBuilt, inserted, round,
                  indexedDistance>>
  BY DEF cacheVars, locatorVars, finderVars
<1>3. PreparedTypeOK'
  BY <1>1, <1>2, WithinKeepsTypes DEF CachesInOrder, PreparedTypeOK
<1>4. PointCalls' /\ LocatorsOfPolygons'
  BY <1>1, WithinKeepsOrder DEF PointSteps
<1>5. LocatorsInOrder' /\ FinderInOrder'
  BY <1>2 DEF CachesInOrder, LocatorsInOrder, FinderInOrder
<1> QED BY <1>3, <1>4, <1>5 DEF CachesInOrder

LEMMA ByPointsKeeps == ASSUME CachesInOrder, DecideByPoints PROVE CachesInOrder'
<1>1. pc \in Inside /\ pc \in PointSteps \ {"done"} /\ Shape[baseGeom].type = A
  BY DEF DecideByPoints, Inside, Steps, CachesInOrder, LocatorsOfPolygons, PointSteps
<1>2. call.op \in {"intersects", "containsProperly", "distance", "contains", "covers"}
  BY <1>1, AskedIsNamed DEF CachesInOrder, PreparedTypeOK, Inside
<1>3. UNCHANGED call
      /\ \/ pc' = "done" /\ answer' \in Answers
         \/ pc' \in {"finder", "facets", "relocate"} /\ UNCHANGED answer
  <2>1. CASE call.op = "intersects"
    BY <2>1 DEF DecideByPoints, ByPoints, Goto, Return, Answers
  <2>2. CASE call.op = "containsProperly"
    BY <2>2 DEF DecideByPoints, ByPoints, Goto, Return, Answers
  <2>3. CASE call.op = "distance"
    BY <2>3 DEF DecideByPoints, ByPoints, Goto, Return, Answers
  <2>4. CASE call.op \in {"contains", "covers"}
    BY <2>4 DEF DecideByPoints, ByPoints, Goto, Return, Answers
  <2> QED BY <1>2, <2>1, <2>2, <2>3, <2>4
<1>4. OnlyLocates(call.op, call.test) => pc' \in {"done", "relocate"}
  <2>1. CASE call.op = "intersects"
    BY <2>1 DEF DecideByPoints, ByPoints, Goto, Return, OnlyLocates
  <2>2. CASE call.op \in {"contains", "covers"}
    BY <2>2 DEF DecideByPoints, ByPoints, Goto, Return, OnlyLocates
  <2> QED BY <2>1, <2>2 DEF OnlyLocates
<1> QED BY <1>1, <1>3, <1>4, DecisionKeeps DEF DecideByPoints, PointSteps

LEMMA ByInteriorKeeps == ASSUME CachesInOrder, DecideByInterior PROVE CachesInOrder'
<1>1. pc \in Inside
  BY DEF DecideByInterior, Inside, Steps
<1>2. UNCHANGED call /\ pc' = "done" /\ answer' \in Answers
  BY DEF DecideByInterior, Return, Answers, Bool
<1> QED BY <1>1, <1>2, DecisionKeeps DEF DecideByInterior, PointSteps

LEMMA FinderKeeps == ASSUME CachesInOrder, getIntersectionFinder PROVE CachesInOrder'
<1>1. pc \in Inside /\ pc \notin PointSteps
  BY DEF getIntersectionFinder, Inside, Steps, PointSteps
<1>2. \/ segIntFinder' = TRUE /\ pc' = "process" /\ UNCHANGED <<call, answer, failures>>
      \/ /\ UNCHANGED <<segIntFinder, call>>
         /\ pc' = "done" /\ answer' = "exception" /\ failures < MaxFailures /\ failures' = failures + 1
  BY DEF getIntersectionFinder, Goto, Throw, Return
<1>3. UNCHANGED <<baseGeom, passed, call, locatorVars, indexBuilt, inserted, round, indexedDistance>>
  BY <1>2 DEF getIntersectionFinder
<1>4. Within(Answers, Inside)
  BY <1>2, <1>3 DEF Within, Inside, Steps
<1>5. PreparedTypeOK'
  BY <1>1, <1>2, <1>3, <1>4, WithinKeepsTypes DEF CachesInOrder, PreparedTypeOK, locatorVars
<1>6. PointCalls' /\ LocatorsOfPolygons'
  BY <1>1, <1>2, <1>4, WithinKeepsOrder DEF PointSteps
<1>7. LocatorsInOrder' /\ FinderInOrder'
  BY <1>2, <1>3 DEF CachesInOrder, LocatorsInOrder, FinderInOrder, locatorVars
<1> QED BY <1>5, <1>6, <1>7 DEF CachesInOrder

LEMMA ProcessKeeps == ASSUME CachesInOrder, process PROVE CachesInOrder'
<1>1. pc \in Inside /\ pc \notin PointSteps /\ segIntFinder
  BY DEF process, Inside, Steps, PointSteps, CachesInOrder, FinderInOrder
<1>2. /\ UNCHANGED call
      /\ \/ pc' = "detect" /\ UNCHANGED <<answer, failures>>
         \/ pc' = "done" /\ answer' = "exception" /\ failures < MaxFailures /\ failures' = failures + 1
  BY DEF process, fillIndex, Goto, Throw, Return
<1>3. /\ indexBuilt' \in BOOLEAN /\ inserted' \in {"none", "part", "whole"}
      /\ indexBuilt' => inserted' = "whole"
  <2>1. /\ indexBuilt \in BOOLEAN /\ inserted \in {"none", "part", "whole"}
        /\ indexBuilt => inserted = "whole"
    BY DEF CachesInOrder, PreparedTypeOK, FinderInOrder
  <2>2. \/ inserted' = (IF indexBuilt THEN inserted ELSE "whole") /\ indexBuilt' = TRUE
        \/ ~indexBuilt /\ indexBuilt' = indexBuilt /\ inserted' \in {inserted, "part"}
    BY DEF process, fillIndex
  <2>3. CASE inserted' = (IF indexBuilt THEN inserted ELSE "whole") /\ indexBuilt' = TRUE
    <3>1. inserted' = "whole"
      BY <2>1, <2>3
    <3> QED BY <2>3, <3>1
  <2>4. CASE ~indexBuilt /\ indexBuilt' = indexBuilt /\ inserted' \in {inserted, "part"}
    <3>1. inserted' \in {"none", "part", "whole"}
      BY <2>1, <2>4
    <3> QED BY <2>1, <2>4, <3>1
  <2> QED BY <2>2, <2>3, <2>4
<1>4. round' \in {0, 1}
  BY DEF process, CachesInOrder, PreparedTypeOK
<1>5. UNCHANGED <<baseGeom, passed, locatorVars, segIntFinder, indexedDistance>>
  BY DEF process
<1>6. Within(Answers, Inside)
  BY <1>2, <1>5 DEF Within, Inside, Steps
<1>7. PreparedTypeOK'
  BY <1>1, <1>3, <1>4, <1>5, <1>6, WithinKeepsTypes DEF CachesInOrder, PreparedTypeOK, locatorVars
<1>8. PointCalls' /\ LocatorsOfPolygons'
  BY <1>1, <1>2, <1>6, WithinKeepsOrder DEF PointSteps
<1>9. LocatorsInOrder' /\ FinderInOrder'
  BY <1>1, <1>2, <1>3, <1>5 DEF CachesInOrder, LocatorsInOrder, FinderInOrder, locatorVars
<1> QED BY <1>7, <1>8, <1>9 DEF CachesInOrder

LEMMA BySegmentsKeeps == ASSUME CachesInOrder, DecideBySegments PROVE CachesInOrder'
<1>1. pc \in Inside /\ pc \notin PointSteps
  BY DEF DecideBySegments, Inside, Steps, PointSteps
<1>2. UNCHANGED call /\ pc' = "done" /\ \E holds : answer' = Bool(holds)
  BY DEF DecideBySegments, Return
<1>3. answer' \in Answers
  BY <1>2 DEF Answers, Bool
<1> QED BY <1>1, <1>2, <1>3, DecisionKeeps DEF DecideBySegments

LEMMA FacetsKeep == ASSUME CachesInOrder, getIndexedFacetDistance PROVE CachesInOrder'
<1>1. pc \in Inside /\ pc \notin PointSteps
  BY DEF getIndexedFacetDistance, Inside, Steps, PointSteps
<1>2. \/ indexedDistance' = TRUE /\ pc' = "measure" /\ UNCHANGED <<call, answer, failures>>
      \/ /\ UNCHANGED <<indexedDistance, call>>
         /\ pc' = "done" /\ answer' = "exception" /\ failures < MaxFailures /\ failures' = failures + 1
  BY DEF getIndexedFacetDistance, Goto, Throw, Return
<1>3. UNCHANGED <<baseGeom, passed, call, locatorVars, finderVars>>
  BY <1>2 DEF getIndexedFacetDistance
<1>4. Within(Answers, Inside)
  BY <1>2, <1>3 DEF Within, Inside, Steps
<1>5. PreparedTypeOK'
  BY <1>1, <1>2, <1>3, <1>4, WithinKeepsTypes DEF CachesInOrder, PreparedTypeOK, locatorVars, finderVars
<1>6. PointCalls' /\ LocatorsOfPolygons'
  BY <1>1, <1>2, <1>4, WithinKeepsOrder DEF PointSteps
<1>7. LocatorsInOrder' /\ FinderInOrder'
  BY <1>2, <1>3 DEF CachesInOrder, LocatorsInOrder, FinderInOrder, locatorVars, finderVars
<1> QED BY <1>5, <1>6, <1>7 DEF CachesInOrder

LEMMA MeasureKeeps == ASSUME CachesInOrder, Measure \/ DecideForPoints PROVE CachesInOrder'
<1>1. pc \in Inside /\ pc \notin PointSteps
  BY DEF Measure, DecideForPoints, Inside, Steps, PointSteps
<1>2. UNCHANGED <<baseGeom, passed, cacheVars, failures, call>> /\ pc' = "done" /\ answer' \in Answers
  BY DEF Measure, DecideForPoints, Return, Answers, Bool
<1> QED BY <1>1, <1>2, DecisionKeeps

------------------------------------------------------------------------------
LEMMA StepKeeps == ASSUME CachesInOrder, Step PROVE CachesInOrder'
BY LocatorKeeps, IndexedKeeps, ByPointsKeeps, ByInteriorKeeps, FinderKeeps, ProcessKeeps,
   BySegmentsKeeps, FacetsKeep, MeasureKeeps DEF Step

LEMMA NextKeeps == ASSUME CachesInOrder, [PreparedNext]_preparedVars PROVE CachesInOrder'
<1>1. CASE \E op \in AskedOf(baseGeom), g \in Test : \E gPassed \in SUBSET Passable(g) : Call(op, g, gPassed)
  BY <1>1, CallKeeps
<1>2. CASE Step
  BY <1>2, StepKeeps
<1>3. CASE Forget
  BY <1>3, ForgetKeeps
<1>4. CASE UNCHANGED preparedVars
  BY <1>4 DEF preparedVars, cacheVars, locatorVars, finderVars, CachesInOrder, PreparedTypeOK, LocatorsInOrder, FinderInOrder,
              PointCalls, LocatorsOfPolygons, AskedOf
<1> QED BY <1>1, <1>2, <1>3, <1>4 DEF PreparedNext

THEOREM CachesInvariance == PreparedSpec => []CachesInOrder
<1>1. PreparedInit => CachesInOrder
  BY InitKeeps
<1>2. CachesInOrder /\ [PreparedNext]_preparedVars => CachesInOrder'
  BY NextKeeps
<1> QED BY <1>1, <1>2, PTL DEF PreparedSpec

\* PreparedPolygon, PreparedLineString: the caches keep their types, and a
\* prepared geometry is only in steps of a call it answers itself.
THEOREM PreparedTypeCorrect == PreparedSpec => []PreparedTypeOK
<1>1. CachesInOrder => PreparedTypeOK
  BY DEF CachesInOrder
<1> QED BY <1>1, CachesInvariance, PTL

\* MCIndexSegmentSetMutualIntersector::process: whichever call throws, and
\* wherever, a tree marked as built holds all chains of the base segments.
THEOREM IndexIsWhole == PreparedSpec => []BuiltIndexIsWhole
<1>1. CachesInOrder => BuiltIndexIsWhole
  BY DEF CachesInOrder, FinderInOrder, BuiltIndexIsWhole
<1> QED BY <1>1, CachesInvariance, PTL

\* PreparedPolygon: once the indexed locator has its index and the trees in
\* it are built, a call that only locates points writes to no cache at all.
THEOREM WarmReads == PreparedSpec => WarmCallsOnlyRead
<1>1. ASSUME CachesInOrder, [PreparedNext]_preparedVars,
             Warm, Shape[baseGeom].type = A, call # NoCall, OnlyLocates(call.op, call.test)
      PROVE  UNCHANGED cacheVars
  <2>1. pc \in PointSteps
    BY <1>1 DEF CachesInOrder, PointCalls
  <2>2. index = TRUE /\ treesBuilt = TRUE /\ indexedPtOnGeomLoc = TRUE /\ ptOnGeomLoc = TRUE
    BY <1>1 DEF CachesInOrder, PreparedTypeOK, LocatorsInOrder, Warm
  <2>3. CASE \E op \in AskedOf(baseGeom), g \in Test : \E gPassed \in SUBSET Passable(g) : Call(op, g, gPassed)
    BY <2>3 DEF Call
  <2>4. CASE getPointLocator
    BY <2>2, <2>4 DEF getPointLocator, cacheVars, locatorVars
  <2>5. CASE locateIndexed
    BY <2>2, <2>5 DEF locateIndexed, cacheVars, locatorVars
  <2>6. CASE getIntersectionFinder \/ process \/ getIndexedFacetDistance
    BY <2>1, <2>6 DEF getIntersectionFinder, process, getIndexedFacetDistance, PointSteps
  <2>7. CASE DecideByPoints \/ DecideByInterior \/ DecideBySegments \/ Measure \/ DecideForPoints
    BY <2>7 DEF DecideByPoints, DecideByInterior, DecideBySegments, Measure, DecideForPoints
  <2>8. CASE Forget
    BY <2>8 DEF Forget
  <2>9. CASE UNCHANGED preparedVars
    BY <2>9 DEF preparedVars
  <2> QED BY <1>1, <2>3, <2>4, <2>5, <2>6, <2>7, <2>8, <2>9 DEF PreparedNext, Step
<1>2. CachesInOrder /\ [PreparedNext]_preparedVars
        => [Warm /\ Shape[baseGeom].type = A /\ call # NoCall /\ OnlyLocates(call.op, call.test)
              => UNCHANGED cacheVars]_preparedVars
  BY <1>1
<1> QED BY <1>2, CachesInvariance, PTL DEF PreparedSpec, WarmCallsOnlyRead
==============================================================================
