--------------------------- MODULE RelatePredicate ---------------------------
(***************************************************************************)
(* The topological predicates of RelateNG, as functions of the DE-9IM      *)
(* matrix found so far (RelatePredicate.h, BasicPredicate, IMPredicate,    *)
(* IMPatternMatcher, IntersectionMatrix).                                  *)
(*                                                                         *)
(* A matrix gives each pair of locations the dimension of the points that  *)
(* lie there in the two geometries.  While a predicate is evaluated the    *)
(* entries only rise; a predicate is determined when no further rise can   *)
(* change its value.                                                       *)
(***************************************************************************)
EXTENDS Integers, Sequences

Location == {"I", "B", "E"}
Entry == Location \X Location

(***************************************************************************)
(* Dimension::False, P, L and A.                                           *)
(***************************************************************************)
None == -1
P == 0
L == 1
A == 2
Dimension == {None, P, L, A}

Matrix == [Entry -> Dimension]

(***************************************************************************)
(* A new matrix: of the points of the plane some area lies outside both.   *)
(***************************************************************************)
NoMatrix == [e \in Entry |-> IF e = <<"E", "E">> THEN A ELSE None]

(***************************************************************************)
(* A predicate is a record of its name and, if it matches a pattern, the   *)
(* pattern: a symbol for each entry.                                       *)
(***************************************************************************)
Symbol == {"*", "T", "F", "0", "1", "2"}
Name == {"intersects", "disjoint", "contains", "within", "covers", "coveredBy",
         "crosses", "equals", "overlaps", "touches", "matches", "matrix"}
Predicate == [name : Name, pattern : [Entry -> Symbol]]

AnyPattern == [e \in Entry |-> "*"]
Named(name) == [name |-> name, pattern |-> AnyPattern]

(***************************************************************************)
(* "T*F**FFF*" as a pattern: the rows are the locations of A.              *)
(***************************************************************************)
Position(l) == CASE l = "I" -> 1 [] l = "B" -> 2 [] l = "E" -> 3
PatternOf(symbols) == [e \in Entry |-> symbols[3 * (Position(e[1]) - 1) + Position(e[2])]]
Matching(symbols) == [name |-> "matches", pattern |-> PatternOf(symbols)]

\* intersects and disjoint are BasicPredicates: they look at single entries.
isBasic(p) == p.name \in {"intersects", "disjoint"}

------------------------------------------------------------------------------
(***************************************************************************)
(* IntersectionMatrix.                                                     *)
(***************************************************************************)
isTrue(m, a, b) == m[<<a, b>>] >= P
isFalse(m, a, b) == m[<<a, b>>] = None

SymbolMatches(symbol, dim) ==
  \/ symbol = "*"
  \/ symbol = "T" /\ dim >= P
  \/ symbol = "F" /\ dim = None
  \/ symbol = "0" /\ dim = P
  \/ symbol = "1" /\ dim = L
  \/ symbol = "2" /\ dim = A

matches(m, pattern) == \A e \in Entry : SymbolMatches(pattern[e], m[e])

NonExterior == {<<"I", "I">>, <<"I", "B">>, <<"B", "I">>, <<"B", "B">>}

isIntersects(m) == \E e \in NonExterior : m[e] >= P

isContains(m) ==
  /\ isTrue(m, "I", "I")
  /\ isFalse(m, "E", "I")
  /\ isFalse(m, "E", "B")

isWithin(m) ==
  /\ isTrue(m, "I", "I")
  /\ isFalse(m, "I", "E")
  /\ isFalse(m, "B", "E")

isCovers(m) ==
  /\ isIntersects(m)
  /\ isFalse(m, "E", "I")
  /\ isFalse(m, "E", "B")

isCoveredBy(m) ==
  /\ isIntersects(m)
  /\ isFalse(m, "I", "E")
  /\ isFalse(m, "B", "E")

isCrosses(m, dA, dB) ==
  \/ dA >= P /\ dA < dB /\ isTrue(m, "I", "I") /\ isTrue(m, "I", "E")
  \/ dB >= P /\ dB < dA /\ isTrue(m, "I", "I") /\ isTrue(m, "E", "I")
  \/ dA = L /\ dB = L /\ m[<<"I", "I">>] = P

isEquals(m, dA, dB) ==
  /\ dA = dB
  /\ isTrue(m, "I", "I")
  /\ isFalse(m, "I", "E")
  /\ isFalse(m, "B", "E")
  /\ isFalse(m, "E", "I")
  /\ isFalse(m, "E", "B")

isOverlaps(m, dA, dB) ==
  /\ dA = dB
  /\ dA >= P
  /\ IF dA = L THEN m[<<"I", "I">>] = L ELSE isTrue(m, "I", "I")
  /\ isTrue(m, "I", "E")
  /\ isTrue(m, "E", "I")

isTouches(m, dA, dB) ==
  /\ dA >= P /\ dB >= P /\ ~(dA = P /\ dB = P)
  /\ isFalse(m, "I", "I")
  /\ \/ isTrue(m, "I", "B")
     \/ isTrue(m, "B", "I")
     \/ isTrue(m, "B", "B")

------------------------------------------------------------------------------
(***************************************************************************)
(* What a predicate asks for before anything else is computed.             *)
(***************************************************************************)
SymbolInteracts(symbol) == symbol \in {"T", "0", "1", "2"}
PatternInteracts(pattern) == \E e \in NonExterior : SymbolInteracts(pattern[e])

requireInteraction(p) ==
  CASE p.name \in {"disjoint", "equals", "matrix"} -> FALSE
    [] p.name = "matches" -> PatternInteracts(p.pattern)
    [] OTHER -> TRUE

requireCovers(p, isA) ==
  \/ isA /\ p.name \in {"contains", "covers"}
  \/ ~isA /\ p.name \in {"within", "coveredBy"}

\* mutated form of requireExteriorCheck: the sides are swapped
requireExteriorCheckSwapped(p, isA) ==
  CASE isBasic(p) -> FALSE
    [] p.name \in {"contains", "covers"} -> isA
    [] p.name \in {"within", "coveredBy"} -> ~isA
    [] OTHER -> TRUE

requireExteriorCheck(p, isA) ==
  CASE isBasic(p) -> FALSE
    [] p.name \in {"contains", "covers"} -> ~isA
    [] p.name \in {"within", "coveredBy"} -> isA
    [] OTHER -> TRUE

\* Points may be covered by lines of no length.
isDimsCompatibleWithCovers(d0, d1) == (d0 = P /\ d1 = L) \/ d0 >= d1

(***************************************************************************)
(* init(dimA, dimB): dimensions that already answer "no".                  *)
(***************************************************************************)
DimensionsForbid(p, dA, dB) ==
  CASE p.name \in {"contains", "covers"} -> ~isDimsCompatibleWithCovers(dA, dB)
    [] p.name \in {"within", "coveredBy"} -> ~isDimsCompatibleWithCovers(dB, dA)
    [] p.name = "crosses" -> dA = dB /\ dA \in {P, A}
    [] p.name = "overlaps" -> dA # dB
    [] p.name = "touches" -> dA = P /\ dB = P
    [] OTHER -> FALSE

(***************************************************************************)
(* isDetermined(): the entries found so far decide the predicate.          *)
(***************************************************************************)
intersectsExteriorOfA(m) == isTrue(m, "E", "I") \/ isTrue(m, "E", "B")
intersectsExteriorOfB(m) == isTrue(m, "I", "E") \/ isTrue(m, "B", "E")

crossesDetermined(m, dA, dB) ==
  \/ dA = L /\ dB = L /\ m[<<"I", "I">>] > P
  \/ dA < dB /\ isTrue(m, "I", "I") /\ isTrue(m, "I", "E")
  \/ dA > dB /\ isTrue(m, "I", "I") /\ isTrue(m, "E", "I")

\* mutated form of overlapsDetermined: the exterior of A is not asked for
overlapsDeterminedEarly(m, dA) ==
  /\ \/ dA \in {A, P} /\ isTrue(m, "I", "I")
     \/ dA = L /\ m[<<"I", "I">>] = L
  /\ isTrue(m, "I", "E")

overlapsDetermined(m, dA) ==
  /\ \/ dA \in {A, P} /\ isTrue(m, "I", "I")
     \/ dA = L /\ m[<<"I", "I">>] = L
  /\ isTrue(m, "I", "E")
  /\ isTrue(m, "E", "I")

(***************************************************************************)
(* The loop over the pattern, row by row, ends at the first entry that is  *)
(* beyond its symbol, or at the first "T" that is not found yet.           *)
(***************************************************************************)
SymbolDimension(symbol) ==
  CASE symbol = "F" -> None [] symbol = "0" -> P [] symbol = "1" -> L [] OTHER -> A
BeyondSymbol(symbol, dim) ==
  symbol \in {"F", "0", "1", "2"} /\ dim > SymbolDimension(symbol)
EntryOrder == [e \in Entry |-> 3 * (Position(e[1]) - 1) + Position(e[2])]
patternDetermined(m, pattern) ==
  \E e \in Entry :
    /\ BeyondSymbol(pattern[e], m[e])
    /\ \A f \in Entry :
         EntryOrder[f] < EntryOrder[e] => ~(pattern[f] = "T" /\ m[f] < P)

isDetermined(p, m, dA, dB) ==
  CASE isBasic(p) -> isIntersects(m)
    [] p.name \in {"contains", "covers"} -> intersectsExteriorOfA(m)
    [] p.name \in {"within", "coveredBy"} -> intersectsExteriorOfB(m)
    [] p.name = "crosses" -> crossesDetermined(m, dA, dB)
    [] p.name = "equals" -> intersectsExteriorOfA(m) \/ intersectsExteriorOfB(m)
    [] p.name = "overlaps" -> overlapsDetermined(m, dA)
    [] p.name = "touches" -> isTrue(m, "I", "I")
    [] p.name = "matches" -> patternDetermined(m, p.pattern)
    [] p.name = "matrix" -> FALSE

(***************************************************************************)
(* valueIM(), and for the basic predicates what finish() leaves.           *)
(***************************************************************************)
valueIM(p, m, dA, dB) ==
  CASE p.name = "intersects" -> isIntersects(m)
    [] p.name = "disjoint" -> ~isIntersects(m)
    [] p.name = "contains" -> isContains(m)
    [] p.name = "within" -> isWithin(m)
    [] p.name = "covers" -> isCovers(m)
    [] p.name = "coveredBy" -> isCoveredBy(m)
    [] p.name = "crosses" -> isCrosses(m, dA, dB)
    [] p.name = "equals" -> isEquals(m, dA, dB)
    [] p.name = "overlaps" -> isOverlaps(m, dA, dB)
    [] p.name = "touches" -> isTouches(m, dA, dB)
    [] p.name = "matches" -> matches(m, p.pattern)
    [] p.name = "matrix" -> FALSE

------------------------------------------------------------------------------
(***************************************************************************)
(* What the comments of RelatePredicate.h say each predicate means, as     *)
(* patterns of the complete matrix.  empty: both geometries are.           *)
(***************************************************************************)
SomePattern(m, symbols) == \E i \in DOMAIN symbols : matches(m, PatternOf(symbols[i]))

Meaning(p, m, dA, dB, empty) ==
  CASE p.name = "intersects" ->
         SomePattern(m, << <<"T","*","*","*","*","*","*","*","*">>,
                   <<"*","T","*","*","*","*","*","*","*">>,
                   <<"*","*","*","T","*","*","*","*","*">>,
                   <<"*","*","*","*","T","*","*","*","*">> >>)
    [] p.name = "disjoint" -> SomePattern(m, << <<"F","F","*","F","F","*","*","*","*">> >>)
    [] p.name = "contains" -> SomePattern(m, << <<"T","*","*","*","*","*","F","F","*">> >>)
    [] p.name = "within" -> SomePattern(m, << <<"T","*","F","*","*","F","*","*","*">> >>)
    [] p.name = "covers" ->
         SomePattern(m, << <<"T","*","*","*","*","*","F","F","*">>,
                   <<"*","T","*","*","*","*","F","F","*">>,
                   <<"*","*","*","T","*","*","F","F","*">>,
                   <<"*","*","*","*","T","*","F","F","*">> >>)
    [] p.name = "coveredBy" ->
         SomePattern(m, << <<"T","*","F","*","*","F","*","*","*">>,
                   <<"*","T","F","*","*","F","*","*","*">>,
                   <<"*","*","F","T","*","F","*","*","*">>,
                   <<"*","*","F","*","T","F","*","*","*">> >>)
    [] p.name = "crosses" ->
         \/ dA < dB /\ SomePattern(m, << <<"T","*","T","*","*","*","*","*","*">> >>)
         \/ dA > dB /\ SomePattern(m, << <<"T","*","*","*","*","*","T","*","*">> >>)
         \/ dA = L /\ dB = L /\ SomePattern(m, << <<"0","*","*","*","*","*","*","*","*">> >>)
    [] p.name = "equals" ->
         empty \/ SomePattern(m, << <<"T","*","F","*","*","F","F","F","*">> >>)
    [] p.name = "overlaps" ->
         /\ dA = dB
         /\ IF dA = L THEN SomePattern(m, << <<"1","*","T","*","*","*","T","*","*">> >>)
                      ELSE SomePattern(m, << <<"T","*","T","*","*","*","T","*","*">> >>)
    [] p.name = "touches" ->
         SomePattern(m, << <<"F","T","*","*","*","*","*","*","*">>,
                   <<"F","*","*","T","*","*","*","*","*">>,
                   <<"F","*","*","*","T","*","*","*","*">> >>)
    [] p.name = "matches" -> matches(m, p.pattern)
    [] p.name = "matrix" -> FALSE
==============================================================================
