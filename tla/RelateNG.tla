------------------------------ MODULE RelateNG -------------------------------
(***************************************************************************)
(* One evaluation of a topological predicate of two geometries             *)
(* (RelateNG::evaluate, TopologyComputer).                                 *)
(*                                                                         *)
(* The answer may come from the envelopes, from the dimensions, or from    *)
(* matrix entries that are found one by one: from points, from line ends,  *)
(* from a vertex of each ring, from intersections of segments, and from    *)
(* the edges around the nodes, in this order.  Each entry may decide the   *)
(* predicate, and nothing is looked at any more when it is decided.        *)
(***************************************************************************)
EXTENDS RelateNode

CONSTANT Predicates    \* the predicates evaluated

ASSUME PredicatesAssumption == Predicates \subseteq Predicate

\* An entry that is found: the two locations and the dimension.
Update == Location \X Location \X Dimension

VARIABLES
  predicate, a, b,   \* what is evaluated
  matrix,            \* intMatrix
  value,             \* m_value
  phase,             \* where evaluate() is
  todo,              \* the elements still to be looked at in this phase
  parts,             \* points of the current element still to be looked at
  pending,           \* updateDim() calls the current point still makes
  seenExterior       \* hasExteriorIntersection

vars == <<predicate, a, b, matrix, value, phase, todo, parts, pending, seenExterior>>
inputs == <<predicate, a, b>>

Evidence == {"pointsB", "endsB", "ringsB", "pointsA", "endsA", "ringsA", "segments", "nodes"}

isKnown == value # "unknown"
dimA == getDimensionReal(a)
dimB == getDimensionReal(b)
AsValue(bool) == IF bool THEN "true" ELSE "false"

------------------------------------------------------------------------------
Init ==
  /\ predicate \in Predicates
  /\ a \in Geometry
  /\ b \in Geometry
  /\ matrix = NoMatrix
  /\ value = "unknown"
  /\ phase = "envelopes"
  /\ todo = {}
  /\ parts = <<>>
  /\ pending = <<>>
  /\ seenExterior = FALSE

Answer(v) ==
  /\ value' = v
  /\ phase' = "done"
  /\ UNCHANGED <<inputs, matrix, todo, parts, pending, seenExterior>>

GoTo(next) ==
  /\ phase' = next
  /\ UNCHANGED <<inputs, matrix, value, todo, parts, pending, seenExterior>>

(***************************************************************************)
(* hasRequiredEnvelopeInteraction().                                       *)
(***************************************************************************)
hasRequiredEnvelopeInteraction ==
  IF requireCovers(predicate, TRUE) THEN EnvelopeCovers(Envelope[a], Envelope[b])
  ELSE IF requireCovers(predicate, FALSE) THEN EnvelopeCovers(Envelope[b], Envelope[a])
  ELSE requireInteraction(predicate) => EnvelopesIntersect(Envelope[a], Envelope[b])

CheckEnvelopes ==
  /\ phase = "envelopes"
  /\ IF hasRequiredEnvelopeInteraction THEN GoTo("dimensions") ELSE Answer("false")

(***************************************************************************)
(* predicate.init(dimA, dimB), and finishValue() when it knows.            *)
(***************************************************************************)
InitDimensions ==
  /\ phase = "dimensions"
  /\ IF DimensionsForbid(predicate, dimA, dimB) THEN Answer("false") ELSE GoTo("bounds")

(***************************************************************************)
(* predicate.init(envA, envB).                                             *)
(***************************************************************************)
ValueOfEnvelopes(p, eA, eB) ==
  CASE p.name = "intersects" /\ ~EnvelopesIntersect(eA, eB) -> "false"
    [] p.name = "disjoint" /\ ~EnvelopesIntersect(eA, eB) -> "true"
    [] p.name \in {"contains", "covers"} /\ ~EnvelopeCovers(eA, eB) -> "false"
    [] p.name \in {"within", "coveredBy"} /\ ~EnvelopeCovers(eB, eA) -> "false"
    [] p.name = "equals" /\ eA.null /\ eB.null -> "true"
    [] p.name = "equals" /\ eA # eB -> "false"
    [] p.name = "matches" /\ PatternInteracts(p.pattern) /\ ~EnvelopesIntersect(eA, eB) -> "false"
    [] OTHER -> "unknown"

InitEnvelopes ==
  /\ phase = "bounds"
  /\ LET v == ValueOfEnvelopes(predicate, Envelope[a], Envelope[b])
     IN  IF v # "unknown" THEN Answer(v) ELSE GoTo("exteriors")

------------------------------------------------------------------------------
(***************************************************************************)
(* updateDim(isAB, loc1, loc2, dim).                                       *)
(***************************************************************************)
Oriented(isAB, u) == IF isAB THEN u ELSE <<u[2], u[1], u[3]>>
OrientedAll(isAB, us) == [i \in DOMAIN us |-> Oriented(isAB, us[i])]

(***************************************************************************)
(* updateDimension(): an entry that rises may decide the predicate.  The   *)
(* basic predicates keep no matrix, they decide by the entry itself.       *)
(***************************************************************************)
UpdateDimension ==
  /\ pending # <<>>
  /\ LET u == Head(pending)
         entry == <<u[1], u[2]>>
         m == [matrix EXCEPT ![entry] = u[3]]
     IN  IF u[3] > matrix[entry]
           THEN /\ matrix' = m
                /\ value' = IF ~isKnown /\ isDetermined(predicate, m, dimA, dimB)
                              THEN AsValue(valueIM(predicate, m, dimA, dimB)) ELSE value
           ELSE UNCHANGED <<matrix, value>>
  /\ pending' = Tail(pending)
  /\ UNCHANGED <<inputs, phase, todo, parts, seenExterior>>

(***************************************************************************)
(* initExteriorDims() and initExteriorEmpty(): what the dimensions imply.  *)
(***************************************************************************)
ExteriorEmpty(isA, g) ==
  OrientedAll(isA,
    CASE getDimension(g) = P -> << <<"I", "E", P>> >>
      [] getDimension(g) = L ->
           (IF hasBoundary(g) THEN << <<"B", "E", P>> >> ELSE <<>>) \o << <<"I", "E", L>> >>
      [] getDimension(g) = A -> << <<"B", "E", L>>, <<"I", "E", A>> >>)

ExteriorDims(dA, dB) ==
  IF dA = None \/ dB = None
    THEN (IF dA # None THEN ExteriorEmpty(TRUE, a) ELSE <<>>)
           \o (IF dB # None THEN ExteriorEmpty(FALSE, b) ELSE <<>>)
    ELSE CASE dA = dB -> <<>>
           [] dA = P /\ dB = L -> << <<"E", "I", L>> >>
           [] dA = L /\ dB = P -> << <<"I", "E", L>> >>
           [] dA = P /\ dB = A -> << <<"E", "I", A>>, <<"E", "B", L>> >>
           [] dA = A /\ dB = P -> << <<"I", "E", A>>, <<"B", "E", L>> >>
           [] dA = L /\ dB = A -> << <<"E", "I", A>> >>
           [] dA = A /\ dB = L -> << <<"I", "E", A>> >>

------------------------------------------------------------------------------
(***************************************************************************)
(* The phases: which geometry is tested against which, and its elements.   *)
(***************************************************************************)
ofA == phase \in {"pointsA", "endsA", "ringsA"}
source == IF ofA THEN a ELSE b
target == IF ofA THEN b ELSE a

SharedVertices == {v \in Vertex : hasInteractionAB(a, b, v)}

Elements(next) ==
  CASE next = "pointsB" -> Shape[b].points
    [] next = "pointsA" -> Shape[a].points
    [] next = "endsB" -> Shape[b].lines
    [] next = "endsA" -> Shape[a].lines
    [] next = "ringsB" -> IF getDimension(a) < L THEN {} ELSE Shape[b].polygons
    [] next = "ringsA" -> IF getDimension(b) < L THEN {} ELSE Shape[a].polygons
    [] next = "matching" -> VerticesOf(b)
    [] next \in {"segments", "nodes"} -> SharedVertices
    [] OTHER -> {}

Enter(next) ==
  /\ phase' = next
  /\ todo' = Elements(next)
  /\ seenExterior' = FALSE
  /\ UNCHANGED <<inputs, matrix, value, parts>>

idle == pending = <<>> /\ parts = <<>>

(***************************************************************************)
(* The constructor of TopologyComputer; points against points have a       *)
(* faster way, computePP().                                                *)
(***************************************************************************)
StartTopology ==
  /\ phase = "exteriors"
  /\ pending' = ExteriorDims(dimA, dimB)
  /\ Enter(IF dimA = P /\ dimB = P THEN "matching" ELSE "pointsB")

(***************************************************************************)
(* computePP() counts the points of B found in A, and compares at the end. *)
(***************************************************************************)
MatchPoint(v) ==
  /\ phase = "matching" /\ idle /\ ~isKnown
  /\ v \in todo
  /\ todo' = todo \ {v}
  /\ pending' = IF v \in VerticesOf(a) THEN << <<"I", "I", P>> >> ELSE << <<"E", "I", P>> >>
  /\ UNCHANGED <<inputs, matrix, value, phase, parts, seenExterior>>

EndMatching ==
  /\ phase = "matching" /\ idle
  /\ isKnown \/ todo = {}
  /\ pending' = IF ~isKnown /\ Cardinality(VerticesOf(a) \cap VerticesOf(b)) < Cardinality(VerticesOf(a))
                  THEN << <<"I", "E", P>> >> ELSE <<>>
  /\ Enter("finish")

(***************************************************************************)
(* A point, a line, a polygon.  Once an exterior intersection is recorded, *)
(* lines and polygons beyond the target's envelope are skipped.            *)
(***************************************************************************)
PartsOf(x) ==
  IF phase \in {"endsA", "endsB"}
    THEN IF isClosed(x) THEN <<x[1]>> ELSE <<x[1], x[Len(x)]>>
    ELSE IF phase \in {"ringsA", "ringsB"} THEN [i \in DOMAIN x.rings |-> x.rings[i][1]]
    ELSE <<x>>

ElementVertices(x) ==
  IF phase \in {"endsA", "endsB"} THEN LineVertices(x) ELSE UNION PolygonEdges(x)

Skipped(x) ==
  /\ phase \in {"endsA", "endsB", "ringsA", "ringsB"}
  /\ seenExterior
  /\ ~EnvelopesIntersect(EnvelopeAround(ElementVertices(x)), Envelope[target])

TakeElement(x) ==
  /\ phase \in Evidence /\ idle /\ ~isKnown
  /\ x \in todo
  /\ todo' = todo \ {x}
  /\ parts' = IF Skipped(x) THEN <<>> ELSE PartsOf(x)
  /\ UNCHANGED <<inputs, matrix, value, phase, pending, seenExterior>>

------------------------------------------------------------------------------
(***************************************************************************)
(* addPointOnGeometry(): a point at a location of the target.              *)
(***************************************************************************)
PointUpdates(loc) ==
  << <<"I", loc, P>> >>
    \o (IF ~isEmpty(target) /\ getDimension(target) = A
          THEN << <<"E", "I", A>>, <<"E", "B", L>> >> ELSE <<>>)

(***************************************************************************)
(* addLineEndOnGeometry(), addLineEndOnLine(), addLineEndOnArea().         *)
(***************************************************************************)
\* mutated form of LineEndUpdates: an end on a boundary is taken to go on there
LineEndUpdatesOnBoundary(locEnd, loc) ==
  << <<locEnd, loc, P>> >>
    \o (IF ~isEmpty(target) /\ getDimension(target) = A
          THEN << <<"I", loc, L>>, <<"E", loc, A>> >> ELSE <<>>)

LineEndUpdates(locEnd, loc) ==
  << <<locEnd, loc, P>> >>
    \o (CASE hasDimension(target, L) /\ loc = "E" -> << <<"I", "E", L>> >>
          [] hasDimension(target, A) /\ loc # "B" -> << <<"I", loc, L>>, <<"E", loc, A>> >>
          [] OTHER -> <<>>)

(***************************************************************************)
(* addAreaVertex() and what it calls; a vertex of a polygon is always on   *)
(* the polygon's boundary.                                                 *)
(***************************************************************************)
AreaVertexUpdates(loc) ==
  CASE loc = "E" -> << <<"I", "E", A>>, <<"B", "E", L>>, <<"E", "E", A>> >>
    [] loc # "E" /\ getDimension(target) = P ->
         << <<"B", "I", P>>, <<"I", "E", A>>, <<"B", "E", L>>, <<"E", "E", A>> >>
    [] loc # "E" /\ getDimension(target) = L -> << <<"B", loc, P>> >>
    [] loc = "B" /\ getDimension(target) = A -> << <<"B", "B", P>> >>
    [] loc = "I" /\ getDimension(target) = A -> << <<"I", loc, A>>, <<"B", loc, L>>, <<"E", loc, A>> >>

(***************************************************************************)
(* addIntersection(), and evaluateNode() for the nodes collected so.       *)
(***************************************************************************)
SegmentUpdates(v) ==
  (IF AreasCross(a, b, v) THEN << <<"I", "I", A>> >> ELSE <<>>)
    \o << <<locateNode(a, v), locateNode(b, v), P>> >>

Updates(v) ==
  CASE phase \in {"pointsA", "pointsB"} -> OrientedAll(ofA, PointUpdates(locate(target, v)))
    [] phase \in {"endsA", "endsB"} ->
         OrientedAll(ofA, LineEndUpdates(locateLineEnd(source, v), locate(target, v)))
    [] phase \in {"ringsA", "ringsB"} -> OrientedAll(ofA, AreaVertexUpdates(locate(target, v)))
    [] phase = "segments" -> SegmentUpdates(v)
    [] phase = "nodes" -> NodeUpdates(a, b, v)

TakePart ==
  /\ pending = <<>> /\ parts # <<>> /\ ~isKnown
  /\ pending' = Updates(Head(parts))
  /\ parts' = Tail(parts)
  /\ seenExterior' =
       \/ seenExterior
       \/ phase \in {"endsA", "endsB", "ringsA", "ringsB"} /\ locate(target, Head(parts)) = "E"
  /\ UNCHANGED <<inputs, matrix, value, phase, todo>>

(***************************************************************************)
(* What follows a phase: computeAtPoints() tests line ends and rings only  *)
(* against areas, or if the predicate asks for the exterior.               *)
(***************************************************************************)
checkDisjointPoints(isA, g) == hasDimension(g, A) \/ requireExteriorCheck(predicate, isA)

AfterPoints ==
  IF hasEdges(a) /\ hasEdges(b) /\ EnvelopesIntersect(Envelope[a], Envelope[b])
    THEN "segments" ELSE "finish"

\* mutated form of NextPhase: the rings of B are forgotten
NextPhaseWithoutRings ==
  CASE phase = "pointsB" -> IF checkDisjointPoints(FALSE, a) THEN "endsB" ELSE "pointsA"
    [] phase \in {"endsB", "ringsB"} -> "pointsA"
    [] phase = "pointsA" -> IF checkDisjointPoints(TRUE, b) THEN "endsA" ELSE AfterPoints
    [] phase = "endsA" -> "ringsA"
    [] phase = "ringsA" -> AfterPoints
    [] phase = "segments" -> "nodes"
    [] phase = "nodes" -> "finish"

NextPhase ==
  CASE phase = "pointsB" -> IF checkDisjointPoints(FALSE, a) THEN "endsB" ELSE "pointsA"
    [] phase = "endsB" -> "ringsB"
    [] phase = "ringsB" -> "pointsA"
    [] phase = "pointsA" -> IF checkDisjointPoints(TRUE, b) THEN "endsA" ELSE AfterPoints
    [] phase = "endsA" -> "ringsA"
    [] phase = "ringsA" -> AfterPoints
    [] phase = "segments" -> "nodes"
    [] phase = "nodes" -> "finish"

EndPhase ==
  /\ phase \in Evidence
  /\ idle /\ ~isKnown /\ todo = {}
  /\ pending' = <<>>
  /\ Enter(NextPhase)

\* isResultKnown() after a point, an element or a node: what is left is dropped.
StopEarly ==
  /\ phase \in Evidence
  /\ pending = <<>> /\ isKnown
  /\ phase' = "done"
  /\ todo' = {}
  /\ parts' = <<>>
  /\ UNCHANGED <<inputs, matrix, value, pending, seenExterior>>

(***************************************************************************)
(* finish(): the value of the matrix as it is, if none is known yet.       *)
(***************************************************************************)
Finish ==
  /\ phase = "finish" /\ pending = <<>>
  /\ Answer(IF isKnown THEN value ELSE AsValue(valueIM(predicate, matrix, dimA, dimB)))

Next ==
  \/ CheckEnvelopes
  \/ InitDimensions
  \/ InitEnvelopes
  \/ StartTopology
  \/ UpdateDimension
  \/ \E x \in todo : MatchPoint(x)
  \/ EndMatching
  \/ \E x \in todo : TakeElement(x)
  \/ TakePart
  \/ EndPhase
  \/ StopEarly
  \/ Finish

Spec == Init /\ [][Next]_vars

------------------------------------------------------------------------------
\* An evaluation that is over has an answer.
TypeOK ==
  /\ predicate \in Predicates /\ a \in Geometry /\ b \in Geometry
  /\ matrix \in Matrix
  /\ value \in {"unknown", "false", "true"}
  /\ phase \in {"envelopes", "dimensions", "bounds", "exteriors", "matching", "finish", "done"}
               \cup Evidence
  /\ phase = "done" => isKnown
  /\ pending \in Seq(Update)
  /\ seenExterior \in BOOLEAN

(***************************************************************************)
(* An answer is what the comments of RelatePredicate.h say of the complete *)
(* matrix, although most of the matrix was never computed: the envelopes,  *)
(* the dimensions or the first entries decided, and tests that the         *)
(* predicate does not need were left out.                                  *)
(***************************************************************************)
AnswerIsDocumented ==
  phase = "done" =>
    value = AsValue(Meaning(predicate, Truth[<<a, b>>], dimA, dimB, isEmpty(a) /\ isEmpty(b)))

(***************************************************************************)
(* What is inferred from a point, a line end, a vertex of a ring or a node *)
(* is there: no entry ever exceeds that of the complete matrix.            *)
(***************************************************************************)
NothingIsInvented == \A e \in Entry : matrix[e] <= Truth[<<a, b>>][e]

(***************************************************************************)
(* The predicate that asks for the matrix gets all of it: no intersection  *)
(* of interiors, boundaries or exteriors is missed.                        *)
(***************************************************************************)
MatrixIsComplete ==
  phase = "done" /\ predicate.name = "matrix" =>
    \A e \in Entry : matrix[e] >= Truth[<<a, b>>][e]

(***************************************************************************)
(* Once a predicate is known while the topology is computed, its value is  *)
(* that of every complete matrix that agrees with what was found: two      *)
(* geometries that would have differed only in what was not looked at      *)
(* would not have got different answers.                                   *)
(***************************************************************************)
Complete ==
  [dims \in (Dimension \X Dimension) |->
     {Truth[gh] : gh \in
        {pair \in Geometry \X Geometry :
           <<getDimensionReal(pair[1]), getDimensionReal(pair[2])>> = dims}}]
KnownIsFinal ==
  phase \in Evidence \cup {"matching", "finish"} /\ pending = <<>> /\ isKnown =>
    \A m \in Complete[<<dimA, dimB>>] :
      (\A e \in Entry : matrix[e] <= m[e]) =>
        value = AsValue(valueIM(predicate, m, dimA, dimB))
==============================================================================
