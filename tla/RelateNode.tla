----------------------------- MODULE RelateNode ------------------------------
(***************************************************************************)
(* The edges around a node of the intersection of two geometries, sorted   *)
(* by angle, and what is known of their sides (RelateNode, RelateEdge,     *)
(* PolygonNodeTopology, RelateSegmentString, NodeSections).                *)
(***************************************************************************)
EXTENDS RelateGeometry, SequencesExt

(***************************************************************************)
(* Angles around a node, exact for integer coordinates.                    *)
(***************************************************************************)
Dx(v, p) == Coordinate[p][1] - Coordinate[v][1]
Dy(v, p) == Coordinate[p][2] - Coordinate[v][2]

quadrant(v, p) ==
  IF Dx(v, p) >= 0 THEN IF Dy(v, p) >= 0 THEN 0 ELSE 3
                   ELSE IF Dy(v, p) >= 0 THEN 1 ELSE 2

\* Positive if p is counterclockwise of q, seen from v.
Turn(v, q, p) == Dx(v, q) * Dy(v, p) - Dy(v, q) * Dx(v, p)

compareAngle(v, p, q) ==
  IF quadrant(v, p) # quadrant(v, q)
    THEN IF quadrant(v, p) > quadrant(v, q) THEN 1 ELSE -1
    ELSE IF Turn(v, q, p) > 0 THEN 1 ELSE IF Turn(v, q, p) < 0 THEN -1 ELSE 0

compareBetween(v, p, lo, hi) ==
  IF compareAngle(v, p, lo) = 0 \/ compareAngle(v, p, hi) = 0 THEN 0
  ELSE IF compareAngle(v, p, lo) > 0 /\ compareAngle(v, p, hi) < 0 THEN 1 ELSE -1

\* A corner <<a0, a1>> at v is crossed by a corner <<b0, b1>>.
isCrossing(v, a, b) ==
  LET swap == compareAngle(v, a[1], a[2]) > 0
      lo == IF swap THEN a[2] ELSE a[1]
      hi == IF swap THEN a[1] ELSE a[2]
      side0 == compareBetween(v, b[1], lo, hi)
      side1 == compareBetween(v, b[2], lo, hi)
  IN  side0 # 0 /\ side1 # 0 /\ side0 # side1

------------------------------------------------------------------------------
(***************************************************************************)
(* The section of a line or ring at v: the vertices before and after it,   *)
(* "none" beyond the end of a line.  Rings are stored clockwise, holes     *)
(* counterclockwise, so that the inside is on the right.                   *)
(***************************************************************************)
NoVertex == "none"

InsideOnRight(polygon, u, v) == LeftFace[<<v, u>>] \in polygon.faces
Cyclic(s, i) == IF i < 1 THEN s[i + Len(s)] ELSE IF i > Len(s) THEN s[i - Len(s)] ELSE s[i]

RingSections(polygon, ring, v) ==
  {LET before == Cyclic(ring, i - 1)
       after == Cyclic(ring, i + 1)
   IN  IF InsideOnRight(polygon, before, v) THEN <<before, after>> ELSE <<after, before>>
   : i \in {j \in DOMAIN ring : ring[j] = v}}

isClosed(line) == line[1] = line[Len(line)]

prevVertex(line, i) ==
  IF i > 1 THEN line[i - 1]
  ELSE IF isClosed(line) THEN line[Len(line) - 1] ELSE NoVertex
nextVertex(line, i) ==
  IF i < Len(line) THEN line[i + 1]
  ELSE IF isClosed(line) THEN line[2] ELSE NoVertex

LineSections(line, v) ==
  IF LineEdges(line) = {} THEN {}
  ELSE {<<prevVertex(line, i), nextVertex(line, i)>> : i \in {j \in DOMAIN line : line[j] = v}}

(***************************************************************************)
(* What straight edges of a plane are like: those at v can be listed as    *)
(* one turn counterclockwise meets them, in the order of compareAngle, and *)
(* the face on the left of one is that on the right of the next.           *)
(***************************************************************************)
Neighbours(v) == {u \in Vertex : <<v, u>> \in Dart}
IsTurn(v, r) ==
  /\ \A u \in Neighbours(v) : \E i \in DOMAIN r : r[i] = u
  /\ \A i, j \in DOMAIN r :
       compareAngle(v, r[i], r[j]) = IF i < j THEN -1 ELSE IF i > j THEN 1 ELSE 0
  /\ \A i \in DOMAIN r : LeftFace[<<v, r[i]>>] = LeftFace[<<Cyclic(r, i + 1), v>>]

ASSUME TurnAssumption ==
  /\ NoVertex \notin Vertex
  /\ \A v \in Vertex : \E r \in [1..Cardinality(Neighbours(v)) -> Neighbours(v)] : IsTurn(v, r)

\* All sections of g at v, as a set of records.
SectionsAt(g, v) ==
  {[dim |-> L, corner |-> c] : c \in UNION {LineSections(line, v) : line \in Shape[g].lines}}
  \cup
  {[dim |-> A, corner |-> c] :
     c \in UNION {UNION {RingSections(polygon, polygon.rings[i], v) : i \in DOMAIN polygon.rings}
                    : polygon \in Shape[g].polygons}}

\* Both geometries have edges there, so their segments intersect there.
hasInteractionAB(g, h, v) == SectionsAt(g, v) # {} /\ SectionsAt(h, v) # {}

\* updateAreaAreaCross(): some corners of two areas cross at v.
AreasCross(g, h, v) ==
  \E s \in SectionsAt(g, v), t \in SectionsAt(h, v) :
    s.dim = A /\ t.dim = A /\ isCrossing(v, s.corner, t.corner)

------------------------------------------------------------------------------
(***************************************************************************)
(* RelateEdge: what is known of an edge in each of the two geometries.     *)
(* "N" is a location that is not known.                                    *)
(***************************************************************************)
UnknownLabel == [dim |-> None, left |-> "N", on |-> "N", right |-> "N"]
InteriorLabel(label) == [label EXCEPT !.left = "I", !.on = "I", !.right = "I"]

\* The constructors; the inside of an area is on the right of a forward edge.
EdgeLabel(dim, isForward) ==
  IF dim = A
    THEN [dim |-> A, on |-> "B",
          left |-> IF isForward THEN "E" ELSE "I", right |-> IF isForward THEN "I" ELSE "E"]
    ELSE [dim |-> L, left |-> "E", on |-> "I", right |-> "E"]

MergeSide(old, new) == IF old # "I" THEN new ELSE old

\* merge(): an area overrides a line, the interior overrides the exterior.
Merge(old, new) ==
  IF old.dim = None THEN new
  ELSE [dim |-> IF new.on = "B" /\ old.dim = L THEN A ELSE old.dim,
        on |-> IF new.on = "B" /\ old.dim = L THEN "B" ELSE old.on,
        left |-> MergeSide(old.left, new.left),
        right |-> MergeSide(old.right, new.right)]

(***************************************************************************)
(* A wheel maps the directions of the edges at v to the labels of each     *)
(* geometry: wheel[d][TRUE] for A, wheel[d][FALSE] for B.                  *)
(***************************************************************************)
NoWheel == [d \in {} |-> UnknownLabel]

addEdge(wheel, isA, d, dim, isForward) ==
  IF d = NoVertex THEN wheel
  ELSE LET new == EdgeLabel(dim, isForward)
           both == IF d \in DOMAIN wheel THEN wheel[d] ELSE [b \in BOOLEAN |-> UnknownLabel]
       IN  [x \in DOMAIN wheel \cup {d} |->
              IF x = d THEN [both EXCEPT ![isA] = Merge(@, new)] ELSE wheel[x]]

\* Neighbours in the list of edges, which is sorted by angle and cyclic.
Higher(v, dirs, d) == {x \in dirs : compareAngle(v, x, d) > 0}
Lower(v, dirs, d) == {x \in dirs : compareAngle(v, x, d) < 0}
LowestOf(v, dirs) == CHOOSE x \in dirs : \A y \in dirs : compareAngle(v, x, y) <= 0
HighestOf(v, dirs) == CHOOSE x \in dirs : \A y \in dirs : compareAngle(v, x, y) >= 0
nextEdge(v, dirs, d) ==
  IF Higher(v, dirs, d) # {} THEN LowestOf(v, Higher(v, dirs, d)) ELSE LowestOf(v, dirs)
prevEdge(v, dirs, d) ==
  IF Lower(v, dirs, d) # {} THEN HighestOf(v, Lower(v, dirs, d)) ELSE HighestOf(v, dirs)

\* The edges met when turning counterclockwise from one to another.
Between(v, wheel, from, to) ==
  LET Ahead(x) == IF compareAngle(v, x, from) > 0 THEN 0 ELSE 1
      Before(x, y) == \/ Ahead(x) < Ahead(y)
                      \/ Ahead(x) = Ahead(y) /\ compareAngle(v, x, y) < 0
  IN  {x \in DOMAIN wheel \ {from, to} : Before(x, to)}

SetInterior(wheel, isA, dirs) ==
  [d \in DOMAIN wheel |->
     IF d \in dirs THEN [wheel[d] EXCEPT ![isA] = InteriorLabel(@)] ELSE wheel[d]]

(***************************************************************************)
(* addEdges(): the section enters by an edge with the inside on its left   *)
(* and leaves by one with the inside on its right; the edges between them  *)
(* are inside, and so is either of the two if its neighbour says so.       *)
(***************************************************************************)
updateEdgesInArea(v, wheel, isA, from, to) ==
  SetInterior(wheel, isA, Between(v, wheel, from, to))
updateIfAreaPrev(v, wheel, isA, d) ==
  IF wheel[prevEdge(v, DOMAIN wheel, d)][isA].left = "I" THEN SetInterior(wheel, isA, {d}) ELSE wheel
updateIfAreaNext(v, wheel, isA, d) ==
  IF wheel[nextEdge(v, DOMAIN wheel, d)][isA].right = "I" THEN SetInterior(wheel, isA, {d}) ELSE wheel

addEdges(v, wheel, isA, dim, e0, e1) ==
  IF dim = L THEN addEdge(addEdge(wheel, isA, e0, L, FALSE), isA, e1, L, FALSE)
  ELSE updateIfAreaNext(v,
         updateIfAreaPrev(v,
           updateEdgesInArea(v, addEdge(addEdge(wheel, isA, e0, A, FALSE), isA, e1, A, TRUE),
                             isA, e0, e1),
           isA, e0),
         isA, e1)

(***************************************************************************)
(* finish(): going round, a location that is not known is that on the left *)
(* of the last edge where it was.                                          *)
(***************************************************************************)
FillUnknown(label, loc) ==
  [label EXCEPT !.left = IF @ = "N" THEN loc ELSE @,
                !.on = IF @ = "N" THEN loc ELSE @,
                !.right = IF @ = "N" THEN loc ELSE @]

propagateSideLocations(v, wheel, isA) ==
  LET known == {d \in DOMAIN wheel : wheel[d][isA].left # "N"}
  IN  [d \in DOMAIN wheel |->
         [wheel[d] EXCEPT ![isA] = FillUnknown(@, wheel[prevEdge(v, known, d)][isA].left)]]

AddSections(v, wheel, isA, sections) ==
  LET s == SetToSeq(sections)
      added[k \in 0..Len(s)] ==
        IF k = 0 THEN wheel
        ELSE addEdges(v, added[k - 1], isA, s[k].dim, s[k].corner[1], s[k].corner[2])
  IN  added[Len(s)]

createNode(g, h, v) ==
  propagateSideLocations(v,
    propagateSideLocations(v,
      AddSections(v, AddSections(v, NoWheel, TRUE, SectionsAt(g, v)), FALSE, SectionsAt(h, v)),
      TRUE),
    FALSE)

(***************************************************************************)
(* evaluateNodeEdges(): the pairs of locations, and their dimensions.      *)
(***************************************************************************)
EdgeUpdates(label, areaArea) ==
  (IF areaArea
     THEN << <<label[TRUE].left, label[FALSE].left, A>>,
             <<label[TRUE].right, label[FALSE].right, A>> >>
     ELSE <<>>)
  \o << <<label[TRUE].on, label[FALSE].on, L>> >>

\* The edges in the list, by the number of those before them.
Ordered(v, dirs) ==
  [i \in 1..Cardinality(dirs) |->
     CHOOSE d \in dirs : Cardinality({x \in dirs : compareAngle(v, x, d) <= 0}) = i]

WheelUpdates(v, wheel, areaArea) ==
  LET order == Ordered(v, DOMAIN wheel)
      upto[k \in 0..Len(order)] ==
        IF k = 0 THEN <<>> ELSE upto[k - 1] \o EdgeUpdates(wheel[order[k]], areaArea)
  IN  upto[Len(order)]

NodeUpdates(g, h, v) ==
  WheelUpdates(v, createNode(g, h, v), getDimension(g) = A /\ getDimension(h) = A)
==============================================================================
