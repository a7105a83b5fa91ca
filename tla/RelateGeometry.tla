--------------------------- MODULE RelateGeometry ----------------------------
(***************************************************************************)
(* The input geometries of RelateNG, and where points lie in them          *)
(* (RelateGeometry, RelatePointLocator, LinearBoundary).                   *)
(*                                                                         *)
(* Coordinates are replaced by a subdivision of the plane into vertices,   *)
(* straight edges and faces.  Points, lines and polygons are made of its   *)
(* cells, so two of them touch, cross and overlap in cells too, and where  *)
(* each cell lies is known without computing an intersection.              *)
(***************************************************************************)
EXTENDS RelatePredicate, FiniteSets

CONSTANTS
  Coordinate,   \* vertex -> <<x, y>>
  LeftFace,     \* <<u, v>> -> the face on the left of the edge from u to v
  Shape         \* name of a geometry -> what it is made of

Vertex == DOMAIN Coordinate
Dart == DOMAIN LeftFace
Edge == {{d[1], d[2]} : d \in Dart}
Face == {LeftFace[d] : d \in Dart}
Geometry == DOMAIN Shape

(***************************************************************************)
(* A shape is homogeneous.  type: its dimension also when it is empty;     *)
(* points: vertices; lines: sequences of vertices; polygons: records of    *)
(* the faces inside and the rings, the shell first, each ring a sequence   *)
(* of vertices that does not repeat the first one.                         *)
(***************************************************************************)
LineEdges(line) ==
  {{line[i], line[i + 1]} : i \in {j \in 1..(Len(line) - 1) : line[j] # line[j + 1]}}
RingEdges(ring) == LineEdges(ring \o <<ring[1]>>)

SidesOf(edge) == {LeftFace[d] : d \in {dd \in Dart : {dd[1], dd[2]} = edge}}
FacesAround(v) == {LeftFace[d] : d \in {dd \in Dart : v \in {dd[1], dd[2]}}}

PolygonEdges(polygon) == UNION {RingEdges(polygon.rings[i]) : i \in DOMAIN polygon.rings}

Interior(g) == UNION {polygon.faces : polygon \in Shape[g].polygons}

\* Cells of one plane, part of which lies outside all geometries.
ASSUME SubdivisionAssumption ==
  /\ IsFiniteSet(Vertex)
  /\ Dart \subseteq Vertex \X Vertex
  /\ \A d \in Dart : d[1] # d[2] /\ <<d[2], d[1]>> \in Dart
  /\ Cardinality(Vertex) + Cardinality(Face) > Cardinality(Edge)
  /\ \E f \in Face : \A g \in Geometry : f \notin Interior(g)

\* Repeated points are left out of a line, but one of no length has two.
ValidLine(line) ==
  /\ line \in Seq(Vertex) /\ Len(line) >= 2
  /\ LineEdges(line) \subseteq Edge
  /\ LineEdges(line) = {} \/ \A i \in 1..(Len(line) - 1) : line[i] # line[i + 1]

\* The rings of a polygon are the edges between its inside and its outside.
ValidPolygon(polygon) ==
  /\ polygon.rings \in Seq(Seq(Vertex)) /\ polygon.rings # <<>>
  /\ \A i \in DOMAIN polygon.rings : Len(polygon.rings[i]) >= 3
  /\ \A i, j \in DOMAIN polygon.rings :
       \A k \in DOMAIN polygon.rings[i], l \in DOMAIN polygon.rings[j] :
         polygon.rings[i][k] = polygon.rings[j][l] => i = j /\ k = l
  /\ polygon.faces \subseteq Face
  /\ PolygonEdges(polygon) =
       {e \in Edge : SidesOf(e) \cap polygon.faces # {} /\ ~(SidesOf(e) \subseteq polygon.faces)}

\* Valid geometries: polygons of one geometry meet at most in vertices.
ASSUME ShapeAssumption ==
  \A g \in Geometry :
    /\ Shape[g].type \in {P, L, A}
    /\ Shape[g].points # {} => Shape[g].type = P
    /\ Shape[g].lines # {} => Shape[g].type = L
    /\ Shape[g].polygons # {} => Shape[g].type = A
    /\ Shape[g].points \subseteq Vertex
    /\ \A line \in Shape[g].lines : ValidLine(line)
    /\ \A polygon \in Shape[g].polygons : ValidPolygon(polygon)
    /\ \A p, q \in Shape[g].polygons :
         p # q => p.faces \cap q.faces = {} /\ PolygonEdges(p) \cap PolygonEdges(q) = {}

------------------------------------------------------------------------------
isEmpty(g) == Shape[g].points = {} /\ Shape[g].lines = {} /\ Shape[g].polygons = {}
getDimension(g) == Shape[g].type
isLineZeroLen(g) == Shape[g].type = L /\ \A line \in Shape[g].lines : LineEdges(line) = {}

getDimensionReal(g) ==
  IF isEmpty(g) THEN None ELSE IF isLineZeroLen(g) THEN P ELSE Shape[g].type

hasDimension(g, d) == ~isEmpty(g) /\ Shape[g].type = d
hasEdges(g) == hasDimension(g, L) \/ hasDimension(g, A)

\* The edges segments are extracted from.
LinearEdges(g) ==
  UNION ({LineEdges(line) : line \in Shape[g].lines}
          \cup {PolygonEdges(polygon) : polygon \in Shape[g].polygons})
LineVertices(line) == {line[i] : i \in DOMAIN line}

(***************************************************************************)
(* LinearBoundary with the Mod-2 rule: the ends of an odd number of lines. *)
(***************************************************************************)
Degree(g, v) ==
  Cardinality({line \in Shape[g].lines : line[1] = v})
    + Cardinality({line \in Shape[g].lines : line[Len(line)] = v})
isBoundary(g, v) == Degree(g, v) % 2 = 1
hasBoundary(g) == \E v \in Vertex : isBoundary(g, v)

(***************************************************************************)
(* Where a point that is a vertex lies in a geometry.                      *)
(***************************************************************************)
locateOnLines(g, v) ==
  IF isBoundary(g, v) THEN "B"
  ELSE IF \E line \in Shape[g].lines : v \in LineVertices(line) THEN "I" ELSE "E"

locateOnPolygons(g, v) ==
  IF FacesAround(v) \cap Interior(g) = {} THEN "E"
  ELSE IF FacesAround(v) \subseteq Interior(g) THEN "I" ELSE "B"

locate(g, v) ==
  CASE isEmpty(g) -> "E"
    [] hasDimension(g, A) -> locateOnPolygons(g, v)
    [] hasDimension(g, L) -> locateOnLines(g, v)
    [] hasDimension(g, P) -> IF v \in Shape[g].points THEN "I" ELSE "E"

\* A node of a polygon is on its boundary, a node of a line on the line.
locateNode(g, v) ==
  CASE hasDimension(g, A) -> "B"
    [] hasDimension(g, L) -> IF isBoundary(g, v) THEN "B" ELSE "I"
    [] OTHER -> locate(g, v)

locateLineEnd(g, v) == IF isBoundary(g, v) THEN "B" ELSE "I"

------------------------------------------------------------------------------
(***************************************************************************)
(* Envelopes.                                                              *)
(***************************************************************************)
Least(S) == CHOOSE x \in S : \A y \in S : x <= y
Greatest(S) == CHOOSE x \in S : \A y \in S : y <= x
VerticesOf(g) ==
  Shape[g].points \cup UNION LinearEdges(g) \cup UNION {LineVertices(l) : l \in Shape[g].lines}

NullEnvelope == [null |-> TRUE, minx |-> 0, maxx |-> 0, miny |-> 0, maxy |-> 0]
EnvelopeAround(S) ==
  LET xs == {Coordinate[v][1] : v \in S} ys == {Coordinate[v][2] : v \in S}
  IN  IF S = {} THEN NullEnvelope
      ELSE [null |-> FALSE, minx |-> Least(xs), maxx |-> Greatest(xs),
            miny |-> Least(ys), maxy |-> Greatest(ys)]

Envelope == [g \in Geometry |-> EnvelopeAround(VerticesOf(g))]

EnvelopesIntersect(e, f) ==
  /\ ~e.null /\ ~f.null
  /\ e.minx <= f.maxx /\ f.minx <= e.maxx
  /\ e.miny <= f.maxy /\ f.miny <= e.maxy
EnvelopeCovers(e, f) ==
  /\ ~e.null /\ ~f.null
  /\ e.minx <= f.minx /\ f.maxx <= e.maxx
  /\ e.miny <= f.miny /\ f.maxy <= e.maxy

------------------------------------------------------------------------------
(***************************************************************************)
(* The complete matrix of two geometries, from all cells of the plane.     *)
(***************************************************************************)
EdgeLocation(g, e) ==
  IF hasDimension(g, A)
    THEN IF SidesOf(e) \cap Interior(g) = {} THEN "E"
         ELSE IF SidesOf(e) \subseteq Interior(g) THEN "I" ELSE "B"
    ELSE IF e \in LinearEdges(g) THEN "I" ELSE "E"
FaceLocation(g, f) == IF f \in Interior(g) THEN "I" ELSE "E"

Where ==
  [g \in Geometry |->
     [vertex |-> [v \in Vertex |-> locate(g, v)],
      edge |-> [e \in Edge |-> EdgeLocation(g, e)],
      face |-> [f \in Face |-> FaceLocation(g, f)]]]

Truth ==
  [gh \in Geometry \X Geometry |->
     LET g == Where[gh[1]] h == Where[gh[2]]
     IN  [e \in Entry |->
            IF \E f \in Face : <<g.face[f], h.face[f]>> = e THEN A
            ELSE IF \E x \in Edge : <<g.edge[x], h.edge[x]>> = e THEN L
            ELSE IF \E v \in Vertex : <<g.vertex[v], h.vertex[v]>> = e THEN P
            ELSE None]]
==============================================================================
