----------------------------- MODULE PolygonizeGraph -----------------------------
(***************************************************************************)
(* The planar graph of Polygonizer: which edges are dangles, which are cut *)
(* edges, and the rings around the faces that are left.  The edges around  *)
(* a node are known by their order alone, counterclockwise from the x-axis.*)
(*                                                                         *)
(* A ring first runs around a whole face.  Where a face touches a node     *)
(* more than once its ring is taken apart there, into rings that do not.   *)
(***************************************************************************)
EXTENDS LineMergeGraph, SequencesExt, TLC

CONSTANTS PlanarGraphs   \* inputs: records [lines, star], star the edges around each node

\* A graph has at least one line, and a star names the edges that leave its node.
IsGraph(g) ==
  LET from(de) == IF de[2] THEN g.lines[de[1]].from ELSE g.lines[de[1]].to
      ends == {from(de) : de \in (DOMAIN g.lines) \X BOOLEAN}
  IN  /\ g.lines \in Seq({line \in LineString : ~line.collapsed}) /\ g.lines # <<>>
      /\ DOMAIN g.star = ends
      /\ \A n \in ends : /\ g.star[n] \in Seq((DOMAIN g.lines) \X BOOLEAN)
                         /\ ToSet(g.star[n]) = {de \in (DOMAIN g.lines) \X BOOLEAN : from(de) = n}

ASSUME GraphsAssumption == \A g \in PlanarGraphs : IsGraph(g)

VARIABLES
  star,        \* per node, its directed edges in counterclockwise order
  stage,       \* "new", "dangles", "cuts", "label", "split", "find", or the Polygonizer's
  nodeStack,
  marked,      \* directed edges that are deleted
  dangles, cutEdges,
  next, label, \* per directed edge
  toSplit,     \* labels of the rings still to be taken apart
  rings        \* the edge rings: sequences of directed edges

graphVars == <<lines, star, stage, nodeStack, marked, dangles, cutEdges, next, label, toSplit, rings>>

NoEdge == <<0, FALSE>>

NoGraph == /\ star = <<>> /\ stage = "new" /\ nodeStack = <<>> /\ marked = {}
           /\ dangles = {} /\ cutEdges = {} /\ next = <<>> /\ label = <<>>
           /\ toSplit = {} /\ rings = <<>>

\* In the order of nodes; the node of place i is i - 1.
findNodesOfDegree(k) ==
  FlattenSeq([i \in 1..(Max(Nodes) + 1) |->
                IF i - 1 \in Nodes /\ getDegree(i - 1) = k THEN <<i - 1>> ELSE <<>>])

Give(g) ==
  /\ stage = "new" /\ stage' = "dangles" /\ lines' = g.lines /\ star' = g.star
  /\ nodeStack' = findNodesOfDegree(1)'
  /\ next' = [de \in DirEdges' |-> NoEdge] /\ label' = [de \in DirEdges' |-> -1]
  /\ UNCHANGED <<marked, dangles, cutEdges, toSplit, rings>>

getDegreeNonDeleted(n, deleted) == Cardinality(outEdges(n) \ deleted)

\* mutated form of becomesDangle: only nodes that were dangles are looked at
becomesDangleNever(n, deleted) == FALSE

becomesDangle(n, deleted) == getDegreeNonDeleted(n, deleted) = 1

\* deleteDangles, one node of the stack
DeleteAtNode ==
  LET out == star[Last(nodeStack)]
      deleted == marked \cup ToSet(out) \cup {getSym(de) : de \in ToSet(out)}
      found == FlattenSeq([i \in DOMAIN out |->
                             IF becomesDangle(toNode(out[i]), deleted) THEN <<toNode(out[i])>> ELSE <<>>])
  IN  /\ stage = "dangles" /\ nodeStack # <<>>
      /\ marked' = deleted /\ nodeStack' = Front(nodeStack) \o found
      /\ dangles' = dangles \cup {edge(de) : de \in ToSet(out)}
      /\ UNCHANGED <<lines, star, stage, cutEdges, next, label, toSplit, rings>>

DanglesDeleted == /\ stage = "dangles" /\ nodeStack = <<>> /\ stage' = "cuts"
                  /\ UNCHANGED <<lines, star, nodeStack, marked, dangles, cutEdges, next, label, toSplit, rings>>

------------------------------------------------------------------------------
Live == DirEdges \ marked

\* computeNextCWEdges: what comes after de is the next edge around the node it
\* comes to, counted from its own sym.
computeNextCW ==
  [de \in Live |->
     LET around == SelectSeq(star[toNode(de)], LAMBDA out : out \notin marked)
         i == CHOOSE k \in DOMAIN around : around[k] = getSym(de)
     IN  around[(i % Len(around)) + 1]] @@ next

\* The ring de is on; a walk that does not come back ends after all edges.
findDirEdgesInRing(nxt, de) ==
  LET after[n \in Nat] == IF n = 0 THEN de ELSE nxt[after[n - 1]]
      rounds == {n \in 1..Cardinality(DirEdges) : after[n] = de}
  IN  [n \in 1..IF rounds = {} THEN Cardinality(DirEdges) ELSE First(rounds) |-> after[n - 1]]

\* The order of the graph's dirEdges: along a line, then against it.
Before(d, e) == edge(d) < edge(e) \/ (edge(d) = edge(e) /\ getEdgeDirection(d) /\ ~getEdgeDirection(e))
FirstOf(S) == CHOOSE d \in S : \A e \in S \ {d} : Before(d, e)

\* findLabeledEdgeRings: labels count the rings in the order of their first edges.
findLabeledEdgeRings(nxt) ==
  LET walks == {ToSet(findDirEdgesInRing(nxt, de)) : de \in Live}
      firsts == {FirstOf(w) : w \in walks}
      first(de) == FirstOf(CHOOSE w \in walks : de \in w)
  IN  [de \in Live |-> Cardinality({f \in firsts : f = first(de) \/ Before(f, first(de))})] @@ label

\* mutated form of isCutEdge: an edge with different rings on its sides
isCutEdgeInverted(de, labels) == labels[de] # labels[getSym(de)]

isCutEdge(de, labels) == labels[de] = labels[getSym(de)]

deleteCutEdges ==
  LET nxt == computeNextCW
      labels == findLabeledEdgeRings(nxt)
      cut == {de \in Live : isCutEdge(de, labels)}
  IN  /\ stage = "cuts" /\ stage' = "label"
      /\ next' = nxt /\ label' = labels
      /\ marked' = marked \cup cut /\ cutEdges' = {edge(de) : de \in cut}
      /\ UNCHANGED <<lines, star, nodeStack, dangles, toSplit, rings>>

\* getEdgeRings, up to the labels of the maximal rings
LabelRings ==
  LET nxt == computeNextCW
      labels == findLabeledEdgeRings(nxt)
  IN  /\ stage = "label" /\ stage' = "split" /\ next' = nxt
      /\ label' = [de \in Live |-> labels[de]] @@ [de \in marked |-> -1]
      /\ toSplit' = {label'[de] : de \in Live}
      /\ UNCHANGED <<lines, star, nodeStack, marked, dangles, cutEdges, rings>>

\* computeNextCCWEdges, one edge of the star, which is gone through backwards.
Relink(links, de, l) ==
  LET in == IF label[getSym(de)] = l THEN getSym(de) ELSE links.prevIn
  IN  IF label[de] = l
      THEN [next |-> IF in = NoEdge THEN links.next ELSE [links.next EXCEPT ![in] = de],
            prevIn |-> NoEdge, firstOut |-> IF links.firstOut = NoEdge THEN de ELSE links.firstOut]
      ELSE [links EXCEPT !.prevIn = in]

\* mutated form of around: gone through forwards
aroundForwards(n) == star[n]

around(n) == Reverse(star[n])

computeNextCCWEdges(nxt, n, l) ==
  LET links == FoldLeft(LAMBDA links, de : Relink(links, de, l),
                        [next |-> nxt, prevIn |-> NoEdge, firstOut |-> NoEdge], around(n))
  IN  IF links.prevIn = NoEdge THEN links.next ELSE [links.next EXCEPT ![links.prevIn] = links.firstOut]

findIntersectionNodes(l) ==
  {n \in Nodes : Cardinality({de \in outEdges(n) : label[de] = l}) > 1}

\* convertMaximalToMinimalEdgeRings, one ring
SplitRing ==
  LET l == Min(toSplit)
  IN  /\ stage = "split" /\ toSplit # {}
      /\ toSplit' = toSplit \ {l}
      /\ next' = FoldLeft(LAMBDA nxt, n : computeNextCCWEdges(nxt, n, l), next,
                          SetToSeq(findIntersectionNodes(l)))
      /\ UNCHANGED <<lines, star, stage, nodeStack, marked, dangles, cutEdges, label, rings>>

RingsSplit == /\ stage = "split" /\ toSplit = {} /\ stage' = "find"
              /\ UNCHANGED <<lines, star, nodeStack, marked, dangles, cutEdges, next, label, toSplit, rings>>

inRing == UNION {ToSet(rings[k]) : k \in DOMAIN rings}

\* findEdgeRing, from the first edge that is in none
FindRing ==
  /\ stage = "find" /\ Live \ inRing # {}
  /\ rings' = Append(rings, findDirEdgesInRing(next, FirstOf(Live \ inRing)))
  /\ UNCHANGED <<lines, star, stage, nodeStack, marked, dangles, cutEdges, next, label, toSplit>>

RingsFound == stage = "find" /\ Live \subseteq inRing

NextOfGraph == \/ stage = "new" /\ \E g \in PlanarGraphs : Give(g)
               \/ DeleteAtNode \/ DanglesDeleted \/ deleteCutEdges \/ LabelRings \/ SplitRing
               \/ RingsSplit \/ FindRing
------------------------------------------------------------------------------
HasDangle(E) == \E n \in EndsOfAll(E) : Cardinality({de \in E \X BOOLEAN : fromNode(de) = n}) = 1
isBridge(e, E) ==
  /\ Cardinality(EndsOf(e)) = 2
  /\ LET rest == {f \in E \ {e} : EndsOf(f) \cap {fromNode(<<e, TRUE>>)} # {}}
     IN  toNode(<<e, TRUE>>) \notin EndsOfAll(Connected(rest, E \ {e}))

\* Dangles are what can be taken off edge by edge from loose ends: of the rest no
\* end is loose, and every set of edges without loose ends is part of it.
DanglesAreAll ==
  stage \notin {"new", "dangles"} =>
    LET rest == Edges \ dangles
    IN  ~HasDangle(rest) /\ \A E \in SUBSET Edges : E \subseteq rest \/ HasDangle(E)

(***************************************************************************)
(* deleteDangles and deleteCutEdges find all there are: dangles, and of    *)
(* the rest the bridges, however edges were deleted on the way.            *)
(***************************************************************************)
DanglesAndCutsAreAll ==
  /\ DanglesAreAll
  /\ stage \notin {"new", "dangles", "cuts"} =>
       cutEdges = {e \in Edges \ dangles : isBridge(e, Edges \ dangles)}

sidesOf(k) == {edge(rings[k][i]) : i \in DOMAIN rings[k]}

\* Blocks of the graph, gathered from the edges of rings that share some.
Blocks ==
  LET joined(blocks) == {UNION {c \in blocks : b \cap c # {}} : b \in blocks}
      gathered[n \in Nat] == IF n = 0 THEN {sidesOf(k) : k \in DOMAIN rings}
                             ELSE joined(gathered[n - 1])
  IN  gathered[Len(rings)]

(***************************************************************************)
(* Every edge that is left is in one ring on each of its sides; a ring     *)
(* goes from edge to edge and comes to no node twice, so that it is a      *)
(* valid LinearRing; and there are as many rings as faces of the blocks    *)
(* (Euler): no face is lost, or taken apart more than that.                *)
(***************************************************************************)
RingsAreSimple ==
  RingsFound =>
    /\ \A j, k \in DOMAIN rings : j # k => ToSet(rings[j]) \cap ToSet(rings[k]) = {}
    /\ \A k \in DOMAIN rings :
         LET r == rings[k]
         IN  /\ \A i \in DOMAIN r : toNode(r[i]) = fromNode(r[(i % Len(r)) + 1])
             /\ \A i, j \in DOMAIN r : fromNode(r[i]) = fromNode(r[j]) => i = j
    /\ \A block \in Blocks :
         Cardinality(EndsOfAll(block)) + Cardinality({k \in DOMAIN rings : sidesOf(k) \subseteq block})
           = Cardinality(block) + 2
==================================================================================
