----------------------------- MODULE LineMergeGraph -----------------------------
(***************************************************************************)
(* The graph LineMerger, LineSequencer and Polygonizer make of the lines   *)
(* they are given: nodes are the ends of lines, edges the lines, and each  *)
(* edge is a pair of directed edges.  Nodes are numbers, in the order of   *)
(* their coordinates.  A line all of whose points are the same has ends    *)
(* and no edge.                                                            *)
(***************************************************************************)
EXTENDS Naturals, Sequences, FiniteSets

\* A line: its ends, and whether all its points are the same.
LineString == [from : Nat, to : Nat, collapsed : BOOLEAN]

VARIABLE lines   \* the lines added so far, a sequence

Edges == {i \in DOMAIN lines : ~lines[i].collapsed}
Nodes == {lines[i].from : i \in DOMAIN lines} \cup {lines[i].to : i \in DOMAIN lines}

\* A directed edge: the line, and whether it goes along it.
DirEdges == Edges \X BOOLEAN
edge(de) == de[1]
getEdgeDirection(de) == de[2]
getSym(de) == <<de[1], ~de[2]>>
fromNode(de) == IF de[2] THEN lines[de[1]].from ELSE lines[de[1]].to
toNode(de) == fromNode(getSym(de))

EndsOf(e) == {fromNode(<<e, TRUE>>), toNode(<<e, TRUE>>)}
EndsOfAll(E) == UNION {EndsOf(e) : e \in E}

\* No edge of E leads from a node in N to one that is not.
NoWayOut(N, E) == \A e \in E : EndsOf(e) \subseteq N \/ EndsOf(e) \cap N = {}

\* The edges of E that chains of such edges lead to from S.
Connected(S, E) ==
  {e \in E : \A N \in SUBSET Nodes : EndsOfAll(S) \subseteq N /\ NoWayOut(N, E) => EndsOf(e) \subseteq N}

outEdges(n) == {de \in DirEdges : fromNode(de) = n}
getDegree(n) == Cardinality(outEdges(n))
First(nodes) == CHOOSE n \in nodes : \A k \in nodes : n <= k

addEdge(line) == lines' = Append(lines, line)
=================================================================================
