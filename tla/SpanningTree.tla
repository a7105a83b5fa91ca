----------------------------- MODULE SpanningTree -----------------------------
(***************************************************************************)
(* SpanningTree::mst: Kruskal's algorithm with a forest of its own, whose  *)
(* trees are joined by rank.  Curves of the same length come in any order  *)
(* (std::sort is not stable).  Nodes are the ends of curves; their numbers *)
(* do not matter and are left out.                                         *)
(***************************************************************************)
EXTENDS UnionFind, Sequences

CONSTANTS
  Node,
  CurveLists   \* the inputs of a call: sequences of curves [u, v, weight]; a curve
               \* that is null, empty or without an end has no node for u

NoNode == "none"

\* A weight is a length.
Curve == [u : Node \cup {NoNode}, v : Node, weight : Nat]
ASSUME CurvesAssumption == CurveLists \subseteq Seq(Curve)

VARIABLES
  curves, step,     \* the call, and "idle", "unite", "number" or "done"
  edges,            \* curves not looked at yet
  parent, rank,     \* UnionFind
  treeEdges,        \* curves of the tree, in the order they were found
  componentOf, result

IsEdge(c) == c.u # NoNode /\ c.u # c.v

Start ==
  /\ step = "idle" /\ step' = "unite"
  /\ curves' \in CurveLists /\ edges' = {i \in DOMAIN curves' : IsEdge(curves'[i])}
  /\ result' = [i \in DOMAIN curves' |-> 0]
  /\ UNCHANGED <<parent, rank, treeEdges, componentOf>>

NoCurves ==
  /\ curves = <<>> /\ step = "idle" /\ edges = {} /\ treeEdges = <<>> /\ componentOf = <<>>
  /\ parent = [n \in Node |-> n] /\ rank = [n \in Node |-> 0] /\ result = <<>>

\* UnionFind::find, as it leaves the parents
Found(i, j) == find(find(parent, i), j)

unite(i, j) ==
  LET a == root(parent, i) b == root(parent, j)
  IN  /\ parent' = IF rank[a] <= rank[b] THEN [Found(i, j) EXCEPT ![a] = b]
                                         ELSE [Found(i, j) EXCEPT ![b] = a]
      /\ rank' = IF rank[a] = rank[b] THEN [rank EXCEPT ![b] = @ + 1] ELSE rank

\* mutated form of Shortest: not sorted
ShortestUnsorted(e) == TRUE

Shortest(e) == \A f \in edges : curves[e].weight <= curves[f].weight

TakeEdge(e) ==
  /\ step = "unite" /\ Shortest(e)
  /\ edges' = edges \ {e}
  /\ IF root(parent, curves[e].u) # root(parent, curves[e].v)
     THEN unite(curves[e].u, curves[e].v) /\ treeEdges' = Append(treeEdges, e)
     ELSE parent' = Found(curves[e].u, curves[e].v) /\ UNCHANGED <<rank, treeEdges>>
  /\ UNCHANGED <<curves, step, componentOf, result>>

AllTaken == /\ step = "unite" /\ edges = {} /\ step' = "number"
            /\ UNCHANGED <<curves, edges, parent, rank, treeEdges, componentOf, result>>

\* mutated form of Numbered: a component is known by a node of the edge
NumberedByNode(e) == curves[e].u

\* What identifies the component of an edge.
Numbered(e) == root(parent, curves[e].u)

\* rootToComponentId, filled in the order of the tree's edges.
NumberEdge ==
  LET e == Head(treeEdges)
      top == Numbered(e)
      known == IF top \in DOMAIN componentOf THEN componentOf
               ELSE [n \in DOMAIN componentOf \cup {top} |->
                       IF n = top THEN Cardinality(DOMAIN componentOf) + 1 ELSE componentOf[n]]
  IN  /\ step = "number" /\ treeEdges # <<>>
      /\ treeEdges' = Tail(treeEdges)
      /\ parent' = find(parent, curves[e].u)
      /\ componentOf' = known /\ result' = [result EXCEPT ![e] = known[top]]
      /\ UNCHANGED <<curves, step, edges, rank>>

Answer == /\ step = "number" /\ treeEdges = <<>> /\ step' = "done"
          /\ UNCHANGED <<curves, edges, parent, rank, treeEdges, componentOf, result>>

Forget == /\ step = "done" /\ step' = "idle"
          /\ curves' = <<>> /\ parent' = [n \in Node |-> n] /\ rank' = [n \in Node |-> 0]
          /\ componentOf' = <<>> /\ result' = <<>> /\ UNCHANGED <<edges, treeEdges>>

NextOfTree == \/ Start
              \/ \E e \in edges : TakeEdge(e)
              \/ AllTaken \/ NumberEdge \/ Answer \/ Forget

treeVars == <<curves, step, edges, parent, rank, treeEdges, componentOf, result>>
SpecOfTree == NoCurves /\ [][NextOfTree]_treeVars
------------------------------------------------------------------------------
AllEdges == {i \in DOMAIN curves : IsEdge(curves[i])}

\* No edge of E leads from a node in S to one that is not.
NoWayOut(S, E) == \A e \in E : curves[e].u \in S <=> curves[e].v \in S

\* A chain of edges of E joins m and n.
Joins(E, m, n) == \A S \in SUBSET Node : NoWayOut(S, E) => (m \in S <=> n \in S)

Connects(E) == \A e \in AllEdges : Joins(E, curves[e].u, curves[e].v)

Weight(E) ==
  LET sum[i \in 0..Len(curves)] ==
        IF i = 0 THEN 0 ELSE sum[i - 1] + IF i \in E THEN curves[i].weight ELSE 0
  IN  sum[Len(curves)]

(***************************************************************************)
(* The curves with a number connect what all curves connect, none of them  *)
(* can be left out, and no other choice of curves that connects as much is *)
(* shorter.                                                                *)
(***************************************************************************)
InTree == {i \in DOMAIN result : result[i] > 0}
SpansMinimally ==
  step = "done" =>
    /\ InTree \subseteq AllEdges /\ Connects(InTree)
    /\ \A e \in InTree : ~Connects(InTree \ {e})
    /\ \A E \in SUBSET AllEdges : Connects(E) => Weight(InTree) <= Weight(E)

(***************************************************************************)
(* Two curves of the tree have the same number exactly when the tree       *)
(* connects them, and the numbers are 1, 2 and so on.                      *)
(***************************************************************************)
NumbersAreComponents ==
  step = "done" =>
    /\ \A d, e \in InTree :
         result[d] = result[e] <=> Joins(AllEdges, curves[d].u, curves[e].u)
    /\ LET numbers == {result[e] : e \in InTree} IN numbers = 1..Cardinality(numbers)
===============================================================================
