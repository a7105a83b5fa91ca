------------------------------- MODULE LineMerger -------------------------------
(***************************************************************************)
(* LineMerger: lines are sewn together at nodes where exactly two of them  *)
(* meet.  Strings start at nodes where sewing stops, and what is left then *)
(* are isolated loops.  With isDirected lines are only joined head to      *)
(* tail.  Lines may be added between two calls of getMergedLineStrings.    *)
(*                                                                         *)
(* The order of the edges around a node depends on angles; here they come  *)
(* in any order.                                                           *)
(***************************************************************************)
EXTENDS LineMergeGraph

CONSTANTS NewLines,  \* lines that may be added
          MaxLines,  \* bound: lines added
          MaxMerges  \* bound: calls

ASSUME NewLinesAssumption == NewLines \subseteq LineString

VARIABLES
  isDirected,
  merging,      \* "idle", "starts", "loops" or "merged"
  toVisit,      \* nodes the current pass has not come to
  current,      \* the string being built, or <<>>
  edgeStrings,
  markedEdges, markedNodes,
  merges        \* calls so far

mergerVars == <<isDirected, merging, toVisit, current, edgeStrings, markedEdges, markedNodes, merges>>

Empty == /\ isDirected \in BOOLEAN /\ merging = "idle"
         /\ toVisit = {} /\ current = <<>> /\ edgeStrings = {}
         /\ markedEdges = {} /\ markedNodes = {} /\ merges = 0

AddLine(line) == /\ merging = "idle" /\ Len(lines) < MaxLines
                 /\ addEdge(line) /\ UNCHANGED mergerVars

\* mutated form of Merge: the marks of an earlier call are left
MergeMarked ==
  /\ merging = "idle" /\ merging' = "starts" /\ merges < MaxMerges /\ merges' = merges + 1
  /\ toVisit' = Nodes /\ edgeStrings' = {}
  /\ UNCHANGED <<lines, isDirected, current, markedEdges, markedNodes>>

Merge ==
  /\ merging = "idle" /\ merging' = "starts" /\ merges < MaxMerges /\ merges' = merges + 1
  /\ toVisit' = Nodes /\ markedEdges' = {} /\ markedNodes' = {} /\ edgeStrings' = {}
  /\ UNCHANGED <<lines, isDirected, current>>

SameDirection(n) == \A d, e \in outEdges(n) : getEdgeDirection(d) = getEdgeDirection(e)

\* mutated form of isStartNode: strings are started anywhere
isStartNodeAny(n) == TRUE

\* Sewing stops here.
isStartNode(n) == getDegree(n) # 2 \/ (isDirected /\ SameDirection(n))

node == First(toVisit)
Visiting == merging \in {"starts", "loops"} /\ current = <<>> /\ toVisit # {}
isProcessed == IF merging = "starts" THEN isStartNode(node) ELSE node \notin markedNodes
Startable == {de \in outEdges(node) : (isDirected => getEdgeDirection(de)) /\ edge(de) \notin markedEdges}

StartString(de) ==
  /\ Visiting /\ isProcessed /\ de \in Startable
  /\ current' = <<de>> /\ markedEdges' = markedEdges \cup {edge(de)}
  /\ UNCHANGED <<lines, isDirected, merging, toVisit, edgeStrings, markedNodes, merges>>

\* The directed edge after de, if two edges meet there.
getNext(de) ==
  {next \in outEdges(toNode(de)) \ {getSym(de)} :
     getDegree(toNode(de)) = 2 /\ (isDirected => getEdgeDirection(next))}

Continue ==
  /\ current # <<>>
  /\ \E next \in getNext(current[Len(current)]) \ {current[1]} :
       current' = Append(current, next) /\ markedEdges' = markedEdges \cup {edge(next)}
  /\ UNCHANGED <<lines, isDirected, merging, toVisit, edgeStrings, markedNodes, merges>>

EndString ==
  /\ current # <<>> /\ getNext(current[Len(current)]) \subseteq {current[1]}
  /\ edgeStrings' = edgeStrings \cup {current} /\ current' = <<>>
  /\ UNCHANGED <<lines, isDirected, merging, toVisit, markedEdges, markedNodes, merges>>

LeaveNode ==
  /\ Visiting /\ (isProcessed => Startable = {})
  /\ toVisit' = toVisit \ {node}
  /\ markedNodes' = IF isProcessed THEN markedNodes \cup {node} ELSE markedNodes
  /\ UNCHANGED <<lines, isDirected, merging, current, edgeStrings, markedEdges, merges>>

EndPass ==
  /\ merging \in {"starts", "loops"} /\ current = <<>> /\ toVisit = {}
  /\ IF merging = "starts" THEN merging' = "loops" /\ toVisit' = Nodes
                           ELSE merging' = "merged" /\ UNCHANGED toVisit
  /\ UNCHANGED <<lines, isDirected, current, edgeStrings, markedEdges, markedNodes, merges>>

TakeStrings == /\ merging = "merged" /\ merging' = "idle"
               /\ UNCHANGED <<lines, isDirected, toVisit, current, edgeStrings, markedEdges, markedNodes, merges>>

NextOfMerger ==
  \/ \E line \in NewLines : AddLine(line)
  \/ Merge \/ Continue \/ EndString \/ LeaveNode \/ EndPass \/ TakeStrings
  \/ Visiting /\ \E de \in outEdges(node) : StartString(de)

MergerSpec == lines \in Seq(LineString) /\ Empty /\ [][NextOfMerger]_<<lines, mergerVars>>
---------------------------------------------------------------------------------
(***************************************************************************)
(* Every edge is in one string, once; a string runs from line to line      *)
(* without a gap and, if isDirected, along each of them.                   *)
(***************************************************************************)
StringsAreLines ==
  merging = "merged" =>
    /\ \A e \in Edges : \E s \in edgeStrings : \E i \in DOMAIN s : edge(s[i]) = e
    /\ \A s, t \in edgeStrings : \A i \in DOMAIN s, j \in DOMAIN t :
         edge(s[i]) = edge(t[j]) => s = t /\ i = j
    /\ \A s \in edgeStrings : \A i \in DOMAIN s :
         /\ isDirected => getEdgeDirection(s[i])
         /\ i > 1 => fromNode(s[i]) = toNode(s[i - 1])

(***************************************************************************)
(* LineMerger.h: sewing stops at nodes of degree 1 or 3 or more, and no-   *)
(* where else (but, if directed, where two lines collide or part): the two *)
(* edges at any other node follow each other in a string, or are where an  *)
(* isolated loop closes.                                                   *)
(***************************************************************************)
Follows(s, d, e) ==
  \E i \in DOMAIN s :
    s[i] = d /\ \/ i < Len(s) /\ s[i + 1] = e
                \/ i = Len(s) /\ s[1] = e /\ \A k \in DOMAIN s : ~isStartNode(toNode(s[k]))

SewnWherePossible ==
  merging = "merged" =>
    \A d, e \in DirEdges :
      toNode(d) = fromNode(e) /\ e # getSym(d) /\ getDegree(fromNode(e)) = 2
        /\ (isDirected => getEdgeDirection(d) /\ getEdgeDirection(e)) =>
          \E s \in edgeStrings : Follows(s, d, e) \/ Follows(s, getSym(e), getSym(d))
=================================================================================
