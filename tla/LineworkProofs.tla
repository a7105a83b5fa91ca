----------------------------- MODULE LineworkProofs -----------------------------
(***************************************************************************)
(* Lines merged, put in sequence and polygonized, for any lines.           *)
(*                                                                         *)
(* LineMerger puts every line into one string, once, and sews wherever the *)
(* rule says, however often it is called.  Why a string never runs into an *)
(* edge that is used: it only passes nodes where two edges meet, so it     *)
(* would come to a string that had either passed the same node, and taken  *)
(* the edge it comes from, or begun there.  Strings of the first pass      *)
(* begin elsewhere.  Those of the second pass close, since what is left by *)
(* then has no ends (LoopsGoOn): of the edges that are left each has one   *)
(* before it, and different edges have different ones, so each has one     *)
(* after it.                                                               *)
(*                                                                         *)
(* LineSequencer says yes only with one trail for each part of the graph,  *)
(* over all of its lines.  While a trail is followed it has no gap but the *)
(* one it is working to close (OnTheWay); on the way back no edge is left  *)
(* at the nodes behind (OnTheWayBack), and at its start at none it has     *)
(* come by, which are then all nodes of the part (PartIsCovered).          *)
(*                                                                         *)
(* Its answer is right but for one situation (AnswersAreEulers).  An odd   *)
(* number of used edges is at the two ends of the trail and, in a detour,  *)
(* at the two ends of that (Balanced, Detouring), and nowhere else.  So    *)
(* where a detour cannot come back, there is an odd node and the trail     *)
(* started at an even one (DetourIsAstray).                                *)
(*                                                                         *)
(* Polygonizer takes off all dangles and no other edge: a node one edge is *)
(* left at is on the stack, and at a node on the stack no more than one is *)
(* (Peeling), so that the edge taken off there is a dangle of whatever it  *)
(* is in (DeletedAreDangles).  It extracts only shells at an odd number of *)
(* steps from outside: a shell is included, or set and not included, at an *)
(* odd or even number of steps whatever order the shells are looked at in  *)
(* (ChosenByParity), since it is set once, from one that is set.           *)
(***************************************************************************)
EXTENDS LineMerger, LineSequencer, Polygonizer, TLAPS,
        FiniteSetTheorems, NaturalsInduction, WellFoundedInduction

TypeOK ==
  /\ lines \in Seq(LineString) /\ isDirected \in BOOLEAN
  /\ merging \in {"idle", "starts", "loops", "merged"}
  /\ toVisit \subseteq Nodes /\ current \in Seq(DirEdges)
  /\ edgeStrings \subseteq Seq(DirEdges)
  /\ markedEdges \subseteq Edges /\ markedNodes \subseteq Nodes
  /\ merges \in Nat

Allowed(d) == isDirected => getEdgeDirection(d)
EdgesIn(s) == {edge(s[i]) : i \in DOMAIN s}

\* From edge to edge, through nodes where two of them meet, and no edge twice.
Trail(s) ==
  /\ s # <<>>
  /\ \A i \in DOMAIN s : Allowed(s[i])
  /\ \A i \in DOMAIN s : i < Len(s) => s[i + 1] \in getNext(s[i])
  /\ \A i, j \in DOMAIN s : edge(s[i]) = edge(s[j]) => i = j

\* It begins where sewing stops, or is closed; it ends where it cannot go on.
Finished(s) ==
  /\ Trail(s) /\ getNext(s[Len(s)]) \subseteq {s[1]}
  /\ isStartNode(fromNode(s[1])) \/ s[1] \in getNext(s[Len(s)])

InPhase == /\ current # <<>> => merging \in {"starts", "loops"}
           /\ merging \in {"idle", "merged"} => toVisit = {}

StringsFinished == \A s \in edgeStrings : Finished(s)
StringsApart == \A s, t \in edgeStrings : EdgesIn(s) \cap EdgesIn(t) # {} => s = t
CurrentGrows ==
  current # <<>> =>
    /\ Trail(current)
    /\ \A s \in edgeStrings : EdgesIn(s) \cap EdgesIn(current) = {}
    /\ merging = "starts" => isStartNode(fromNode(current[1]))
MarksAreStrings ==
  markedEdges = EdgesIn(current) \cup UNION {EdgesIn(s) : s \in edgeStrings}

\* Of a node that was processed every edge is marked that may be taken there.
NodesAreDone ==
  \A n \in markedNodes : \A d \in outEdges(n) : Allowed(d) => edge(d) \in markedEdges
NodesAreVisited ==
  /\ merging = "starts" => \A n \in Nodes \ toVisit : isStartNode(n) => n \in markedNodes
  /\ merging = "loops" => Nodes \ toVisit \subseteq markedNodes
  /\ merging = "merged" => Nodes \subseteq markedNodes

\* In the second pass no edge that is left leads to an end.
Left(d) == edge(d) \notin markedEdges \/ \E i \in DOMAIN current : current[i] = d
LoopsGoOn ==
  merging = "loops" => \A d \in DirEdges : Allowed(d) /\ Left(d) => getNext(d) # {}

WhileMerging ==
  /\ StringsFinished /\ StringsApart /\ CurrentGrows /\ MarksAreStrings
  /\ NodesAreDone /\ NodesAreVisited /\ LoopsGoOn

IInv == TypeOK /\ InPhase /\ (merging # "idle" => WhileMerging)

------------------------------------------------------------------------------
(***************************************************************************)
(* Directed edges.                                                         *)
(***************************************************************************)
LEMMA SymFacts ==
  ASSUME NEW d \in DirEdges
  PROVE  /\ getSym(d) \in DirEdges /\ getSym(getSym(d)) = d /\ getSym(d) # d
         /\ edge(getSym(d)) = edge(d) /\ edge(d) \in Edges
<1>1. PICK i \in Edges, b \in BOOLEAN : d = <<i, b>>  BY DEF DirEdges
<1>2. CASE b = TRUE
  <2>1. d = <<i, TRUE>> /\ getSym(d) = <<i, FALSE>>  BY <1>1, <1>2 DEF getSym
  <2> QED  BY <2>1 DEF DirEdges, edge, getSym
<1>3. CASE b = FALSE
  <2>1. d = <<i, FALSE>> /\ getSym(d) = <<i, TRUE>>  BY <1>1, <1>3 DEF getSym
  <2> QED  BY <2>1 DEF DirEdges, edge, getSym
<1> QED  BY <1>2, <1>3

LEMMA OutOfNodes ==
  ASSUME NEW d \in DirEdges
  PROVE  /\ fromNode(getSym(d)) = toNode(d) /\ toNode(getSym(d)) = fromNode(d)
         /\ d \in outEdges(fromNode(d)) /\ getSym(d) \in outEdges(toNode(d))
  BY SymFacts DEF toNode, outEdges

LEMMA SameEdge ==
  ASSUME NEW d \in DirEdges, NEW e \in DirEdges, edge(d) = edge(e)
  PROVE  e = d \/ e = getSym(d)
<1>1. PICK i \in Edges, b \in BOOLEAN : d = <<i, b>>  BY DEF DirEdges
<1>2. PICK j \in Edges, c \in BOOLEAN : e = <<j, c>>  BY DEF DirEdges
<1>3. i = j  BY <1>1, <1>2 DEF edge
<1>4. c = b \/ c = ~b  OBVIOUS
<1> QED  BY <1>1, <1>2, <1>3, <1>4 DEF getSym

LEMMA OneWay ==
  ASSUME NEW d \in DirEdges
  PROVE  getEdgeDirection(getSym(d)) = ~getEdgeDirection(d)
  BY DEF getSym, getEdgeDirection

LEMMA FiniteEdges ==
  ASSUME lines \in Seq(LineString)
  PROVE  IsFiniteSet(DirEdges)
<1>1. DOMAIN lines = 1..Len(lines) /\ Len(lines) \in Nat  OBVIOUS
<1>2. IsFiniteSet(DOMAIN lines)  BY <1>1, FS_Interval
<1>3. IsFiniteSet(Edges)  BY <1>2, FS_Subset DEF Edges
<1>4. IsFiniteSet({TRUE} \cup {FALSE})
  BY FS_Singleton, FS_AddElement
<1>5. BOOLEAN = {TRUE} \cup {FALSE}  OBVIOUS
<1> QED  BY <1>3, <1>4, <1>5, FS_Product DEF DirEdges

------------------------------------------------------------------------------
(***************************************************************************)
(* Nodes where two edges meet, and what comes after an edge there.         *)
(***************************************************************************)
LEMMA TwoEdges ==
  ASSUME lines \in Seq(LineString), NEW n, NEW d \in outEdges(n), getDegree(n) = 2
  PROVE  \E e \in outEdges(n) : e # d /\ outEdges(n) = {d, e}
<1>1. IsFiniteSet(outEdges(n))
  BY FiniteEdges, FS_Subset DEF outEdges
<1>2. IsFiniteSet(outEdges(n) \ {d}) /\ Cardinality(outEdges(n) \ {d}) = 1
  BY <1>1, FS_RemoveElement DEF getDegree
<1>3. PICK e : outEdges(n) \ {d} = {e}
  BY <1>2, FS_Singleton
<1> QED  BY <1>3

LEMMA NextIs ==
  ASSUME lines \in Seq(LineString), NEW d \in DirEdges, NEW e \in getNext(d)
  PROVE  /\ e \in DirEdges /\ Allowed(e) /\ e # getSym(d)
         /\ fromNode(e) = toNode(d) /\ getDegree(toNode(d)) = 2
         /\ outEdges(toNode(d)) = {getSym(d), e} /\ getNext(d) = {e}
<1>1. /\ e \in outEdges(toNode(d)) /\ e # getSym(d)
      /\ getDegree(toNode(d)) = 2 /\ Allowed(e)
  BY DEF getNext, Allowed
<1>2. outEdges(toNode(d)) = {getSym(d), e}
  BY <1>1, TwoEdges, OutOfNodes
<1>3. getNext(d) = {e}
  BY <1>1, <1>2 DEF getNext, Allowed
<1> QED  BY <1>1, <1>2, <1>3 DEF outEdges

\* Different edges have different ones after them.
LEMMA OnePredecessor ==
  ASSUME lines \in Seq(LineString), NEW d \in DirEdges, NEW p \in DirEdges,
         NEW e, e \in getNext(d), e \in getNext(p)
  PROVE  p = d
<1>1. getSym(p) \in {getSym(d), e}
  BY NextIs, OutOfNodes
<1>2. getSym(p) = getSym(d)
  BY <1>1, NextIs
<1> QED  BY <1>2, SymFacts

\* What comes after the reverse of e is the reverse of what e comes after.
LEMMA Reversed ==
  ASSUME lines \in Seq(LineString), NEW d \in DirEdges, NEW e \in getNext(d),
         NEW q \in getNext(getSym(e))
  PROVE  q = getSym(d)
<1>1. e \in DirEdges /\ outEdges(toNode(d)) = {getSym(d), e} /\ toNode(getSym(e)) = toNode(d)
  BY NextIs, OutOfNodes
<1>2. q \in outEdges(toNode(d)) /\ q # e
  BY <1>1, SymFacts DEF getNext
<1> QED  BY <1>1, <1>2

\* Sewing does not stop where an edge has one after it.
LEMMA NoStart ==
  ASSUME lines \in Seq(LineString), NEW d \in DirEdges, Allowed(d), getNext(d) # {}
  PROVE  ~isStartNode(toNode(d))
<1>1. PICK e : e \in getNext(d)  OBVIOUS
<1>2. Allowed(e) /\ getDegree(toNode(d)) = 2 /\ e \in outEdges(toNode(d))
      /\ getSym(d) \in outEdges(toNode(d))
  BY <1>1, NextIs, OutOfNodes
<1>3. isDirected => getEdgeDirection(d) /\ getEdgeDirection(e)
  BY <1>2 DEF Allowed
<1>4. isDirected => ~getEdgeDirection(getSym(d))
  BY <1>3, OneWay
<1>5. isDirected => ~SameDirection(toNode(d))
  BY <1>2, <1>3, <1>4 DEF SameDirection
<1> QED  BY <1>2, <1>5 DEF isStartNode

------------------------------------------------------------------------------
(***************************************************************************)
(* A trail that goes on comes to an edge that is in no string.             *)
(***************************************************************************)
LEMMA NewInTrail ==
  ASSUME lines \in Seq(LineString), NEW s \in Seq(DirEdges), Trail(s),
         NEW e \in getNext(s[Len(s)]), e # s[1]
  PROVE  edge(e) \notin EdgesIn(s)
<1> DEFINE d == s[Len(s)]
<1>1. Len(s) \in DOMAIN s /\ Len(s) \in Nat /\ DOMAIN s = 1..Len(s) /\ d \in DirEdges
  BY DEF Trail
<1>2. e \in DirEdges /\ e # getSym(d)  BY <1>1, NextIs
<1> SUFFICES ASSUME NEW k \in DOMAIN s, edge(s[k]) = edge(e) PROVE FALSE
  BY DEF EdgesIn
<1>3. s[k] = e \/ s[k] = getSym(e)  BY <1>2, SameEdge
<1>4. CASE s[k] = e
  <2>1. k - 1 \in DOMAIN s /\ k - 1 < Len(s) /\ (k - 1) + 1 = k  BY <1>1, <1>4
  <2>2. e \in getNext(s[k - 1])  BY <2>1, <1>4 DEF Trail
  <2>3. s[k - 1] = d  BY <2>1, <2>2, <1>1, OnePredecessor
  <2>4. k - 1 = Len(s)  BY <2>1, <2>3, <1>1 DEF Trail
  <2> QED  BY <2>1, <2>4
<1>5. CASE s[k] = getSym(e) /\ k = Len(s)
  BY <1>2, <1>5, SymFacts
<1>6. CASE s[k] = getSym(e) /\ k # Len(s)
  <2>1. k + 1 \in DOMAIN s /\ k < Len(s)  BY <1>1, <1>6
  <2>2. s[k + 1] \in getNext(getSym(e))  BY <2>1, <1>6 DEF Trail
  <2>3. s[k + 1] = getSym(d)  BY <2>2, <1>1, Reversed
  <2>4. edge(s[k + 1]) = edge(d)  BY <2>3, <1>1, SymFacts
  <2>5. k + 1 = Len(s)  BY <2>1, <2>4, <1>1 DEF Trail
  <2> QED  BY <2>3, <2>5, <1>1, SymFacts
<1> QED  BY <1>3, <1>4, <1>5, <1>6

LEMMA NewInFinished ==
  ASSUME lines \in Seq(LineString), NEW s \in Seq(DirEdges), Finished(s),
         NEW d \in DirEdges, Allowed(d), edge(d) \notin EdgesIn(s), NEW e \in getNext(d)
  PROVE  edge(e) \notin EdgesIn(s)
<1>1. /\ Len(s) \in DOMAIN s /\ Len(s) \in Nat /\ DOMAIN s = 1..Len(s)
      /\ \A i \in DOMAIN s : s[i] \in DirEdges
  BY DEF Finished, Trail
<1>2. /\ e \in DirEdges /\ e # getSym(d) /\ Allowed(e)
      /\ fromNode(e) = toNode(d) /\ getDegree(toNode(d)) = 2
  BY NextIs
<1>3. \A i \in DOMAIN s : edge(s[i]) # edge(d)  BY DEF EdgesIn
<1> SUFFICES ASSUME NEW k \in DOMAIN s, edge(s[k]) = edge(e) PROVE FALSE
  BY DEF EdgesIn
<1>4. s[k] = e \/ s[k] = getSym(e)  BY <1>1, <1>2, SameEdge
<1>5. CASE s[k] = e /\ k = 1
  <2>1. CASE isStartNode(fromNode(s[1]))
    BY <2>1, <1>2, <1>5, NoStart
  <2>2. CASE s[1] \in getNext(s[Len(s)])
    <3>1. s[Len(s)] = d  BY <2>2, <1>1, <1>5, OnePredecessor
    <3> QED  BY <3>1, <1>1, <1>3
  <2> QED  BY <2>1, <2>2 DEF Finished
<1>6. CASE s[k] = e /\ k # 1
  <2>1. k - 1 \in DOMAIN s /\ k - 1 < Len(s) /\ (k - 1) + 1 = k  BY <1>1, <1>6
  <2>2. e \in getNext(s[k - 1])  BY <2>1, <1>6 DEF Finished, Trail
  <2>3. s[k - 1] = d  BY <2>1, <2>2, <1>1, OnePredecessor
  <2> QED  BY <2>1, <2>3, <1>3
<1>7. CASE s[k] = getSym(e) /\ k = Len(s)
  <2>1. Allowed(getSym(e))  BY <1>1, <1>7 DEF Finished, Trail
  <2>2. ~isDirected  BY <2>1, <1>2, OneWay DEF Allowed
  <2>3. toNode(getSym(e)) = toNode(d) /\ getSym(d) \in outEdges(toNode(d))
        /\ getSym(getSym(e)) = e
    BY <1>2, OutOfNodes, SymFacts
  <2>4. getSym(d) \in getNext(getSym(e))
    BY <2>2, <2>3, <1>2 DEF getNext
  <2>5. getSym(d) = s[1]  BY <2>4, <1>7 DEF Finished
  <2>6. 1 \in DOMAIN s /\ edge(s[1]) = edge(d)  BY <2>5, <1>1, SymFacts
  <2> QED  BY <2>6, <1>3
<1>8. CASE s[k] = getSym(e) /\ k # Len(s)
  <2>1. k + 1 \in DOMAIN s /\ k < Len(s)  BY <1>1, <1>8
  <2>2. s[k + 1] \in getNext(getSym(e))  BY <2>1, <1>8 DEF Finished, Trail
  <2>3. s[k + 1] = getSym(d)  BY <2>2, Reversed
  <2> QED  BY <2>1, <2>3, <1>3, SymFacts
<1> QED  BY <1>4, <1>5, <1>6, <1>7, <1>8

LEMMA TrailGrows ==
  ASSUME lines \in Seq(LineString), NEW s \in Seq(DirEdges), Trail(s),
         NEW e \in getNext(s[Len(s)]), e # s[1]
  PROVE  /\ Append(s, e) \in Seq(DirEdges) /\ Trail(Append(s, e))
         /\ EdgesIn(Append(s, e)) = EdgesIn(s) \cup {edge(e)}
         /\ Append(s, e)[1] = s[1]
<1> DEFINE t == Append(s, e)
<1>1. Len(s) \in Nat /\ Len(s) >= 1 /\ DOMAIN s = 1..Len(s) /\ s[Len(s)] \in DirEdges
  BY DEF Trail
<1>2. e \in DirEdges /\ Allowed(e)  BY <1>1, NextIs
<1>3. /\ t \in Seq(DirEdges) /\ Len(t) = Len(s) + 1 /\ DOMAIN t = 1..(Len(s) + 1)
      /\ t[Len(s) + 1] = e /\ \A i \in 1..Len(s) : t[i] = s[i]
  BY <1>1, <1>2
<1> HIDE DEF t
<1>4. EdgesIn(t) = EdgesIn(s) \cup {edge(e)}
  BY <1>1, <1>3 DEF EdgesIn
<1>5. \A i, j \in DOMAIN t : edge(t[i]) = edge(t[j]) => i = j
  <2> SUFFICES ASSUME NEW i \in DOMAIN t, NEW j \in DOMAIN t, edge(t[i]) = edge(t[j])
               PROVE  i = j
    OBVIOUS
  <2>1. \A k \in 1..Len(s) : edge(s[k]) # edge(e)  BY <1>1, NewInTrail DEF EdgesIn
  <2>2. CASE i \in 1..Len(s) /\ j \in 1..Len(s)
    BY <2>2, <1>1, <1>3 DEF Trail
  <2>3. CASE i = Len(s) + 1 /\ j = Len(s) + 1
    BY <2>3
  <2>4. CASE (i = Len(s) + 1 /\ j \in 1..Len(s)) \/ (i \in 1..Len(s) /\ j = Len(s) + 1)
    BY <2>1, <2>4, <1>3
  <2> QED  BY <2>2, <2>3, <2>4, <1>1, <1>3
<1>6. \A i \in DOMAIN t : Allowed(t[i]) /\ (i < Len(t) => t[i + 1] \in getNext(t[i]))
  <2> SUFFICES ASSUME NEW i \in DOMAIN t
               PROVE  Allowed(t[i]) /\ (i < Len(t) => t[i + 1] \in getNext(t[i]))
    OBVIOUS
  <2>1. CASE i \in 1..Len(s) /\ i < Len(s)
    <3>1. t[i] = s[i] /\ t[i + 1] = s[i + 1]  BY <2>1, <1>1, <1>3
    <3> QED  BY <3>1, <2>1, <1>1 DEF Trail
  <2>2. CASE i = Len(s)
    BY <2>2, <1>1, <1>3 DEF Trail
  <2>3. CASE i = Len(s) + 1
    BY <2>3, <1>1, <1>2, <1>3
  <2> QED  BY <2>1, <2>2, <2>3, <1>1, <1>3
<1>7. t # <<>>  BY <1>1, <1>3
<1> QED  BY <1>1, <1>3, <1>4, <1>5, <1>6, <1>7 DEF Trail, t

------------------------------------------------------------------------------
(***************************************************************************)
(* After the first pass, what is left has no ends: else the edges that are *)
(* left, each after another one, would outnumber these.                    *)
(***************************************************************************)
LEMMA SomethingBefore ==
  ASSUME TypeOK, WhileMerging, current = <<>>, isDirected,
         \A n \in Nodes : isStartNode(n) => n \in markedNodes,
         NEW d \in DirEdges, Allowed(d), edge(d) \notin markedEdges
  PROVE  \E p \in DirEdges : Allowed(p) /\ edge(p) \notin markedEdges /\ d \in getNext(p)
<1> DEFINE n == fromNode(d)
<1>1. lines \in Seq(LineString) /\ d \in outEdges(n) /\ n \in Nodes
  <2>1. edge(d) \in Edges  BY SymFacts
  <2>2. n = lines[edge(d)].from \/ n = lines[edge(d)].to  BY DEF fromNode, edge
  <2> QED  BY <2>1, <2>2, OutOfNodes DEF TypeOK, Edges, Nodes
<1>2. ~isStartNode(n)  BY <1>1 DEF WhileMerging, NodesAreDone
<1>3. getDegree(n) = 2 /\ ~SameDirection(n)  BY <1>2 DEF isStartNode
<1>4. PICK q \in outEdges(n) : q # d /\ outEdges(n) = {d, q}  BY <1>1, <1>3, TwoEdges
<1>5. q \in DirEdges /\ fromNode(q) = n  BY DEF outEdges
<1>6. ~getEdgeDirection(q)
  <2>1. getEdgeDirection(d)  BY DEF Allowed
  <2>2. getEdgeDirection(d) \in BOOLEAN /\ getEdgeDirection(q) \in BOOLEAN
    BY <1>5 DEF getEdgeDirection, DirEdges
  <2> QED  BY <2>1, <2>2, <1>3, <1>4 DEF SameDirection
<1> DEFINE p == getSym(q)
<1>7. p \in DirEdges /\ Allowed(p) /\ toNode(p) = n /\ getSym(p) = q
  BY <1>5, <1>6, SymFacts, OutOfNodes, OneWay DEF Allowed
<1>8. d \in getNext(p)
  BY <1>1, <1>3, <1>4, <1>7 DEF getNext, Allowed
<1>9. edge(p) \notin markedEdges
  <2> SUFFICES ASSUME edge(p) \in markedEdges PROVE FALSE  OBVIOUS
  <2>1. PICK s \in edgeStrings : edge(p) \in EdgesIn(s)
    BY DEF WhileMerging, MarksAreStrings, EdgesIn
  <2>2. /\ s \in Seq(DirEdges) /\ Finished(s) /\ EdgesIn(s) \subseteq markedEdges
        /\ Len(s) \in Nat /\ DOMAIN s = 1..Len(s) /\ \A i \in DOMAIN s : s[i] \in DirEdges
    BY DEF TypeOK, WhileMerging, StringsFinished, MarksAreStrings
  <2>3. PICK k \in DOMAIN s : edge(s[k]) = edge(p)  BY <2>1 DEF EdgesIn
  <2>4. s[k] = p
    <3>1. s[k] = p \/ s[k] = q  BY <2>2, <2>3, <1>7, SameEdge
    <3>2. Allowed(s[k])  BY <2>2 DEF Finished, Trail
    <3> QED  BY <3>1, <3>2, <1>6 DEF Allowed
  <2>5. getNext(p) = {d}  BY <1>1, <1>7, <1>8, NextIs
  <2>6. \E j \in DOMAIN s : s[j] = d
    <3>1. CASE k < Len(s)
      BY <3>1, <2>2, <2>4, <2>5 DEF Finished, Trail
    <3>2. CASE k = Len(s)
      BY <3>2, <2>2, <2>4, <2>5 DEF Finished
    <3> QED  BY <3>1, <3>2, <2>2
  <2> QED  BY <2>2, <2>6 DEF EdgesIn
<1> QED  BY <1>7, <1>8, <1>9

LEMMA NothingEnds ==
  ASSUME TypeOK, WhileMerging, current = <<>>,
         \A n \in Nodes : isStartNode(n) => n \in markedNodes,
         NEW d \in DirEdges, Allowed(d), edge(d) \notin markedEdges
  PROVE  getNext(d) # {}
<1>1. lines \in Seq(LineString)  BY DEF TypeOK
<1>2. CASE ~isDirected
  <2> DEFINE n == toNode(d)
  <2>1. getSym(d) \in DirEdges /\ getSym(d) \in outEdges(n) /\ edge(getSym(d)) = edge(d)
        /\ Allowed(getSym(d))
    BY <1>2, SymFacts, OutOfNodes DEF Allowed
  <2>2. n \in Nodes
    <3>1. edge(d) \in Edges  BY SymFacts
    <3>2. n = lines[edge(d)].from \/ n = lines[edge(d)].to
      BY DEF toNode, fromNode, getSym, edge
    <3> QED  BY <3>1, <3>2 DEF Edges, Nodes
  <2>3. ~isStartNode(n)  BY <2>1, <2>2 DEF WhileMerging, NodesAreDone
  <2>4. getDegree(n) = 2  BY <2>3 DEF isStartNode
  <2>5. PICK e \in outEdges(n) : e # getSym(d)  BY <1>1, <2>1, <2>4, TwoEdges
  <2> QED  BY <1>2, <2>4, <2>5 DEF getNext
<1>3. CASE isDirected
  <2> DEFINE U == {x \in DirEdges : Allowed(x) /\ edge(x) \notin markedEdges}
             before == [x \in U |-> CHOOSE p \in U : x \in getNext(p)]
  <2>1. \A x \in U : \E p \in U : x \in getNext(p)  BY <1>3, SomethingBefore
  <2>2. \A x \in U : before[x] \in U /\ x \in getNext(before[x])  BY <2>1
  <2>3. IsFiniteSet(U)  BY <1>1, FiniteEdges, FS_Subset
  <2>4. \A x, y \in U : before[x] = before[y] => x = y
    <3> SUFFICES ASSUME NEW x \in U, NEW y \in U, before[x] = before[y] PROVE x = y
      OBVIOUS
    <3>1. x \in getNext(before[x]) /\ y \in getNext(before[x]) /\ before[x] \in DirEdges
      BY <2>2
    <3> QED  BY <3>1, <1>1, NextIs
  <2>5. before \in Injection(U, U)
    BY <2>2, <2>4 DEF Injection, IsInjective
  <2>6. before \in Surjection(U, U)
    BY <2>3, <2>5, FS_Injection
  <2>7. PICK x \in U : before[x] = d
    BY <2>6 DEF Surjection
  <2> QED  BY <2>2, <2>7
<1> QED  BY <1>2, <1>3

------------------------------------------------------------------------------
(***************************************************************************)
(* The graph, while no line is added, and when one is.                     *)
(***************************************************************************)
LEMMA GraphSame ==
  ASSUME UNCHANGED <<lines, isDirected>>
  PROVE  /\ Edges' = Edges /\ DirEdges' = DirEdges /\ Nodes' = Nodes
         /\ \A n : outEdges(n)' = outEdges(n) /\ isStartNode(n)' = isStartNode(n)
         /\ \A d : /\ Allowed(d)' = Allowed(d) /\ getNext(d)' = getNext(d)
                   /\ fromNode(d)' = fromNode(d)
         /\ \A s : Trail(s)' = Trail(s) /\ Finished(s)' = Finished(s)
<1>1. Edges' = Edges /\ DirEdges' = DirEdges /\ Nodes' = Nodes
  BY DEF Edges, DirEdges, Nodes
<1>2. \A d : fromNode(d)' = fromNode(d) /\ toNode(d)' = toNode(d) /\ Allowed(d)' = Allowed(d)
  BY DEF fromNode, toNode, Allowed
<1>3. \A n : outEdges(n)' = outEdges(n)
  BY <1>1, <1>2 DEF outEdges
<1>4. \A n : getDegree(n)' = getDegree(n) /\ SameDirection(n)' = SameDirection(n)
  BY <1>3 DEF getDegree, SameDirection
<1>5. \A n : isStartNode(n)' = isStartNode(n)
  BY <1>4 DEF isStartNode
<1>6. \A d : getNext(d)' = getNext(d)
  BY <1>2, <1>3, <1>4 DEF getNext
<1>7. \A s : Trail(s)' = Trail(s)
  BY <1>2, <1>6 DEF Trail
<1>8. \A s : Finished(s)' = Finished(s)
  BY <1>2, <1>5, <1>6, <1>7 DEF Finished
<1> QED  BY <1>1, <1>2, <1>3, <1>5, <1>6, <1>7, <1>8

LEMMA InitHolds == lines \in Seq(LineString) /\ Empty => IInv
  BY DEF Empty, IInv, TypeOK, InPhase

LEMMA AddLineKeeps ==
  ASSUME IInv, NEW line \in NewLines, AddLine(line)
  PROVE  IInv'
<1>1. line \in LineString  BY NewLinesAssumption
<1>2. lines \in Seq(LineString) /\ lines' = Append(lines, line)
  BY DEF IInv, TypeOK, AddLine, addEdge
<1>3. /\ lines' \in Seq(LineString) /\ DOMAIN lines \subseteq DOMAIN lines'
      /\ \A i \in DOMAIN lines : lines'[i] = lines[i]
  BY <1>1, <1>2
<1>4. Edges \subseteq Edges' /\ Nodes \subseteq Nodes'
  BY <1>3 DEF Edges, Nodes
<1>5. DirEdges \subseteq DirEdges'  BY <1>4 DEF DirEdges
<1>6. Seq(DirEdges) \subseteq Seq(DirEdges')  BY <1>5
<1> QED  BY <1>3, <1>4, <1>6 DEF IInv, TypeOK, InPhase, AddLine, mergerVars

LEMMA MergeKeeps ==
  ASSUME IInv, Merge
  PROVE  IInv'
<1>1. /\ lines' = lines /\ isDirected' = isDirected /\ merging' = "starts" /\ current' = <<>>
      /\ toVisit' = Nodes /\ edgeStrings' = {} /\ markedEdges' = {} /\ markedNodes' = {}
      /\ merges' = merges + 1
  BY DEF Merge, IInv, InPhase
<1>2. TypeOK'  BY <1>1, GraphSame DEF IInv, TypeOK
<1>3. EdgesIn(<<>>) = {}  BY DEF EdgesIn
<1>4. WhileMerging'
  BY <1>1, <1>3, GraphSame DEF WhileMerging, StringsFinished, StringsApart, CurrentGrows,
     MarksAreStrings, NodesAreDone, NodesAreVisited, LoopsGoOn
<1> QED  BY <1>1, <1>2, <1>4 DEF IInv, InPhase

\* What a step keeps that touches neither the graph nor the finished strings.
StringsStay ==
  UNCHANGED <<lines, isDirected, edgeStrings, merges>> /\ merging # "idle" /\ merging' # "idle"

LEMMA StringsKept ==
  ASSUME IInv, StringsStay
  PROVE  StringsFinished' /\ StringsApart'
  BY GraphSame DEF StringsStay, IInv, WhileMerging, StringsFinished, StringsApart

LEMMA StartStringKeeps ==
  ASSUME IInv, NEW de \in outEdges(node), StartString(de)
  PROVE  IInv'
<1>1. /\ Visiting /\ isProcessed /\ de \in Startable /\ current' = <<de>>
      /\ markedEdges' = markedEdges \cup {edge(de)}
      /\ UNCHANGED <<lines, isDirected, merging, toVisit, edgeStrings, markedNodes, merges>>
  BY DEF StartString
<1>2. /\ de \in DirEdges /\ fromNode(de) = node /\ edge(de) \in Edges
      /\ Allowed(de) /\ edge(de) \notin markedEdges
  BY <1>1, SymFacts DEF Startable, outEdges, Allowed
<1>3. merging \in {"starts", "loops"} /\ current = <<>> /\ TypeOK /\ WhileMerging
  BY <1>1 DEF Visiting, IInv
<1>4. TypeOK'
  BY <1>1, <1>2, <1>3, GraphSame DEF TypeOK
<1>5. InPhase'  BY <1>1, <1>3 DEF InPhase
<1>6. StringsFinished' /\ StringsApart'
  BY <1>1, <1>3, StringsKept DEF StringsStay
<1>7. EdgesIn(<<>>) = {} /\ EdgesIn(<<de>>) = {edge(de)}  BY DEF EdgesIn
<1>8. CurrentGrows'
  <2>1. Trail(<<de>>)'
    BY <1>2, <1>1, GraphSame DEF Trail
  <2>2. \A s \in edgeStrings : EdgesIn(s) \cap EdgesIn(<<de>>) = {}
    BY <1>2, <1>3, <1>7 DEF WhileMerging, MarksAreStrings
  <2>3. merging = "starts" => isStartNode(fromNode(de))'
    BY <1>1, <1>2, GraphSame DEF isProcessed
  <2> QED  BY <1>1, <2>1, <2>2, <2>3 DEF CurrentGrows
<1>9. MarksAreStrings'
  BY <1>1, <1>3, <1>7 DEF WhileMerging, MarksAreStrings
<1>10. NodesAreDone' /\ NodesAreVisited'
  BY <1>1, <1>3, GraphSame DEF WhileMerging, NodesAreDone, NodesAreVisited
<1>11. LoopsGoOn'
  <2>1. \A d \in DirEdges : Left(d)' => Left(d)
    BY <1>1, <1>2 DEF Left
  <2> QED  BY <2>1, <1>1, <1>3, GraphSame DEF WhileMerging, LoopsGoOn
<1> QED  BY <1>4, <1>5, <1>6, <1>8, <1>9, <1>10, <1>11 DEF IInv, WhileMerging

LEMMA ContinueKeeps ==
  ASSUME IInv, Continue
  PROVE  IInv'
<1> DEFINE last == current[Len(current)]
<1>1. PICK onward \in getNext(last) :
        /\ onward # current[1] /\ current' = Append(current, onward)
        /\ markedEdges' = markedEdges \cup {edge(onward)}
  BY DEF Continue
<1>2. /\ current # <<>>
      /\ UNCHANGED <<lines, isDirected, merging, toVisit, edgeStrings, markedNodes, merges>>
  BY DEF Continue
<1>3. merging \in {"starts", "loops"} /\ TypeOK /\ WhileMerging
  BY <1>2 DEF IInv, InPhase
<1>4. lines \in Seq(LineString) /\ current \in Seq(DirEdges) /\ Trail(current)
  BY <1>2, <1>3 DEF TypeOK, WhileMerging, CurrentGrows
<1>5. Len(current) \in DOMAIN current /\ last \in DirEdges /\ Allowed(last)
  BY <1>2, <1>4 DEF Trail
<1>6. onward \in DirEdges /\ edge(onward) \in Edges  BY <1>1, <1>4, <1>5, NextIs, SymFacts
<1>7. /\ current' \in Seq(DirEdges) /\ Trail(current') /\ current'[1] = current[1]
      /\ EdgesIn(current') = EdgesIn(current) \cup {edge(onward)}
  BY <1>1, <1>4, TrailGrows
<1>8. edge(onward) \notin markedEdges
  <2>1. edge(onward) \notin EdgesIn(current)  BY <1>1, <1>4, NewInTrail
  <2>2. edge(last) \in EdgesIn(current)  BY <1>5 DEF EdgesIn
  <2>3. ASSUME NEW s \in edgeStrings PROVE edge(onward) \notin EdgesIn(s)
    <3>1. edge(last) \notin EdgesIn(s)  BY <1>2, <1>3, <2>2 DEF WhileMerging, CurrentGrows
    <3> QED  BY <3>1, <1>1, <1>3, <1>4, <1>5, NewInFinished DEF TypeOK, WhileMerging, StringsFinished
  <2> QED  BY <1>3, <2>1, <2>3 DEF WhileMerging, MarksAreStrings
<1>9. TypeOK'
  BY <1>1, <1>2, <1>3, <1>6, <1>7, GraphSame DEF TypeOK
<1>10. InPhase'  BY <1>2, <1>3 DEF InPhase
<1>11. StringsFinished' /\ StringsApart'
  BY <1>2, <1>3, StringsKept DEF StringsStay
<1>12. CurrentGrows'
  <2>1. (Trail(current))'
    BY <1>7, <1>2, GraphSame
  <2>2. \A s \in edgeStrings : EdgesIn(s) \cap EdgesIn(current') = {}
    <3>1. \A s \in edgeStrings : EdgesIn(s) \subseteq markedEdges
      BY <1>3 DEF WhileMerging, MarksAreStrings
    <3> QED  BY <3>1, <1>2, <1>3, <1>7, <1>8 DEF WhileMerging, CurrentGrows
  <2>3. merging = "starts" => isStartNode(fromNode(current'[1]))
    BY <1>2, <1>3, <1>7 DEF WhileMerging, CurrentGrows
  <2>4. merging = "starts" => (isStartNode(fromNode(current[1])))'
    BY <2>3, <1>2, GraphSame
  <2> QED  BY <2>1, <2>2, <2>4, <1>2 DEF CurrentGrows
<1>13. MarksAreStrings'
  BY <1>1, <1>2, <1>3, <1>7 DEF WhileMerging, MarksAreStrings
<1>14. NodesAreDone' /\ NodesAreVisited'
  BY <1>1, <1>2, <1>3, GraphSame DEF WhileMerging, NodesAreDone, NodesAreVisited
<1>15. LoopsGoOn'
  <2>1. \A d \in DirEdges : Left(d)' => Left(d)
    <3>1. \A i \in DOMAIN current' : current'[i] = onward \/ \E j \in DOMAIN current : current'[i] = current[j]
      BY <1>1, <1>4, <1>6
    <3> QED  BY <3>1, <1>1, <1>8 DEF Left
  <2> QED  BY <2>1, <1>2, <1>3, GraphSame DEF WhileMerging, LoopsGoOn
<1> QED  BY <1>9, <1>10, <1>11, <1>12, <1>13, <1>14, <1>15 DEF IInv, WhileMerging

LEMMA EndStringKeeps ==
  ASSUME IInv, EndString
  PROVE  IInv'
<1>1. /\ current # <<>> /\ getNext(current[Len(current)]) \subseteq {current[1]}
      /\ edgeStrings' = edgeStrings \cup {current} /\ current' = <<>>
      /\ UNCHANGED <<lines, isDirected, merging, toVisit, markedEdges, markedNodes, merges>>
  BY DEF EndString
<1>2. merging \in {"starts", "loops"} /\ TypeOK /\ WhileMerging
  BY <1>1 DEF IInv, InPhase
<1>3. current \in Seq(DirEdges) /\ Trail(current)
  BY <1>1, <1>2 DEF TypeOK, WhileMerging, CurrentGrows
<1>4. Len(current) \in DOMAIN current /\ current[Len(current)] \in DirEdges
      /\ Allowed(current[Len(current)])
  BY <1>1, <1>3 DEF Trail
<1>5. Finished(current)
  <2>1. CASE merging = "starts"
    BY <2>1, <1>1, <1>2, <1>3 DEF WhileMerging, CurrentGrows, Finished
  <2>2. CASE merging = "loops"
    <3>1. getNext(current[Len(current)]) # {}
      BY <2>2, <1>2, <1>4 DEF WhileMerging, LoopsGoOn, Left
    <3>2. current[1] \in getNext(current[Len(current)])  BY <3>1, <1>1
    <3> QED  BY <3>2, <1>1, <1>3 DEF Finished
  <2> QED  BY <2>1, <2>2, <1>2
<1>6. TypeOK' /\ InPhase'
  BY <1>1, <1>2, <1>3, GraphSame DEF TypeOK, InPhase
<1>7. StringsFinished'
  BY <1>1, <1>2, <1>5, GraphSame DEF WhileMerging, StringsFinished
<1>8. StringsApart'
  <2>1. \A s \in edgeStrings : EdgesIn(s) \cap EdgesIn(current) = {}
    BY <1>1, <1>2 DEF WhileMerging, CurrentGrows
  <2> QED  BY <2>1, <1>1, <1>2 DEF WhileMerging, StringsApart
<1>9. EdgesIn(<<>>) = {}  BY DEF EdgesIn
<1>10. MarksAreStrings'
  BY <1>1, <1>2, <1>9 DEF WhileMerging, MarksAreStrings
<1>11. CurrentGrows' /\ NodesAreDone' /\ NodesAreVisited'
  BY <1>1, <1>2, GraphSame DEF WhileMerging, CurrentGrows, NodesAreDone, NodesAreVisited
<1>12. LoopsGoOn'
  <2>1. \A d \in DirEdges : Left(d)' => Left(d)
    BY <1>1 DEF Left
  <2> QED  BY <2>1, <1>1, <1>2, GraphSame DEF WhileMerging, LoopsGoOn
<1> QED  BY <1>6, <1>7, <1>8, <1>10, <1>11, <1>12 DEF IInv, WhileMerging

LEMMA NodeIsVisited ==
  ASSUME TypeOK, toVisit # {}
  PROVE  node \in toVisit
<1>1. Nodes \subseteq Nat
  <2>1. \A i \in DOMAIN lines : lines[i] \in LineString  BY DEF TypeOK
  <2> QED  BY <2>1 DEF Nodes, LineString
<1> DEFINE Smaller == {ss \in Nat \X Nat : ss[1] < ss[2]}
<1>2. IsWellFoundedOn(Smaller, Nat)
  BY NatLessThanWellFounded, Zenon DEF OpToRel
<1>3. \E x \in toVisit : \A y \in toVisit : ~(<<y, x>> \in Smaller)
  <2>1. toVisit \subseteq Nat  BY <1>1 DEF TypeOK
  <2> HIDE DEF Smaller
  <2> QED  BY <1>2, <2>1, WFMin, Zenon
<1>4. \E x \in toVisit : \A y \in toVisit : x <= y
  <2>1. PICK x \in toVisit : \A y \in toVisit : ~(<<y, x>> \in Smaller)  BY <1>3
  <2>2. ASSUME NEW y \in toVisit PROVE x <= y
    <3>1. x \in Nat /\ y \in Nat  BY <1>1, <2>2 DEF TypeOK
    <3>2. ~(y < x)  BY <2>1, <2>2, <3>1
    <3> QED  BY <3>1, <3>2
  <2> QED  BY <2>2
<1> QED  BY <1>4 DEF node, First

LEMMA LeaveNodeKeeps ==
  ASSUME IInv, LeaveNode
  PROVE  IInv'
<1>1. /\ Visiting /\ (isProcessed => Startable = {}) /\ toVisit' = toVisit \ {node}
      /\ markedNodes' = IF isProcessed THEN markedNodes \cup {node} ELSE markedNodes
      /\ UNCHANGED <<lines, isDirected, merging, current, edgeStrings, markedEdges, merges>>
  BY DEF LeaveNode
<1>2. merging \in {"starts", "loops"} /\ current = <<>> /\ toVisit # {} /\ TypeOK /\ WhileMerging
  BY <1>1 DEF Visiting, IInv
<1>3. node \in toVisit /\ node \in Nodes
  BY <1>2, NodeIsVisited DEF TypeOK
<1>4. TypeOK' /\ InPhase'
  BY <1>1, <1>2, <1>3, GraphSame DEF TypeOK, InPhase
<1>5. StringsFinished' /\ StringsApart'
  BY <1>1, <1>2, StringsKept DEF StringsStay
<1>6. CurrentGrows' /\ MarksAreStrings'
  BY <1>1, <1>2 DEF WhileMerging, CurrentGrows, MarksAreStrings
<1>7. NodesAreDone'
  <2>1. isProcessed => \A d \in outEdges(node) : Allowed(d) => edge(d) \in markedEdges
    BY <1>1 DEF Startable, Allowed
  <2>2. \A n \in markedNodes' : \A d \in outEdges(n) : Allowed(d) => edge(d) \in markedEdges
    BY <2>1, <1>1, <1>2 DEF WhileMerging, NodesAreDone
  <2> QED  BY <2>2, <1>1, GraphSame DEF NodesAreDone
<1>8. NodesAreVisited'
  <2>1. merging = "starts" =>
          \A n \in Nodes \ toVisit' : isStartNode(n) => n \in markedNodes'
    BY <1>1, <1>2 DEF WhileMerging, NodesAreVisited, isProcessed
  <2>2. merging = "loops" => Nodes \ toVisit' \subseteq markedNodes'
    BY <1>1, <1>2 DEF WhileMerging, NodesAreVisited, isProcessed
  <2> QED  BY <2>1, <2>2, <1>1, <1>2, GraphSame DEF NodesAreVisited
<1>9. LoopsGoOn'
  <2>1. \A d \in DirEdges : Left(d)' => Left(d)
    BY <1>1 DEF Left
  <2> QED  BY <2>1, <1>1, <1>2, GraphSame DEF WhileMerging, LoopsGoOn
<1> QED  BY <1>4, <1>5, <1>6, <1>7, <1>8, <1>9 DEF IInv, WhileMerging

LEMMA EndPassKeeps ==
  ASSUME IInv, EndPass
  PROVE  IInv'
<1>1. /\ merging \in {"starts", "loops"} /\ current = <<>> /\ toVisit = {}
      /\ IF merging = "starts" THEN merging' = "loops" /\ toVisit' = Nodes
                               ELSE merging' = "merged" /\ toVisit' = toVisit
      /\ UNCHANGED <<lines, isDirected, current, edgeStrings, markedEdges, markedNodes, merges>>
  BY DEF EndPass
<1>2. TypeOK /\ WhileMerging  BY <1>1 DEF IInv
<1>3. TypeOK' /\ InPhase'
  BY <1>1, <1>2, GraphSame DEF TypeOK, InPhase
<1>4. StringsFinished' /\ StringsApart'
  BY <1>1, StringsKept DEF StringsStay
<1>5. CurrentGrows' /\ MarksAreStrings' /\ NodesAreDone'
  BY <1>1, <1>2, GraphSame DEF WhileMerging, CurrentGrows, MarksAreStrings, NodesAreDone
<1>6. NodesAreVisited'
  BY <1>1, <1>2, GraphSame DEF WhileMerging, NodesAreVisited
<1>7. LoopsGoOn'
  <2>1. CASE merging = "starts"
    <3>1. \A n \in Nodes : isStartNode(n) => n \in markedNodes
      BY <2>1, <1>1, <1>2 DEF WhileMerging, NodesAreVisited
    <3>2. \A d \in DirEdges : Allowed(d) /\ edge(d) \notin markedEdges => getNext(d) # {}
      BY <3>1, <1>1, <1>2, NothingEnds
    <3>3. \A d \in DirEdges : Left(d)' => edge(d) \notin markedEdges
      BY <1>1 DEF Left
    <3> QED  BY <3>2, <3>3, <1>1, GraphSame DEF LoopsGoOn
  <2>2. CASE merging = "loops"
    BY <2>2, <1>1 DEF LoopsGoOn
  <2> QED  BY <2>1, <2>2, <1>1
<1> QED  BY <1>3, <1>4, <1>5, <1>6, <1>7 DEF IInv, WhileMerging

LEMMA TakeStringsKeeps ==
  ASSUME IInv, TakeStrings
  PROVE  IInv'
  BY GraphSame DEF IInv, TypeOK, InPhase, TakeStrings

LEMMA StutterKeeps ==
  ASSUME IInv, UNCHANGED <<lines, mergerVars>>
  PROVE  IInv'
<1>1. UNCHANGED <<lines, isDirected, merging, toVisit, current, edgeStrings,
                  markedEdges, markedNodes, merges>>
  BY DEF mergerVars
<1>2. TypeOK' /\ InPhase'  BY <1>1, GraphSame DEF IInv, TypeOK, InPhase
<1>3. CASE merging # "idle"
  <2>1. WhileMerging  BY <1>3 DEF IInv
  <2>2. StringsFinished' /\ StringsApart'
    BY <1>1, <1>3, StringsKept DEF StringsStay
  <2>3. CurrentGrows' /\ MarksAreStrings' /\ NodesAreDone' /\ NodesAreVisited'
    BY <1>1, <2>1, GraphSame DEF WhileMerging, CurrentGrows, MarksAreStrings, NodesAreDone, NodesAreVisited
  <2>4. LoopsGoOn'
    BY <1>1, <2>1, GraphSame DEF WhileMerging, LoopsGoOn, Left
  <2> QED  BY <1>2, <2>2, <2>3, <2>4 DEF IInv, WhileMerging
<1> QED  BY <1>1, <1>2, <1>3 DEF IInv

LEMMA NextKeeps == IInv /\ [NextOfMerger]_<<lines, mergerVars>> => IInv'
<1> SUFFICES ASSUME IInv, [NextOfMerger]_<<lines, mergerVars>> PROVE IInv'  OBVIOUS
<1>1. CASE \E line \in NewLines : AddLine(line)  BY <1>1, AddLineKeeps
<1>2. CASE Merge  BY <1>2, MergeKeeps
<1>3. CASE Continue  BY <1>3, ContinueKeeps
<1>4. CASE EndString  BY <1>4, EndStringKeeps
<1>5. CASE LeaveNode  BY <1>5, LeaveNodeKeeps
<1>6. CASE EndPass  BY <1>6, EndPassKeeps
<1>7. CASE TakeStrings  BY <1>7, TakeStringsKeeps
<1>8. CASE Visiting /\ \E de \in outEdges(node) : StartString(de)  BY <1>8, StartStringKeeps
<1>9. CASE UNCHANGED <<lines, mergerVars>>  BY <1>9, StutterKeeps
<1> QED  BY <1>1, <1>2, <1>3, <1>4, <1>5, <1>6, <1>7, <1>8, <1>9 DEF NextOfMerger

\* The invariant, from which all that follows is read off.
THEOREM Inductive == MergerSpec => []IInv
<1>1. lines \in Seq(LineString) /\ Empty => IInv  BY InitHolds
<1>2. IInv /\ [NextOfMerger]_<<lines, mergerVars>> => IInv'  BY NextKeeps
<1> QED  BY <1>1, <1>2, PTL DEF MergerSpec

------------------------------------------------------------------------------
(***************************************************************************)
(* What a call returns.                                                    *)
(***************************************************************************)
LEMMA EveryEdgeIsTaken ==
  ASSUME IInv, merging = "merged", NEW d \in DirEdges, Allowed(d)
  PROVE  \E s \in edgeStrings : \E i \in DOMAIN s : edge(s[i]) = edge(d)
<1>1. TypeOK /\ WhileMerging /\ current = <<>>  BY DEF IInv, InPhase
<1>2. d \in outEdges(fromNode(d)) /\ fromNode(d) \in Nodes
  <2>1. edge(d) \in Edges  BY SymFacts
  <2>2. fromNode(d) = lines[edge(d)].from \/ fromNode(d) = lines[edge(d)].to  BY DEF fromNode, edge
  <2> QED  BY <2>1, <2>2, OutOfNodes DEF Edges, Nodes
<1>3. edge(d) \in markedEdges
  BY <1>1, <1>2 DEF WhileMerging, NodesAreVisited, NodesAreDone
<1>4. EdgesIn(<<>>) = {}  BY DEF EdgesIn
<1>5. PICK s \in edgeStrings : edge(d) \in EdgesIn(s)
  BY <1>1, <1>3, <1>4 DEF WhileMerging, MarksAreStrings
<1>6. \E i \in DOMAIN s : edge(s[i]) = edge(d)
  BY <1>5 DEF EdgesIn
<1> QED  BY <1>6

LEMMA LinesFollow ==
  ASSUME IInv
  PROVE  StringsAreLines
<1> SUFFICES ASSUME merging = "merged" PROVE StringsAreLines  BY DEF StringsAreLines
<1>1. TypeOK /\ WhileMerging /\ lines \in Seq(LineString)  BY DEF IInv, TypeOK
<1>2. ASSUME NEW e \in Edges
      PROVE  \E s \in edgeStrings : \E i \in DOMAIN s : edge(s[i]) = e
  <2> DEFINE d == <<e, TRUE>>
  <2>1. d \in DirEdges /\ edge(d) = e /\ Allowed(d)
    BY DEF DirEdges, edge, Allowed, getEdgeDirection
  <2> HIDE DEF d
  <2> QED  BY <2>1, EveryEdgeIsTaken
<1>3. ASSUME NEW s \in edgeStrings
      PROVE  s \in Seq(DirEdges) /\ Trail(s)
  BY <1>1 DEF TypeOK, WhileMerging, StringsFinished, Finished
<1>4. ASSUME NEW s \in edgeStrings, NEW t \in edgeStrings,
             NEW i \in DOMAIN s, NEW j \in DOMAIN t, edge(s[i]) = edge(t[j])
      PROVE  s = t /\ i = j
  <2>1. edge(s[i]) \in EdgesIn(s) /\ edge(s[i]) \in EdgesIn(t)  BY <1>4 DEF EdgesIn
  <2>2. s = t  BY <2>1, <1>1 DEF WhileMerging, StringsApart
  <2> QED  BY <2>2, <1>3, <1>4 DEF Trail
<1>5. ASSUME NEW s \in edgeStrings, NEW i \in DOMAIN s
      PROVE  /\ isDirected => getEdgeDirection(s[i])
             /\ i > 1 => fromNode(s[i]) = toNode(s[i - 1])
  <2>1. isDirected => getEdgeDirection(s[i])  BY <1>3 DEF Trail, Allowed
  <2>2. CASE i > 1
    <3>1. i - 1 \in DOMAIN s /\ i - 1 < Len(s) /\ (i - 1) + 1 = i /\ s[i - 1] \in DirEdges
      BY <1>3, <2>2
    <3>2. s[i] \in getNext(s[i - 1])  BY <3>1, <1>3 DEF Trail
    <3> QED  BY <2>1, <3>1, <3>2, <1>1, NextIs
  <2> QED  BY <2>1, <2>2
<1> QED  BY <1>2, <1>4, <1>5 DEF StringsAreLines

\* A string that is closed passes no node where sewing stops.
LEMMA LoopsAreIsolated ==
  ASSUME lines \in Seq(LineString), NEW s \in Seq(DirEdges), Trail(s),
         s[1] \in getNext(s[Len(s)])
  PROVE  \A k \in DOMAIN s : ~isStartNode(toNode(s[k]))
<1> SUFFICES ASSUME NEW k \in DOMAIN s PROVE ~isStartNode(toNode(s[k]))  OBVIOUS
<1>1. s[k] \in DirEdges /\ Allowed(s[k]) /\ DOMAIN s = 1..Len(s) /\ Len(s) \in Nat
  BY DEF Trail
<1>2. getNext(s[k]) # {}
  <2>1. CASE k < Len(s)  BY <2>1 DEF Trail
  <2>2. CASE k = Len(s)  BY <2>2
  <2> QED  BY <2>1, <2>2, <1>1
<1> QED  BY <1>1, <1>2, NoStart

LEMMA SewnFollows ==
  ASSUME IInv
  PROVE  SewnWherePossible
<1> SUFFICES ASSUME merging = "merged",
                    NEW d \in DirEdges, NEW e \in DirEdges,
                    toNode(d) = fromNode(e), e # getSym(d), getDegree(fromNode(e)) = 2,
                    isDirected => getEdgeDirection(d) /\ getEdgeDirection(e)
             PROVE  \E s \in edgeStrings : Follows(s, d, e) \/ Follows(s, getSym(e), getSym(d))
  BY DEF SewnWherePossible
<1>1. TypeOK /\ WhileMerging /\ lines \in Seq(LineString)  BY DEF IInv, TypeOK
<1>2. e \in getNext(d) /\ Allowed(d)
  BY OutOfNodes DEF getNext, Allowed
<1>3. PICK s \in edgeStrings : \E i \in DOMAIN s : edge(s[i]) = edge(d)
  BY <1>2, EveryEdgeIsTaken
<1> PICK i \in DOMAIN s : edge(s[i]) = edge(d)
  BY <1>3
<1>4. s \in Seq(DirEdges) /\ Finished(s) /\ Trail(s)
  BY <1>1 DEF TypeOK, WhileMerging, StringsFinished, Finished
<1>5. /\ DOMAIN s = 1..Len(s) /\ Len(s) \in Nat /\ Len(s) \in DOMAIN s /\ 1 \in DOMAIN s
      /\ \A k \in DOMAIN s : s[k] \in DirEdges /\ Allowed(s[k])
  BY <1>4 DEF Trail
<1>6. CASE s[i] = d /\ i < Len(s)
  <2>1. s[i + 1] \in getNext(d)  BY <1>4, <1>6 DEF Trail
  <2>2. s[i + 1] = e  BY <2>1, <1>1, <1>2, NextIs
  <2> QED  BY <2>2, <1>6 DEF Follows
<1>7. CASE s[i] = d /\ i = Len(s)
  <2>1. e = s[1] /\ s[1] \in getNext(s[Len(s)])  BY <1>2, <1>4, <1>7 DEF Finished
  <2>2. \A k \in DOMAIN s : ~isStartNode(toNode(s[k]))
    BY <2>1, <1>1, <1>4, LoopsAreIsolated
  <2> QED  BY <2>1, <2>2, <1>7 DEF Follows
<1>8. CASE s[i] = getSym(d)
  <2>1. ~isDirected  BY <1>2, <1>5, <1>8, OneWay DEF Allowed
  <2>2. /\ getSym(e) \in DirEdges /\ toNode(getSym(e)) = toNode(d)
        /\ getSym(getSym(e)) = e /\ getSym(d) \in outEdges(toNode(d))
    BY SymFacts, OutOfNodes
  <2>3. getSym(d) \in getNext(getSym(e))  BY <2>1, <2>2 DEF getNext
  <2>4. CASE i > 1
    <3>1. i - 1 \in DOMAIN s /\ i - 1 < Len(s) /\ (i - 1) + 1 = i  BY <1>5, <2>4
    <3>2. getSym(d) \in getNext(s[i - 1])  BY <3>1, <1>4, <1>8 DEF Trail
    <3>3. s[i - 1] = getSym(e)  BY <3>1, <3>2, <1>1, <1>5, <2>2, <2>3, OnePredecessor
    <3>4. Follows(s, getSym(e), getSym(d))  BY <3>1, <3>3, <1>8 DEF Follows
    <3> QED  BY <3>4
  <2>5. CASE i = 1
    <3>1. fromNode(s[1]) = toNode(d)  BY <2>5, <1>8, OutOfNodes
    <3>2. ~isStartNode(fromNode(s[1]))  BY <3>1, <1>1, <1>2, NoStart
    <3>3. s[1] \in getNext(s[Len(s)])  BY <3>2, <1>4 DEF Finished
    <3>4. s[Len(s)] = getSym(e)
      BY <3>3, <2>5, <1>1, <1>5, <1>8, <2>2, <2>3, OnePredecessor
    <3>5. \A k \in DOMAIN s : ~isStartNode(toNode(s[k]))
      BY <3>3, <1>1, <1>4, LoopsAreIsolated
    <3>6. Follows(s, getSym(e), getSym(d))
      BY <3>4, <3>5, <2>5, <1>5, <1>8 DEF Follows
    <3> QED  BY <3>6
  <2> QED  BY <2>4, <2>5, <1>5
<1> QED  BY <1>5, <1>6, <1>7, <1>8, SameEdge

\* The graph, the strings and the marks of LineMerger fit each other at all times.
THEOREM TypeCorrect == MergerSpec => []TypeOK
<1>1. IInv => TypeOK  BY DEF IInv
<1> QED  BY <1>1, Inductive, PTL

(***************************************************************************)
(* LineMerger::getMergedLineStrings takes every line into one of the       *)
(* strings it returns, once; each string has no gap and, if isDirected,    *)
(* runs along its lines.  So it is after every call, for any lines.        *)
(***************************************************************************)
THEOREM StringsAreAlwaysLines == MergerSpec => []StringsAreLines
<1>1. IInv => StringsAreLines  BY LinesFollow
<1> QED  BY <1>1, Inductive, PTL

(***************************************************************************)
(* LineMerger sews at every node where the class comment says it does: the *)
(* two edges there follow each other in one string, whichever way that     *)
(* runs, or are where an isolated loop closes.                             *)
(***************************************************************************)
THEOREM SewnAlwaysWherePossible == MergerSpec => []SewnWherePossible
<1>1. IInv => SewnWherePossible  BY SewnFollows
<1> QED  BY <1>1, Inductive, PTL

------------------------------------------------------------------------------
(***************************************************************************)
(* LineSequencer: the graph and its parts.                                 *)
(***************************************************************************)
AreLines == lines \in Seq(LineString)

\* Ends of lines are numbers, and those of a directed edge the ends of its line.
LEMMA EndsOfEdges ==
  ASSUME AreLines
  PROVE  /\ Edges \subseteq 1..Len(lines) /\ Len(lines) \in Nat /\ IsFiniteSet(Edges)
         /\ Nodes \subseteq Nat
         /\ \A de \in DirEdges :
              /\ edge(de) \in Edges /\ getEdgeDirection(de) \in BOOLEAN
              /\ de = <<edge(de), getEdgeDirection(de)>>
              /\ getSym(de) = <<edge(de), ~getEdgeDirection(de)>>
              /\ getSym(de) \in DirEdges /\ getSym(getSym(de)) = de
              /\ fromNode(de) \in Nodes /\ toNode(de) \in Nodes
              /\ toNode(de) = fromNode(getSym(de)) /\ fromNode(de) = toNode(getSym(de))
              /\ EndsOf(edge(de)) = {fromNode(de), toNode(de)}
<1>1. /\ Len(lines) \in Nat /\ DOMAIN lines = 1..Len(lines)
      /\ \A i \in DOMAIN lines : lines[i] \in LineString
  BY DEF AreLines
<1>2. \A i \in DOMAIN lines : lines[i].from \in Nat /\ lines[i].to \in Nat
  BY <1>1 DEF LineString
<1>3. Edges \subseteq 1..Len(lines) /\ Nodes \subseteq Nat
  BY <1>1, <1>2 DEF Edges, Nodes
<1>4. IsFiniteSet(Edges)
  <2>1. IsFiniteSet(1..Len(lines))
    BY <1>1, FS_Interval, SMT
  <2> QED
    BY <1>3, <2>1, FS_Subset
<1>5. ASSUME NEW de \in DirEdges
      PROVE  /\ edge(de) \in Edges /\ getEdgeDirection(de) \in BOOLEAN
             /\ de = <<edge(de), getEdgeDirection(de)>>
             /\ getSym(de) = <<edge(de), ~getEdgeDirection(de)>>
             /\ getSym(de) \in DirEdges /\ getSym(getSym(de)) = de
             /\ fromNode(de) \in Nodes /\ toNode(de) \in Nodes
             /\ toNode(de) = fromNode(getSym(de)) /\ fromNode(de) = toNode(getSym(de))
             /\ EndsOf(edge(de)) = {fromNode(de), toNode(de)}
  <2>1. PICK e \in Edges, b \in BOOLEAN : de = <<e, b>>
    BY DEF DirEdges
  <2>2. e \in DOMAIN lines
    BY DEF Edges
  <2>3. CASE b = TRUE
    BY <2>1, <2>2, <2>3 DEF edge, getEdgeDirection, getSym, fromNode, toNode, EndsOf, Nodes, DirEdges
  <2>4. CASE b = FALSE
    BY <2>1, <2>2, <2>4 DEF edge, getEdgeDirection, getSym, fromNode, toNode, EndsOf, Nodes, DirEdges
  <2> QED
    BY <2>3, <2>4
<1> QED
  BY <1>1, <1>3, <1>4, <1>5

\* An edge at n leads out of it one way or the other.
LEMMA EdgesAtNode ==
  ASSUME AreLines, NEW e \in Edges, NEW n \in EndsOf(e)
  PROVE  \E de \in outEdges(n) : edge(de) = e
<1>1. PICK b \in BOOLEAN : n = fromNode(<<e, b>>)
  BY DEF EndsOf, toNode, getSym
<1>2. <<e, b>> \in DirEdges /\ edge(<<e, b>>) = e
  BY DEF DirEdges, edge
<1> QED
  BY <1>1, <1>2 DEF outEdges

LEMMA EndsAreNodes ==
  ASSUME AreLines, NEW e \in Edges
  PROVE  EndsOf(e) \subseteq Nodes /\ EndsOf(e) # {} /\ <<e, TRUE>> \in DirEdges
<1>1. <<e, TRUE>> \in DirEdges /\ edge(<<e, TRUE>>) = e
  BY DEF DirEdges, edge
<1> QED
  BY <1>1, EndsOfEdges

(***************************************************************************)
(* Connected parts.                                                        *)
(***************************************************************************)
\* Connected(S, E) is about chains of any length: S is within, and so is what is at one of its nodes.
LEMMA ConnectedIsClosed ==
  ASSUME AreLines, NEW d \in Edges, NEW f \in Connected({d}, Edges), NEW g \in Edges,
         EndsOf(f) \cap EndsOf(g) # {}
  PROVE  g \in Connected({d}, Edges)
<1>1. SUFFICES ASSUME NEW N \in SUBSET Nodes, EndsOfAll({d}) \subseteq N, NoWayOut(N, Edges)
               PROVE  EndsOf(g) \subseteq N
  BY DEF Connected
<1>2. EndsOf(f) \subseteq N
  BY <1>1 DEF Connected
<1> QED
  BY <1>1, <1>2 DEF NoWayOut

LEMMA ConnectedIsReflexive ==
  ASSUME NEW d \in Edges
  PROVE  d \in Connected({d}, Edges) /\ Connected({d}, Edges) \subseteq Edges
BY DEF Connected, EndsOfAll

\* The other side of what no edge leads out of.
LEMMA OtherSide ==
  ASSUME AreLines, NEW N \in SUBSET Nodes, NoWayOut(N, Edges)
  PROVE  NoWayOut(Nodes \ N, Edges)
BY EndsAreNodes DEF NoWayOut

\* Each edge of a part leads to all of it.
LEMMA ConnectedIsSymmetric ==
  ASSUME AreLines, NEW d \in Edges, NEW g \in Connected({d}, Edges)
  PROVE  Connected({g}, Edges) = Connected({d}, Edges)
<1>1. g \in Edges /\ EndsOfAll({g}) = EndsOf(g) /\ EndsOfAll({d}) = EndsOf(d)
  BY DEF Connected, EndsOfAll
<1>2. ASSUME NEW N \in SUBSET Nodes, NoWayOut(N, Edges)
      PROVE  EndsOf(d) \subseteq N <=> EndsOf(g) \subseteq N
  <2>1. EndsOf(d) \subseteq N => EndsOf(g) \subseteq N
    BY <1>1, <1>2 DEF Connected
  <2>2. EndsOf(d) \cap N = {} => EndsOf(g) \subseteq Nodes \ N
    <3>1. NoWayOut(Nodes \ N, Edges) /\ EndsOf(d) \subseteq Nodes
      BY <1>2, OtherSide, EndsAreNodes
    <3> QED
      BY <1>1, <3>1 DEF Connected
  <2>3. EndsOf(d) \subseteq N \/ EndsOf(d) \cap N = {}
    BY <1>2 DEF NoWayOut
  <2> QED
    BY <1>1, <2>1, <2>2, <2>3, EndsAreNodes
<1> QED
  BY <1>1, <1>2 DEF Connected

\* Edges that meet are in the same part.
LEMMA PartsAreApart ==
  ASSUME AreLines, NEW A \in ConnectedSubgraphs, NEW B \in ConnectedSubgraphs,
         NEW f \in A, NEW g \in B, EndsOf(f) \cap EndsOf(g) # {}
  PROVE  A = B
<1>1. PICK a \in Edges, b \in Edges : A = Connected({a}, Edges) /\ B = Connected({b}, Edges)
  BY DEF ConnectedSubgraphs
<1>2. g \in Edges
  BY <1>1 DEF Connected
<1>3. g \in A
  BY <1>1, <1>2, ConnectedIsClosed
<1> QED
  BY <1>1, <1>3, ConnectedIsSymmetric

LEMMA PartsAreEdges ==
  ASSUME AreLines, NEW E \in ConnectedSubgraphs
  PROVE  /\ E \subseteq Edges /\ E # {}
         /\ \A f \in E : \A g \in Edges : EndsOf(f) \cap EndsOf(g) # {} => g \in E
<1>1. PICK d \in Edges : E = Connected({d}, Edges)
  BY DEF ConnectedSubgraphs
<1> QED
  BY <1>1, ConnectedIsReflexive, ConnectedIsClosed

\* Of a part that has an edge in X, and X all edges at the ends of its own, X has all.
LEMMA PartIsCovered ==
  ASSUME AreLines, NEW E \in ConnectedSubgraphs, NEW X \in SUBSET E, X # {},
         \A n \in EndsOfAll(X) : \A de \in outEdges(n) : edge(de) \in X
  PROVE  X = E
<1>1. PICK d \in Edges : E = Connected({d}, Edges)
  BY DEF ConnectedSubgraphs
<1>2. PICK x \in X : TRUE
  OBVIOUS
<1> DEFINE N == EndsOfAll(X)
<1>3. E \subseteq Edges
  BY <1>1, ConnectedIsReflexive
<1>4. \A e \in Edges : EndsOf(e) \cap N # {} => e \in X
  BY EdgesAtNode
<1>5. \A e \in X : EndsOf(e) \subseteq N
  BY DEF EndsOfAll
<1>6. N \in SUBSET Nodes
  BY <1>3, EndsAreNodes DEF EndsOfAll
<1>7. NoWayOut(N, Edges)
  BY <1>4, <1>5 DEF NoWayOut
<1> HIDE DEF N
<1>8. x \in Edges /\ E = Connected({x}, Edges) /\ EndsOfAll({x}) = EndsOf(x)
  BY <1>1, <1>2, <1>3, ConnectedIsSymmetric DEF EndsOfAll
<1>9. \A e \in E : EndsOf(e) \subseteq N
  BY <1>2, <1>5, <1>6, <1>7, <1>8 DEF Connected
<1>10. \A e \in E : e \in X
  BY <1>3, <1>4, <1>9, EndsAreNodes
<1> QED
  BY <1>10

------------------------------------------------------------------------------
\* Any set of numbers that is not empty has a least one.
LEMMA LeastElement ==
  ASSUME NEW T \in SUBSET Nat, T # {}
  PROVE  \E x \in T : \A y \in T : x <= y
<1> DEFINE Smaller == {ss \in Nat \X Nat : ss[1] < ss[2]}
<1>1. IsWellFoundedOn(Smaller, Nat)
  BY NatLessThanWellFounded, Zenon DEF OpToRel
<1>2. \E x \in T : \A y \in T : ~(<<y, x>> \in Smaller)
  <2> HIDE DEF Smaller
  <2> QED
    BY <1>1, WFMin, Zenon
<1>3. PICK x \in T : \A y \in T : ~(<<y, x>> \in Smaller)
  BY <1>2
<1>4. ASSUME NEW y \in T
      PROVE  x <= y
  <2>1. ~(y < x)
    BY <1>3
  <2> QED
    BY <2>1
<1> QED
  BY <1>4

(***************************************************************************)
(* The trail of a part while it is followed and on the way back.           *)
(***************************************************************************)
\* s uses each edge in used once, all of them of the part P.
InUse(P, s, used) ==
  /\ s \in Seq(P \X BOOLEAN) /\ Len(s) >= 1
  /\ \A i \in 1..Len(s) : edge(s[i]) \in used
  /\ \A e \in used : \E i \in 1..Len(s) : edge(s[i]) = e
  /\ \A i, j \in 1..Len(s) : edge(s[i]) = edge(s[j]) => i = j

Joined(s, i) == fromNode(s[i]) = toNode(s[i - 1])
UsedUp(n, used) == \A de \in outEdges(n) : edge(de) \in used

\* The trail has come to a, before place l; behind it s goes on at e.
OnTheWay(s, l, used, a, e) ==
  /\ l \in 2..(Len(s) + 1) /\ a = toNode(s[l - 1])
  /\ \A i \in 2..Len(s) : i # l => Joined(s, i)
  /\ e = NoNode => l = Len(s) + 1
  /\ e # NoNode => l <= Len(s) /\ e = fromNode(s[l]) /\ UsedUp(toNode(s[Len(s)]), used)
  /\ \A i \in (l + 1)..Len(s) : UsedUp(fromNode(s[i]), used)

\* s goes from edge to edge; nothing is left at its nodes from place l on.
OnTheWayBack(s, l, used) ==
  /\ l \in 1..(Len(s) + 1)
  /\ \A i \in 2..Len(s) : Joined(s, i)
  /\ \A i \in l..Len(s) : UsedUp(fromNode(s[i]), used)
  /\ UsedUp(toNode(s[Len(s)]), used)

\* t is s with d at place p, and what was there and behind it one further.
IsInserted(t, s, p, d) ==
  /\ Len(t) = Len(s) + 1 /\ t[p] = d
  /\ \A i \in 1..(p - 1) : t[i] = s[i]
  /\ \A i \in (p + 1)..(Len(s) + 1) : t[i] = s[i - 1]

LEMMA Inserted ==
  ASSUME NEW S, NEW s \in Seq(S), NEW p \in 1..(Len(s) + 1), NEW d \in S
  PROVE  InsertAt(s, p, d) \in Seq(S) /\ IsInserted(InsertAt(s, p, d), s, p, d)
<1> DEFINE A == SubSeq(s, 1, p - 1)
           B == SubSeq(s, p, Len(s))
<1>1. Len(s) \in Nat /\ p \in Nat
  OBVIOUS
<1>2. A \in Seq(S) /\ Len(A) = p - 1 /\ \A i \in 1..(p - 1) : A[i] = s[i]
  BY <1>1
<1>3. B \in Seq(S) /\ Len(B) = Len(s) - p + 1 /\ \A i \in 1..(Len(s) - p + 1) : B[i] = s[p + i - 1]
  BY <1>1
<1>4. InsertAt(s, p, d) = (A \o <<d>>) \o B
  BY DEF InsertAt
<1> HIDE DEF A, B
<1> DEFINE C == A \o <<d>>
<1>5. C \in Seq(S) /\ Len(C) = p /\ C[p] = d /\ \A i \in 1..(p - 1) : C[i] = s[i]
  BY <1>1, <1>2
<1> HIDE DEF C
<1>6. /\ C \o B \in Seq(S) /\ Len(C \o B) = Len(s) + 1
      /\ \A i \in 1..p : (C \o B)[i] = C[i]
      /\ \A i \in (p + 1)..(Len(s) + 1) : (C \o B)[i] = B[i - p]
  BY <1>1, <1>3, <1>5
<1>7. \A i \in (p + 1)..(Len(s) + 1) : i - p \in 1..(Len(s) - p + 1) /\ p + (i - p) - 1 = i - 1
  BY <1>1
<1>8. InsertAt(s, p, d) = C \o B
  BY <1>4 DEF C
<1>9. /\ C \o B \in Seq(S) /\ Len(C \o B) = Len(s) + 1
      /\ (C \o B)[p] = d
      /\ \A i \in 1..(p - 1) : (C \o B)[i] = s[i]
  BY <1>1, <1>5, <1>6
<1>10. \A i \in (p + 1)..(Len(s) + 1) : (C \o B)[i] = s[i - 1]
  BY <1>3, <1>6, <1>7
<1> QED
  BY <1>8, <1>9, <1>10 DEF IsInserted

LEMMA InUseMore ==
  ASSUME NEW P, NEW s, NEW used, InUse(P, s, used), NEW p \in 1..(Len(s) + 1),
         NEW d \in P \X BOOLEAN, edge(d) \notin used
  PROVE  InUse(P, InsertAt(s, p, d), used \cup {edge(d)})
<1> DEFINE S == P \X BOOLEAN
           t == InsertAt(s, p, d)
<1>1. s \in Seq(S) /\ d \in S /\ Len(s) \in Nat /\ Len(s) >= 1 /\ p \in Nat
  BY DEF InUse
<1>2. /\ t \in Seq(S) /\ Len(t) = Len(s) + 1
      /\ t[p] = d
      /\ \A i \in 1..(p - 1) : t[i] = s[i]
      /\ \A i \in (p + 1)..(Len(s) + 1) : t[i] = s[i - 1]
  <2> HIDE DEF S
  <2>1. t \in Seq(S) /\ IsInserted(t, s, p, d)
    BY <1>1, Inserted
  <2> QED
    BY <2>1 DEF IsInserted
<1> HIDE DEF t
<1>3. /\ \A i \in 1..Len(s) : edge(s[i]) \in used
      /\ \A e \in used : \E i \in 1..Len(s) : edge(s[i]) = e
      /\ \A i, j \in 1..Len(s) : edge(s[i]) = edge(s[j]) => i = j
  BY DEF InUse
<1> DEFINE was(i) == IF i < p THEN i ELSE i - 1
<1>4. \A i \in 1..Len(t) : i # p => was(i) \in 1..Len(s) /\ t[i] = s[was(i)]
  <2> HIDE DEF S
  <2> SUFFICES ASSUME NEW i \in 1..Len(t), i # p
               PROVE  was(i) \in 1..Len(s) /\ t[i] = s[was(i)]
    OBVIOUS
  <2>1. CASE i < p
    <3>1. i \in 1..(p - 1) /\ was(i) = i /\ i \in 1..Len(s)
      BY <1>1, <1>2, <2>1
    <3> QED
      BY <1>2, <3>1
  <2>2. CASE i > p
    <3>1. i \in (p + 1)..(Len(s) + 1) /\ was(i) = i - 1 /\ i - 1 \in 1..Len(s)
      BY <1>1, <1>2, <2>2
    <3> QED
      BY <1>2, <3>1
  <2> QED
    BY <1>1, <2>1, <2>2
<1>5. \A i \in 1..Len(t) : edge(t[i]) \in used \cup {edge(d)}
  BY <1>2, <1>3, <1>4
<1>6. \A i, j \in 1..Len(t) : edge(t[i]) = edge(t[j]) => i = j
  <2> SUFFICES ASSUME NEW i \in 1..Len(t), NEW j \in 1..Len(t), edge(t[i]) = edge(t[j])
               PROVE  i = j
    OBVIOUS
  <2>1. CASE i # p /\ j # p
    <3>1. /\ was(i) \in 1..Len(s) /\ t[i] = s[was(i)]
          /\ was(j) \in 1..Len(s) /\ t[j] = s[was(j)]
      BY <1>4, <2>1
    <3>2. was(i) = was(j)
      <4> HIDE DEF was
      <4> QED
        BY <1>3, <3>1
    <3> QED
      BY <1>1, <1>2, <2>1, <3>2
  <2>2. CASE i = p \/ j = p
    <3>1. \A k \in 1..Len(t) : k # p => edge(t[k]) # edge(d)
      <4> HIDE DEF was
      <4> QED
        BY <1>3, <1>4
    <3> QED
      BY <1>2, <2>2, <3>1
  <2> QED
    BY <2>1, <2>2
<1>7. \A e \in used \cup {edge(d)} : \E i \in 1..Len(t) : edge(t[i]) = e
  <2>1. ASSUME NEW e \in used
        PROVE  \E i \in 1..Len(t) : edge(t[i]) = e
    <3>1. PICK i \in 1..Len(s) : edge(s[i]) = e
      BY <1>3
    <3>2. CASE i < p
      <4>1. i \in 1..(p - 1) /\ i \in 1..Len(t)
        BY <1>1, <1>2, <3>2
      <4> QED
        BY <1>2, <3>1, <4>1
    <3>3. CASE ~(i < p)
      <4>1. i + 1 \in (p + 1)..(Len(s) + 1) /\ i + 1 \in 1..Len(t) /\ (i + 1) - 1 = i
        BY <1>1, <1>2, <3>3
      <4> QED
        BY <1>2, <3>1, <4>1
    <3> QED
      BY <3>2, <3>3
  <2>2. p \in 1..Len(t)
    BY <1>1, <1>2
  <2> QED
    BY <1>2, <2>1, <2>2
<1>8. InUse(P, t, used \cup {edge(d)})
  BY <1>1, <1>2, <1>5, <1>6, <1>7 DEF InUse
<1> QED
  BY <1>8 DEF t

LEMMA UsedUpMore ==
  ASSUME NEW n, NEW used, NEW more, UsedUp(n, used)
  PROVE  UsedUp(n, used \cup more)
BY DEF UsedUp

\* Extend: the trail goes one edge further.
LEMMA Extended ==
  ASSUME AreLines, NEW P \in SUBSET Edges, NEW s, NEW used, InUse(P, s, used), NEW l, NEW a, NEW e,
         OnTheWay(s, l, used, a, e), NEW d \in P \X BOOLEAN, edge(d) \notin used, fromNode(d) = a
  PROVE  OnTheWay(InsertAt(s, l, d), l + 1, used \cup {edge(d)}, toNode(d), e)
<1> DEFINE t == InsertAt(s, l, d)
<1>1. /\ s \in Seq(P \X BOOLEAN) /\ Len(s) \in Nat /\ Len(s) >= 1 /\ l \in Nat /\ l \in 1..(Len(s) + 1)
      /\ l >= 2 /\ l <= Len(s) + 1 /\ a = toNode(s[l - 1])
  BY DEF InUse, OnTheWay
<1>2. /\ t \in Seq(P \X BOOLEAN) /\ Len(t) = Len(s) + 1
      /\ t[l] = d
      /\ \A i \in 1..(l - 1) : t[i] = s[i]
      /\ \A i \in (l + 1)..(Len(s) + 1) : t[i] = s[i - 1]
  <2> DEFINE S == P \X BOOLEAN
  <2>1. s \in Seq(S) /\ d \in S
    BY <1>1
  <2> HIDE DEF S
  <2>2. t \in Seq(S) /\ IsInserted(t, s, l, d)
    BY <1>1, <2>1, Inserted
  <2> QED
    BY <2>2 DEF S, IsInserted
<1> HIDE DEF t
<1>3. \A i \in 2..Len(t) : i # l + 1 => Joined(t, i)
  <2> SUFFICES ASSUME NEW i \in 2..Len(t), i # l + 1
               PROVE  fromNode(t[i]) = toNode(t[i - 1])
    BY DEF Joined
  <2>1. CASE i = l
    <3>1. t[i - 1] = s[l - 1]
      BY <1>1, <1>2, <2>1
    <3> QED
      BY <1>1, <1>2, <2>1, <3>1
  <2>2. CASE i < l
    <3>1. t[i] = s[i] /\ t[i - 1] = s[i - 1] /\ i \in 2..Len(s) /\ i # l
      <4>1. i \in 1..(l - 1) /\ i - 1 \in 1..(l - 1) /\ i \in 2..Len(s) /\ i # l
        BY <1>1, <1>2, <2>2
      <4> QED
        BY <1>2, <4>1
    <3>2. Joined(s, i)
      BY <3>1 DEF OnTheWay
    <3> QED
      BY <3>1, <3>2 DEF Joined
  <2>3. CASE i > l + 1
    <3>1. t[i] = s[i - 1] /\ t[i - 1] = s[(i - 1) - 1] /\ i - 1 \in 2..Len(s) /\ i - 1 # l
      <4>1. /\ i \in (l + 1)..(Len(s) + 1) /\ i - 1 \in (l + 1)..(Len(s) + 1)
            /\ i - 1 \in 2..Len(s) /\ i - 1 # l
        BY <1>1, <1>2, <2>3
      <4> QED
        BY <1>2, <4>1
    <3>2. Joined(s, i - 1)
      BY <3>1 DEF OnTheWay
    <3> QED
      BY <3>1, <3>2 DEF Joined
  <2> QED
    BY <1>1, <1>2, <2>1, <2>2, <2>3
<1>4. e = NoNode => l + 1 = Len(t) + 1
  BY <1>2 DEF OnTheWay
<1>5. e # NoNode => /\ l + 1 <= Len(t) /\ e = fromNode(t[l + 1])
                    /\ UsedUp(toNode(t[Len(t)]), used \cup {edge(d)})
  <2> SUFFICES ASSUME e # NoNode
               PROVE  /\ l + 1 <= Len(t) /\ e = fromNode(t[l + 1])
                      /\ UsedUp(toNode(t[Len(t)]), used \cup {edge(d)})
    OBVIOUS
  <2>1. l <= Len(s) /\ e = fromNode(s[l]) /\ UsedUp(toNode(s[Len(s)]), used)
    BY DEF OnTheWay
  <2>2. t[l + 1] = s[l] /\ t[Len(t)] = s[Len(s)]
    <3>1. /\ l + 1 \in (l + 1)..(Len(s) + 1) /\ (l + 1) - 1 = l
          /\ Len(t) \in (l + 1)..(Len(s) + 1) /\ Len(t) - 1 = Len(s)
      BY <1>1, <1>2, <2>1
    <3> QED
      BY <1>2, <3>1
  <2>3. UsedUp(toNode(s[Len(s)]), used \cup {edge(d)})
    BY <2>1, UsedUpMore
  <2> QED
    BY <1>1, <1>2, <2>1, <2>2, <2>3
<1>6. \A i \in (l + 2)..Len(t) : UsedUp(fromNode(t[i]), used \cup {edge(d)})
  <2> SUFFICES ASSUME NEW i \in (l + 2)..Len(t)
               PROVE  UsedUp(fromNode(t[i]), used \cup {edge(d)})
    OBVIOUS
  <2>1. t[i] = s[i - 1] /\ i - 1 \in (l + 1)..Len(s)
    BY <1>1, <1>2
  <2>2. UsedUp(fromNode(s[i - 1]), used)
    BY <2>1 DEF OnTheWay
  <2> QED
    BY <2>1, <2>2, UsedUpMore
<1>7. /\ l + 1 \in 2..(Len(t) + 1) /\ toNode(d) = toNode(t[(l + 1) - 1]) /\ (l + 1) + 1 = l + 2
  BY <1>1, <1>2
<1>8. OnTheWay(t, l + 1, used \cup {edge(d)}, toNode(d), e)
  BY <1>3, <1>4, <1>5, <1>6, <1>7 DEF OnTheWay
<1> QED
  BY <1>8 DEF t

\* StartPart: the first edge.
LEMMA Started ==
  ASSUME NEW P, NEW d \in P \X BOOLEAN
  PROVE  InUse(P, <<d>>, {edge(d)}) /\ OnTheWay(<<d>>, 2, {edge(d)}, toNode(d), NoNode)
<1>1. <<d>> \in Seq(P \X BOOLEAN) /\ Len(<<d>>) = 1 /\ <<d>>[1] = d
  OBVIOUS
<1> DEFINE s == <<d>>
<1> HIDE DEF s
<1>2. s \in Seq(P \X BOOLEAN) /\ Len(s) = 1 /\ s[1] = d
  BY <1>1 DEF s
<1>3. InUse(P, s, {edge(d)})
  BY <1>2 DEF InUse
<1>4. OnTheWay(s, 2, {edge(d)}, toNode(d), NoNode)
  BY <1>2 DEF OnTheWay
<1> QED
  BY <1>3, <1>4 DEF s

\* EndTrail: the trail has come to where it has to, and nothing is left there.
LEMMA TrailEnded ==
  ASSUME NEW P, NEW s, NEW used, InUse(P, s, used), NEW l, NEW a, NEW e,
         OnTheWay(s, l, used, a, e), UsedUp(a, used), e \in {NoNode, a}
  PROVE  OnTheWayBack(s, l, used)
<1>1. /\ Len(s) \in Nat /\ Len(s) >= 1 /\ l \in Nat
      /\ l >= 2 /\ l <= Len(s) + 1 /\ a = toNode(s[l - 1])
      /\ \A i \in 2..Len(s) : i # l => Joined(s, i)
      /\ \A i \in (l + 1)..Len(s) : UsedUp(fromNode(s[i]), used)
  BY DEF InUse, OnTheWay
<1>2. CASE e = NoNode
  <2>1. l = Len(s) + 1
    BY <1>2 DEF OnTheWay
  <2> QED
    BY <1>1, <2>1 DEF OnTheWayBack
<1>3. CASE e # NoNode
  <2>1. l <= Len(s) /\ a = fromNode(s[l]) /\ UsedUp(toNode(s[Len(s)]), used)
    BY <1>3 DEF OnTheWay
  <2>2. \A i \in l..Len(s) : UsedUp(fromNode(s[i]), used)
    BY <1>1, <2>1
  <2>3. \A i \in 2..Len(s) : Joined(s, i)
    BY <1>1, <2>1 DEF Joined
  <2> QED
    BY <1>1, <2>1, <2>2, <2>3 DEF OnTheWayBack
<1> QED
  BY <1>2, <1>3

\* StepBack: nothing is left at the node before.
LEMMA SteppedBack ==
  ASSUME NEW P, NEW s, NEW used, InUse(P, s, used), NEW l, OnTheWayBack(s, l, used), l > 1,
         UsedUp(fromNode(s[l - 1]), used)
  PROVE  OnTheWayBack(s, l - 1, used)
<1>1. Len(s) \in Nat /\ l \in Nat /\ l <= Len(s) + 1
  BY DEF InUse, OnTheWayBack
<1>2. \A i \in (l - 1)..Len(s) : i = l - 1 \/ i \in l..Len(s)
  BY <1>1
<1>3. \A i \in (l - 1)..Len(s) : UsedUp(fromNode(s[i]), used)
  BY <1>2 DEF OnTheWayBack
<1>4. l - 1 \in 1..(Len(s) + 1)
  BY <1>1
<1> QED
  BY <1>3, <1>4 DEF OnTheWayBack

\* StartDetour: before the edge it leaves from, to which it has to come back.
LEMMA Detoured ==
  ASSUME AreLines, NEW P \in SUBSET Edges, NEW s, NEW used, InUse(P, s, used), NEW l,
         OnTheWayBack(s, l, used), l > 1,
         NEW d \in P \X BOOLEAN, edge(d) \notin used, fromNode(d) = fromNode(s[l - 1])
  PROVE  OnTheWay(InsertAt(s, l - 1, d), l, used \cup {edge(d)}, toNode(d), fromNode(d))
<1> DEFINE t == InsertAt(s, l - 1, d)
<1>1. /\ s \in Seq(P \X BOOLEAN) /\ Len(s) \in Nat /\ Len(s) >= 1 /\ l \in Nat /\ l <= Len(s) + 1
      /\ l - 1 \in 1..(Len(s) + 1) /\ l - 1 \in Nat
  BY DEF InUse, OnTheWayBack
<1>2. /\ t \in Seq(P \X BOOLEAN) /\ Len(t) = Len(s) + 1
      /\ t[l - 1] = d
      /\ \A i \in 1..((l - 1) - 1) : t[i] = s[i]
      /\ \A i \in ((l - 1) + 1)..(Len(s) + 1) : t[i] = s[i - 1]
  <2> DEFINE S == P \X BOOLEAN
  <2>1. s \in Seq(S) /\ d \in S
    BY <1>1
  <2> HIDE DEF S
  <2>2. t \in Seq(S) /\ IsInserted(t, s, l - 1, d)
    BY <1>1, <2>1, Inserted
  <2> QED
    BY <2>2 DEF S, IsInserted
<1> HIDE DEF t
<1>3. fromNode(d) # NoNode
  <2>1. d \in DirEdges
    BY DEF DirEdges
  <2> QED
    BY <2>1, EndsOfEdges DEF NoNode
<1>4. \A i \in 2..Len(t) : i # l => Joined(t, i)
  <2> SUFFICES ASSUME NEW i \in 2..Len(t), i # l
               PROVE  fromNode(t[i]) = toNode(t[i - 1])
    BY DEF Joined
  <2>1. CASE i = l - 1
    <3>1. t[i - 1] = s[i - 1] /\ i \in 2..Len(s)
      BY <1>1, <1>2, <2>1
    <3>2. fromNode(s[i]) = toNode(s[i - 1])
      BY <3>1 DEF OnTheWayBack, Joined
    <3> QED
      BY <1>2, <2>1, <3>1, <3>2
  <2>2. CASE i < l - 1
    <3>1. t[i] = s[i] /\ t[i - 1] = s[i - 1] /\ i \in 2..Len(s)
      BY <1>1, <1>2, <2>2
    <3> QED
      BY <3>1 DEF OnTheWayBack, Joined
  <2>3. CASE i > l
    <3>1. t[i] = s[i - 1] /\ t[i - 1] = s[(i - 1) - 1] /\ i - 1 \in 2..Len(s)
      BY <1>1, <1>2, <2>3
    <3> QED
      BY <3>1 DEF OnTheWayBack, Joined
  <2> QED
    BY <1>1, <1>2, <2>1, <2>2, <2>3
<1>5. l <= Len(t) /\ fromNode(d) = fromNode(t[l]) /\ UsedUp(toNode(t[Len(t)]), used \cup {edge(d)})
  <2>1. l <= Len(t) /\ t[l] = s[l - 1] /\ t[Len(t)] = s[Len(s)]
    <3>1. /\ l \in ((l - 1) + 1)..(Len(s) + 1) /\ l <= Len(t)
          /\ Len(t) \in ((l - 1) + 1)..(Len(s) + 1) /\ Len(t) - 1 = Len(s)
      BY <1>1, <1>2
    <3> QED
      BY <1>2, <3>1
  <2>2. UsedUp(toNode(s[Len(s)]), used)
    BY DEF OnTheWayBack
  <2> QED
    BY <2>1, <2>2, UsedUpMore
<1>6. \A i \in (l + 1)..Len(t) : UsedUp(fromNode(t[i]), used \cup {edge(d)})
  <2> SUFFICES ASSUME NEW i \in (l + 1)..Len(t)
               PROVE  UsedUp(fromNode(t[i]), used \cup {edge(d)})
    OBVIOUS
  <2>1. t[i] = s[i - 1] /\ i - 1 \in l..Len(s)
    BY <1>1, <1>2
  <2>2. UsedUp(fromNode(s[i - 1]), used)
    BY <2>1 DEF OnTheWayBack
  <2> QED
    BY <2>1, <2>2, UsedUpMore
<1>7. l \in 2..(Len(t) + 1) /\ toNode(d) = toNode(t[l - 1])
  BY <1>1, <1>2
<1>8. OnTheWay(t, l, used \cup {edge(d)}, toNode(d), fromNode(d))
  BY <1>3, <1>4, <1>5, <1>6, <1>7 DEF OnTheWay
<1> QED
  BY <1>8 DEF t

(***************************************************************************)
(* A finished trail, and the way it is turned.                             *)
(***************************************************************************)
LEMMA OutEdgesOfNode ==
  ASSUME AreLines, NEW n
  PROVE  /\ IsFiniteSet(outEdges(n)) /\ getDegree(n) \in Nat
         /\ isEnd(n) => \A c, d \in outEdges(n) : c = d
<1>1. IsFiniteSet(Edges)
  BY EndsOfEdges
<1>2. IsFiniteSet(BOOLEAN)
  <2>1. BOOLEAN = {TRUE, FALSE}
    OBVIOUS
  <2>2. IsFiniteSet({TRUE}) /\ IsFiniteSet({FALSE})
    BY FS_Singleton
  <2>3. {TRUE, FALSE} = {TRUE} \cup {FALSE}
    OBVIOUS
  <2> QED
    BY <2>1, <2>2, <2>3, FS_Union
<1>3. IsFiniteSet(DirEdges)
  BY <1>1, <1>2, FS_Product DEF DirEdges
<1>4. outEdges(n) \subseteq DirEdges
  BY DEF outEdges
<1>5. IsFiniteSet(outEdges(n))
  BY <1>3, <1>4, FS_Subset
<1>6. getDegree(n) \in Nat
  BY <1>5, FS_CardinalityType DEF getDegree
<1>7. ASSUME isEnd(n)
      PROVE  \A c, d \in outEdges(n) : c = d
  <2>1. PICK x : outEdges(n) = {x}
    BY <1>5, <1>7, FS_Singleton DEF isEnd, getDegree
  <2> QED
    BY <2>1
<1> QED
  BY <1>5, <1>6, <1>7

\* Each place of a trail: a directed edge of the part.
LEMMA PlacesOfTrail ==
  ASSUME AreLines, NEW P \in SUBSET Edges, NEW s, NEW used, InUse(P, s, used)
  PROVE  /\ Len(s) \in Nat /\ Len(s) >= 1 /\ DOMAIN s = 1..Len(s)
         /\ \A i \in 1..Len(s) :
              /\ s[i] \in DirEdges /\ edge(s[i]) \in P /\ edge(s[i]) \in used
              /\ s[i] \in outEdges(fromNode(s[i])) /\ getSym(s[i]) \in outEdges(toNode(s[i]))
              /\ s[i] = <<edge(s[i]), getEdgeDirection(s[i])>> /\ edge(getSym(s[i])) = edge(s[i])
<1>1. s \in Seq(P \X BOOLEAN) /\ Len(s) >= 1 /\ \A i \in 1..Len(s) : edge(s[i]) \in used
  BY DEF InUse
<1>2. Len(s) \in Nat /\ DOMAIN s = 1..Len(s) /\ \A i \in 1..Len(s) : s[i] \in P \X BOOLEAN
  BY <1>1
<1>3. ASSUME NEW d \in P \X BOOLEAN
      PROVE  /\ d \in DirEdges /\ edge(d) \in P
             /\ d \in outEdges(fromNode(d)) /\ getSym(d) \in outEdges(toNode(d))
             /\ d = <<edge(d), getEdgeDirection(d)>> /\ edge(getSym(d)) = edge(d)
  <2>1. d \in DirEdges /\ edge(d) \in P /\ edge(getSym(d)) = edge(d)
    BY DEF DirEdges, edge, getSym
  <2> QED
    BY <2>1, EndsOfEdges DEF outEdges
<1> QED
  BY <1>1, <1>2, <1>3

\* A node of one edge is where a trail starts or ends.
LEMMA EndsOfTrail ==
  ASSUME AreLines, NEW P \in SUBSET Edges, NEW s, NEW used, InUse(P, s, used),
         \A i \in 2..Len(s) : Joined(s, i), NEW i \in 1..Len(s)
  PROVE  /\ isEnd(fromNode(s[i])) => i = 1
         /\ isEnd(toNode(s[i])) => i = Len(s)
<1>1. /\ Len(s) \in Nat /\ Len(s) >= 1 /\ DOMAIN s = 1..Len(s)
      /\ \A k \in 1..Len(s) :
              /\ s[k] \in DirEdges /\ edge(s[k]) \in P /\ edge(s[k]) \in used
              /\ s[k] \in outEdges(fromNode(s[k])) /\ getSym(s[k]) \in outEdges(toNode(s[k]))
              /\ s[k] = <<edge(s[k]), getEdgeDirection(s[k])>> /\ edge(getSym(s[k])) = edge(s[k])
  BY PlacesOfTrail
<1>2. ASSUME NEW k \in 2..Len(s)
      PROVE  ~isEnd(fromNode(s[k])) /\ ~isEnd(toNode(s[k - 1]))
  <2>1. k \in 1..Len(s) /\ k - 1 \in 1..Len(s) /\ k # k - 1
    BY <1>1
  <2>2. edge(s[k]) # edge(s[k - 1])
    BY <2>1 DEF InUse
  <2>3. s[k] # getSym(s[k - 1])
    BY <1>1, <2>1, <2>2
  <2>4. fromNode(s[k]) = toNode(s[k - 1])
    BY DEF Joined
  <2> QED
    BY <1>1, <2>1, <2>3, <2>4, OutEdgesOfNode
<1>3. i # 1 => i \in 2..Len(s)
  BY <1>1
<1>4. i # Len(s) => i + 1 \in 2..Len(s) /\ (i + 1) - 1 = i
  <2>1. i \in Nat /\ i >= 1 /\ i <= Len(s)
    BY <1>1
  <2>2. Len(s) \in Nat
    BY <1>1
  <2> QED
    BY <2>1, <2>2
<1> QED
  BY <1>2, <1>3, <1>4

LEMMA TrailReversed ==
  ASSUME AreLines, NEW P \in SUBSET Edges, NEW s, NEW used, InUse(P, s, used),
         \A i \in 2..Len(s) : Joined(s, i)
  PROVE  /\ InUse(P, reverse(s), used) /\ \A i \in 2..Len(reverse(s)) : Joined(reverse(s), i)
         /\ Len(reverse(s)) = Len(s)
         /\ \A i \in 1..Len(s) : reverse(s)[i] = getSym(s[Len(s) + 1 - i])
<1> DEFINE r == reverse(s)
           n == Len(s)
<1>1. /\ n \in Nat /\ n >= 1 /\ DOMAIN s = 1..n
      /\ \A k \in 1..n :
              /\ s[k] \in DirEdges /\ edge(s[k]) \in P /\ edge(s[k]) \in used
              /\ edge(getSym(s[k])) = edge(s[k])
  BY PlacesOfTrail
<1>2. /\ \A k \in 1..n : getSym(s[k]) \in P \X BOOLEAN /\ fromNode(getSym(s[k])) = toNode(s[k])
                         /\ toNode(getSym(s[k])) = fromNode(s[k])
  <2> SUFFICES ASSUME NEW k \in 1..n
               PROVE  getSym(s[k]) \in P \X BOOLEAN /\ fromNode(getSym(s[k])) = toNode(s[k])
                      /\ toNode(getSym(s[k])) = fromNode(s[k])
    OBVIOUS
  <2>1. /\ s[k] \in DirEdges /\ edge(s[k]) \in P
    BY <1>1
  <2>2. /\ getSym(s[k]) = <<edge(s[k]), ~getEdgeDirection(s[k])>>
        /\ fromNode(getSym(s[k])) = toNode(s[k]) /\ toNode(getSym(s[k])) = fromNode(s[k])
        /\ getEdgeDirection(s[k]) \in BOOLEAN
    BY <2>1, EndsOfEdges
  <2>3. (~getEdgeDirection(s[k])) \in BOOLEAN
    OBVIOUS
  <2>4. \A e \in P, b \in BOOLEAN : <<e, b>> \in P \X BOOLEAN
    OBVIOUS
  <2> QED
    BY <2>1, <2>2, <2>3, <2>4, Zenon
<1>3. \A i \in 1..n : n + 1 - i \in 1..n
  BY <1>1
<1>4. r \in [1..n -> P \X BOOLEAN] /\ \A i \in 1..n : r[i] = getSym(s[n + 1 - i])
  BY <1>1, <1>2, <1>3 DEF reverse
<1>5. r \in Seq(P \X BOOLEAN) /\ Len(r) = n
  <2> HIDE DEF r
  <2> QED
    BY <1>1, <1>4
<1> HIDE DEF r, n
<1>6. \A i \in 1..n : edge(r[i]) = edge(s[n + 1 - i])
  BY <1>1, <1>3, <1>4
<1>7. InUse(P, r, used)
  <2>1. \A i \in 1..n : edge(r[i]) \in used
    BY <1>1, <1>3, <1>6
  <2>2. ASSUME NEW e \in used
        PROVE  \E i \in 1..n : edge(r[i]) = e
    <3>1. PICK k \in 1..n : edge(s[k]) = e
      BY DEF InUse, n
    <3>2. n + 1 - (n + 1 - k) = k
      BY <1>1
    <3> QED
      BY <1>3, <1>6, <3>1, <3>2
  <2>3. ASSUME NEW i \in 1..n, NEW j \in 1..n, edge(r[i]) = edge(r[j])
        PROVE  i = j
    <3>1. \A k, m \in 1..n : edge(s[k]) = edge(s[m]) => k = m
      BY DEF InUse, n
    <3>2. n + 1 - i = n + 1 - j
      <4>1. n + 1 - i \in 1..n /\ n + 1 - j \in 1..n
        BY <1>3
      <4>2. edge(s[n + 1 - i]) = edge(s[n + 1 - j])
        BY <1>6, <2>3
      <4> QED
        BY <3>1, <4>1, <4>2
    <3> QED
      BY <1>1, <3>2
  <2> QED
    BY <1>1, <1>5, <2>1, <2>2, <2>3 DEF InUse
<1>8. ASSUME NEW i \in 2..n
      PROVE  Joined(r, i)
  <2> DEFINE k == n + 1 - (i - 1)
  <2>1. k \in 2..n /\ k - 1 = n + 1 - i /\ i - 1 \in 1..n /\ i \in 1..n /\ k \in 1..n /\ k - 1 \in 1..n
    BY <1>1
  <2>2. fromNode(s[k]) = toNode(s[k - 1])
    BY <2>1 DEF Joined, n
  <2>3. r[i] = getSym(s[k - 1]) /\ r[i - 1] = getSym(s[k])
    BY <1>4, <2>1
  <2> QED
    BY <1>2, <2>1, <2>2, <2>3 DEF Joined
<1> QED
  BY <1>4, <1>5, <1>7, <1>8 DEF r, n

\* A trail of all edges of P has as many places as P has edges.
LEMMA UsesAll ==
  ASSUME NEW P, NEW s, InUse(P, s, P)
  PROVE  {edge(s[i]) : i \in DOMAIN s} = P /\ Len(s) = Cardinality(P)
<1> DEFINE n == Len(s)
           f == [i \in 1..n |-> edge(s[i])]
<1>1. n \in Nat /\ DOMAIN s = 1..n
  BY DEF InUse
<1>2. /\ \A i \in 1..n : edge(s[i]) \in P
      /\ \A e \in P : \E i \in 1..n : edge(s[i]) = e
      /\ \A i, j \in 1..n : edge(s[i]) = edge(s[j]) => i = j
  BY DEF InUse
<1>3. {edge(s[i]) : i \in DOMAIN s} = P
  BY <1>1, <1>2
<1> HIDE DEF n
<1>4. f \in Bijection(1..n, P)
  BY <1>2, Zenon DEF Bijection, Injection, Surjection, IsInjective
<1>5. IsFiniteSet(1..n) /\ Cardinality(1..n) = n
  BY <1>1, FS_Interval
<1>6. Cardinality(P) = n
  BY <1>4, <1>5, FS_Bijection DEF ExistsBijection
<1> QED
  BY <1>3, <1>6 DEF n

\* orient(): a trail over all edges of P that is turned when flipSeq says so.
LEMMA Oriented ==
  ASSUME AreLines, NEW P \in SUBSET Edges, NEW s, InUse(P, s, P),
         \A i \in 2..Len(s) : Joined(s, i)
  PROVE  IsTrailOver(IF flipSeq(s) THEN reverse(s) ELSE s, P)
<1> DEFINE n == Len(s)
           r == reverse(s)
           first == s[1]
           last == s[n]
<1>1. /\ n \in Nat /\ n >= 1 /\ 1 \in 1..n /\ n \in 1..n
      /\ \A k \in 1..n :
              /\ s[k] \in DirEdges /\ edge(s[k]) \in P
              /\ s[k] \in outEdges(fromNode(s[k])) /\ getSym(s[k]) \in outEdges(toNode(s[k]))
              /\ s[k] = <<edge(s[k]), getEdgeDirection(s[k])>>
              /\ getEdgeDirection(s[k]) \in BOOLEAN
              /\ getSym(s[k]) = <<edge(s[k]), ~getEdgeDirection(s[k])>>
              /\ toNode(s[k]) = fromNode(getSym(s[k])) /\ fromNode(s[k]) = toNode(getSym(s[k]))
  <2>1. /\ n \in Nat /\ n >= 1
        /\ \A k \in 1..n :
              /\ s[k] \in DirEdges /\ edge(s[k]) \in P
              /\ s[k] \in outEdges(fromNode(s[k])) /\ getSym(s[k]) \in outEdges(toNode(s[k]))
    BY PlacesOfTrail
  <2>2. \A d \in DirEdges :
          /\ d = <<edge(d), getEdgeDirection(d)>>
          /\ getEdgeDirection(d) \in BOOLEAN
          /\ getSym(d) = <<edge(d), ~getEdgeDirection(d)>>
          /\ toNode(d) = fromNode(getSym(d)) /\ fromNode(d) = toNode(getSym(d))
    BY EndsOfEdges
  <2> HIDE DEF n
  <2> QED
    BY <2>1, <2>2
<1>2. \A k \in 1..n : /\ isEnd(fromNode(s[k])) => k = 1
                      /\ isEnd(toNode(s[k])) => k = n
  BY EndsOfTrail
<1>3. \A e \in P : \E k \in 1..n : edge(s[k]) = e
  BY DEF InUse
<1>4. /\ InUse(P, r, P) /\ \A i \in 2..Len(r) : Joined(r, i)
      /\ Len(r) = n /\ \A i \in 1..n : r[i] = getSym(s[n + 1 - i])
  BY TrailReversed
<1>5. r[1] = getSym(last) /\ r[n] = getSym(first)
  <2>1. n + 1 - 1 = n /\ n + 1 - n = 1
    BY <1>1
  <2> QED
    BY <1>1, <1>4, <2>1
<1>6. /\ flipSeq(s) \in BOOLEAN
      /\ flipSeq(s) <=> /\ ~(isEnd(fromNode(first)) /\ getEdgeDirection(first))
                        /\ \/ isEnd(toNode(last)) /\ ~getEdgeDirection(last)
                           \/ isEnd(fromNode(first))
  BY DEF flipSeq, isEnd
<1>7. ASSUME NEW de \in P \X {TRUE}, isEnd(fromNode(de))
      PROVE  \/ isEnd(fromNode(first)) /\ getEdgeDirection(first) = TRUE
             \/ isEnd(toNode(last)) /\ getEdgeDirection(last) = FALSE
  <2>1. de = <<edge(de), TRUE>> /\ edge(de) \in P
    <3>1. \A S : \A c \in P \X S : c = <<c[1], c[2]>> /\ c[1] \in P /\ c[2] \in S
      OBVIOUS
    <3>2. de = <<de[1], de[2]>> /\ de[1] \in P /\ de[2] \in {TRUE}
      BY <3>1, Zenon
    <3> QED
      BY <3>2 DEF edge
  <2>2. PICK k \in 1..n : edge(s[k]) = edge(de)
    BY <1>3, <2>1
  <2>3. CASE getEdgeDirection(s[k]) = TRUE
    <3>1. s[k] = de
      BY <1>1, <2>1, <2>2, <2>3
    <3> QED
      BY <1>2, <1>7, <2>3, <3>1
  <2>4. CASE getEdgeDirection(s[k]) = FALSE
    <3>1. getSym(s[k]) = de
      BY <1>1, <2>1, <2>2, <2>4
    <3> QED
      BY <1>1, <1>2, <1>7, <2>4, <3>1
  <2> QED
    BY <1>1, <2>3, <2>4
<1>8. ASSUME NEW de \in P \X {TRUE}, isEnd(toNode(de))
      PROVE  \/ isEnd(toNode(last)) /\ getEdgeDirection(last) = TRUE
             \/ isEnd(fromNode(first)) /\ getEdgeDirection(first) = FALSE
  <2>1. de = <<edge(de), TRUE>> /\ edge(de) \in P
    <3>1. \A S : \A c \in P \X S : c = <<c[1], c[2]>> /\ c[1] \in P /\ c[2] \in S
      OBVIOUS
    <3>2. de = <<de[1], de[2]>> /\ de[1] \in P /\ de[2] \in {TRUE}
      BY <3>1, Zenon
    <3> QED
      BY <3>2 DEF edge
  <2>2. PICK k \in 1..n : edge(s[k]) = edge(de)
    BY <1>3, <2>1
  <2>3. CASE getEdgeDirection(s[k]) = TRUE
    <3>1. s[k] = de
      BY <1>1, <2>1, <2>2, <2>3
    <3> QED
      BY <1>2, <1>8, <2>3, <3>1
  <2>4. CASE getEdgeDirection(s[k]) = FALSE
    <3>1. getSym(s[k]) = de
      BY <1>1, <2>1, <2>2, <2>4
    <3> QED
      BY <1>1, <1>2, <1>8, <2>4, <3>1
  <2> QED
    BY <1>1, <2>3, <2>4
<1> DEFINE free == {de \in P \X {TRUE} : isEnd(fromNode(de))}
           least == {de \in P \X {TRUE} : isEnd(toNode(de))}
<1>9. \A k \in 1..n : /\ getEdgeDirection(s[k]) = TRUE => s[k] \in P \X {TRUE}
                      /\ getEdgeDirection(s[k]) = FALSE => getSym(s[k]) \in P \X {TRUE}
  <2> SUFFICES ASSUME NEW k \in 1..n
               PROVE  /\ getEdgeDirection(s[k]) = TRUE => s[k] \in P \X {TRUE}
                      /\ getEdgeDirection(s[k]) = FALSE => getSym(s[k]) \in P \X {TRUE}
    OBVIOUS
  <2>1. /\ edge(s[k]) \in P
        /\ s[k] = <<edge(s[k]), getEdgeDirection(s[k])>>
        /\ getSym(s[k]) = <<edge(s[k]), ~getEdgeDirection(s[k])>>
    BY <1>1
  <2>2. getEdgeDirection(s[k]) = TRUE => s[k] = <<edge(s[k]), TRUE>>
    BY <2>1
  <2>3. getEdgeDirection(s[k]) = FALSE => getSym(s[k]) = <<edge(s[k]), TRUE>>
    BY <2>1
  <2>4. \A e \in P : <<e, TRUE>> \in P \X {TRUE}
    OBVIOUS
  <2> HIDE DEF n
  <2> QED
    BY <2>1, <2>2, <2>3, <2>4
<1>10. CASE flipSeq(s)
  <2>1. free # {} => r[1] \in free
    BY <1>1, <1>5, <1>6, <1>7, <1>9, <1>10
  <2>2. least # {} => r[n] \in least
    <3>1. ~(isEnd(toNode(last)) /\ getEdgeDirection(last) = TRUE) \/
          (isEnd(fromNode(first)) /\ getEdgeDirection(first) = FALSE)
      BY <1>1, <1>6, <1>10
    <3> QED
      BY <1>1, <1>5, <1>8, <1>9, <3>1
  <2>3. IsTrailOver(r, P)
    <3>1. {edge(r[i]) : i \in DOMAIN r} = P /\ Len(r) = Cardinality(P)
      BY <1>4, UsesAll
    <3>2. \A i \in 2..Len(r) : fromNode(r[i]) = toNode(r[i - 1])
      BY <1>4 DEF Joined
    <3>3. Len(r) = n
      BY <1>4
    <3> HIDE DEF r, n
    <3> QED
      BY <2>1, <2>2, <3>1, <3>2, <3>3 DEF IsTrailOver
  <2> QED
    BY <1>10, <2>3
<1>11. CASE ~flipSeq(s)
  <2>1. free # {} => s[1] \in free
    BY <1>1, <1>6, <1>7, <1>9, <1>11
  <2>2. least # {} => s[n] \in least
    BY <1>1, <1>6, <1>8, <1>9, <1>11
  <2>3. IsTrailOver(s, P)
    BY <2>1, <2>2, UsesAll DEF IsTrailOver, Joined
  <2> QED
    BY <1>11, <2>3
<1> QED
  BY <1>10, <1>11

\* EndPart: nothing is left at any node of the trail, and so it is over all of the part.
LEMMA PartEnded ==
  ASSUME AreLines, NEW P \in ConnectedSubgraphs, NEW s, NEW used \in SUBSET P, InUse(P, s, used),
         OnTheWayBack(s, 1, used)
  PROVE  used = P
<1>1. P \subseteq Edges
  BY PartsAreEdges
<1>2. /\ Len(s) \in Nat /\ Len(s) >= 1
      /\ \A i \in 1..Len(s) :
              /\ s[i] \in DirEdges /\ edge(s[i]) \in used
  BY <1>1, PlacesOfTrail
<1>3. \A i \in 1..Len(s) : UsedUp(fromNode(s[i]), used)
  BY DEF OnTheWayBack
<1>4. ASSUME NEW i \in 1..Len(s)
      PROVE  UsedUp(toNode(s[i]), used)
  <2>1. CASE i = Len(s)
    BY <2>1 DEF OnTheWayBack
  <2>2. CASE i # Len(s)
    <3>1. i + 1 \in 2..Len(s) /\ i + 1 \in 1..Len(s) /\ (i + 1) - 1 = i
      BY <1>2, <2>2
    <3>2. fromNode(s[i + 1]) = toNode(s[i])
      BY <3>1 DEF OnTheWayBack, Joined
    <3> QED
      BY <1>3, <3>1, <3>2
  <2> QED
    BY <2>1, <2>2
<1>5. ASSUME NEW e \in used, NEW m \in EndsOf(e)
      PROVE  UsedUp(m, used)
  <2>1. PICK i \in 1..Len(s) : edge(s[i]) = e
    BY DEF InUse
  <2>2. EndsOf(e) = {fromNode(s[i]), toNode(s[i])}
    BY <1>2, <2>1, EndsOfEdges
  <2> QED
    BY <1>3, <1>4, <2>2
<1>6. \A m \in EndsOfAll(used) : \A de \in outEdges(m) : edge(de) \in used
  BY <1>5 DEF EndsOfAll, UsedUp
<1>7. used # {}
  BY <1>2
<1> QED
  BY <1>6, <1>7, PartIsCovered

(***************************************************************************)
(* Sequences end to end.                                                   *)
(***************************************************************************)
\* t has the sequences 1 to m of ss in it, one behind the other; w says from which each place comes.
Laid(ss, m, t, w) ==
  /\ w \in [1..Len(t) -> 1..m]
  /\ \A i, j \in 1..Len(t) : i <= j => w[i] <= w[j]
  /\ \A i \in 1..Len(t) : \E p \in 1..Len(ss[w[i]]) : t[i] = ss[w[i]][p]
  /\ \A i \in 2..Len(t) : w[i] = w[i - 1] =>
       \E p \in 2..Len(ss[w[i]]) : t[i] = ss[w[i]][p] /\ t[i - 1] = ss[w[i]][p - 1]

LEMMA LaidFirst ==
  ASSUME NEW S, NEW ss \in Seq(Seq(S)), Len(ss) >= 1
  PROVE  \E w : Laid(ss, 1, ss[1], w)
<1> DEFINE t == ss[1]
           w == [i \in 1..Len(t) |-> 1]
<1>1. t \in Seq(S) /\ Len(t) \in Nat
  OBVIOUS
<1>2. w \in [1..Len(t) -> 1..1] /\ \A i \in 1..Len(t) : w[i] = 1
  OBVIOUS
<1> HIDE DEF w
<1>3. \A i \in 1..Len(t) : \E p \in 1..Len(ss[w[i]]) : t[i] = ss[w[i]][p]
  BY <1>2
<1>4. ASSUME NEW i \in 2..Len(t)
      PROVE  \E p \in 2..Len(ss[w[i]]) : t[i] = ss[w[i]][p] /\ t[i - 1] = ss[w[i]][p - 1]
  <2>1. i \in 1..Len(t)
    BY <1>1
  <2>2. w[i] = 1 /\ i \in 2..Len(ss[w[i]])
    BY <1>2, <2>1
  <2> QED
    BY <2>2
<1>5. \A i, j \in 1..Len(t) : i <= j => w[i] <= w[j]
  BY <1>2
<1>6. Laid(ss, 1, t, w)
  BY <1>2, <1>3, <1>4, <1>5 DEF Laid
<1> QED
  BY <1>6

LEMMA LaidNext ==
  ASSUME NEW S, NEW ss \in Seq(Seq(S)), NEW m \in 1..Len(ss), m + 1 \in 1..Len(ss),
         NEW t \in Seq(S), NEW w, Laid(ss, m, t, w)
  PROVE  \E v : Laid(ss, m + 1, t \o ss[m + 1], v)
<1> DEFINE x == ss[m + 1]
           n == Len(t)
           u == t \o x
           v == [i \in 1..Len(u) |-> IF i <= n THEN w[i] ELSE m + 1]
<1>1. x \in Seq(S) /\ Len(x) \in Nat /\ n \in Nat /\ m \in Nat /\ m >= 1
  OBVIOUS
<1> HIDE DEF x
<1>2. /\ u \in Seq(S) /\ Len(u) = n + Len(x)
      /\ \A i \in 1..n : u[i] = t[i]
      /\ \A i \in (n + 1)..Len(u) : u[i] = x[i - n]
  BY <1>1
<1> HIDE DEF u
<1>3. /\ \A i \in 1..Len(u) : v[i] = IF i <= n THEN w[i] ELSE m + 1
      /\ DOMAIN v = 1..Len(u) /\ v = [i \in 1..Len(u) |-> v[i]]
  OBVIOUS
<1> HIDE DEF v, n
<1>4. /\ \A i \in 1..n : w[i] \in 1..m
      /\ \A i, j \in 1..n : i <= j => w[i] <= w[j]
      /\ \A i \in 1..n : \E p \in 1..Len(ss[w[i]]) : t[i] = ss[w[i]][p]
      /\ \A i \in 2..n : w[i] = w[i - 1] =>
           \E p \in 2..Len(ss[w[i]]) : t[i] = ss[w[i]][p] /\ t[i - 1] = ss[w[i]][p - 1]
  BY DEF Laid, n
<1>5. \A i \in 1..Len(u) : \/ i \in 1..n /\ v[i] = w[i] /\ v[i] \in 1..m /\ u[i] = t[i]
                           \/ /\ i \in (n + 1)..Len(u) /\ v[i] = m + 1 /\ u[i] = x[i - n]
                              /\ i - n \in 1..Len(x)
  <2> SUFFICES ASSUME NEW i \in 1..Len(u)
               PROVE  \/ i \in 1..n /\ v[i] = w[i] /\ v[i] \in 1..m /\ u[i] = t[i]
                      \/ /\ i \in (n + 1)..Len(u) /\ v[i] = m + 1 /\ u[i] = x[i - n]
                         /\ i - n \in 1..Len(x)
    OBVIOUS
  <2>1. CASE i <= n
    <3>1. i \in 1..n
      BY <1>1, <2>1
    <3> QED
      BY <1>2, <1>3, <1>4, <2>1, <3>1
  <2>2. CASE ~(i <= n)
    <3>1. i \in (n + 1)..Len(u) /\ i - n \in 1..Len(x)
      BY <1>1, <1>2, <2>2
    <3> QED
      BY <1>2, <1>3, <2>2, <3>1
  <2> QED
    BY <2>1, <2>2
<1>6. v \in [1..Len(u) -> 1..(m + 1)]
  <2>1. \A i \in 1..Len(u) : v[i] \in 1..(m + 1)
    BY <1>1, <1>5
  <2> QED
    BY <1>3, <2>1
<1>7. \A i, j \in 1..Len(u) : i <= j => v[i] <= v[j]
  <2> SUFFICES ASSUME NEW i \in 1..Len(u), NEW j \in 1..Len(u), i <= j
               PROVE  v[i] <= v[j]
    OBVIOUS
  <2>1. CASE j \in 1..n
    <3>1. i \in 1..n
      BY <1>1, <2>1
    <3>2. v[i] = w[i] /\ v[j] = w[j]
      BY <1>1, <1>5, <2>1, <3>1
    <3> QED
      BY <1>4, <2>1, <3>1, <3>2
  <2>2. CASE j \notin 1..n
    <3>1. v[j] = m + 1
      BY <1>5, <2>2
    <3>2. v[i] \in 1..(m + 1)
      BY <1>6
    <3> QED
      BY <1>1, <3>1, <3>2
  <2> QED
    BY <2>1, <2>2
<1>8. \A i \in 1..Len(u) : \E p \in 1..Len(ss[v[i]]) : u[i] = ss[v[i]][p]
  <2> SUFFICES ASSUME NEW i \in 1..Len(u)
               PROVE  \E p \in 1..Len(ss[v[i]]) : u[i] = ss[v[i]][p]
    OBVIOUS
  <2>1. CASE i \in 1..n /\ v[i] = w[i] /\ u[i] = t[i]
    BY <1>4, <2>1
  <2>2. CASE v[i] = m + 1 /\ u[i] = x[i - n] /\ i - n \in 1..Len(x)
    <3>1. ss[v[i]] = x
      BY <2>2 DEF x
    <3> QED
      BY <2>2, <3>1
  <2> QED
    BY <1>5, <2>1, <2>2
<1>9. ASSUME NEW i \in 2..Len(u), v[i] = v[i - 1]
      PROVE  \E p \in 2..Len(ss[v[i]]) : u[i] = ss[v[i]][p] /\ u[i - 1] = ss[v[i]][p - 1]
  <2>1. i \in 1..Len(u) /\ i - 1 \in 1..Len(u) /\ i \in Nat
    BY <1>1, <1>2
  <2>2. CASE i \in 1..n
    <3>1. i - 1 \in 1..n /\ i \in 2..n
      BY <1>1, <2>1, <2>2
    <3>2. ASSUME NEW k \in 1..Len(u), k \in 1..n
          PROVE  v[k] = w[k] /\ u[k] = t[k]
      <4>1. k \notin (n + 1)..Len(u)
        BY <1>1, <3>2
      <4> QED
        BY <1>5, <4>1
    <3>3. v[i] = w[i] /\ v[i - 1] = w[i - 1] /\ u[i] = t[i] /\ u[i - 1] = t[i - 1]
      BY <2>1, <2>2, <3>1, <3>2
    <3> QED
      BY <1>4, <1>9, <3>1, <3>3
  <2>3. CASE i \notin 1..n
    <3>1. v[i] = m + 1 /\ u[i] = x[i - n] /\ i - n \in 1..Len(x)
      BY <1>5, <2>1, <2>3
    <3>2. v[i - 1] # w[i - 1] \/ i - 1 \notin 1..n
      BY <1>1, <1>4, <1>9, <3>1
    <3>3. u[i - 1] = x[(i - 1) - n] /\ (i - 1) - n \in 1..Len(x)
      BY <1>5, <2>1, <3>2
    <3>4. i - n \in 2..Len(x) /\ (i - n) - 1 = (i - 1) - n
      <4>1. /\ i \in Int /\ n \in Int /\ Len(x) \in Int
            /\ (i - 1) - n >= 1 /\ i - n <= Len(x)
        BY <1>1, <2>1, <3>1, <3>3
      <4> QED
        BY <4>1
    <3> QED
      BY <3>1, <3>3, <3>4 DEF x
  <2> QED
    BY <2>2, <2>3
<1>10. Laid(ss, m + 1, u, v)
  BY <1>6, <1>7, <1>8, <1>9 DEF Laid
<1> QED
  BY <1>10 DEF u, x

\* The function FlattenSeq is computed with.
Flattening(ss) ==
  CHOOSE f : f = [i \in 1..Len(ss) |-> IF i = 1 THEN ss[i] ELSE f[i - 1] \o ss[i]]

LEMMA FlatteningExists ==
  ASSUME NEW S, NEW ss \in Seq(Seq(S)), Len(ss) >= 1
  PROVE  /\ Flattening(ss) \in [1..Len(ss) -> Seq(S)]
         /\ \A i \in 1..Len(ss) :
              Flattening(ss)[i] = IF i = 1 THEN ss[i] ELSE Flattening(ss)[i - 1] \o ss[i]
<1> DEFINE n == Len(ss)
           Fits(m, f) == /\ f \in [1..m -> Seq(S)]
                         /\ \A i \in 1..m : f[i] = IF i = 1 THEN ss[i] ELSE f[i - 1] \o ss[i]
           Wrong == {m \in Nat : m \in 1..n /\ ~\E f : Fits(m, f)}
<1>1. n \in Nat /\ n >= 1 /\ \A i \in 1..n : ss[i] \in Seq(S)
  OBVIOUS
<1>2. \A m \in 1..n : \E f : Fits(m, f)
  <2>1. SUFFICES ASSUME NEW b \in 1..n, ~\E f : Fits(b, f)
                 PROVE  FALSE
    OBVIOUS
  <2>0. b \in Wrong
    <3>1. b \in Nat
      BY <1>1
    <3> HIDE DEF Fits
    <3> QED
      BY <2>1, <3>1
  <2>2. PICK m \in Wrong : \A k \in Wrong : m <= k
    <3>1. Wrong \in SUBSET Nat
      OBVIOUS
    <3> HIDE DEF Wrong
    <3> QED
      BY <2>0, <3>1, LeastElement
  <2>3. m \in Nat /\ m \in 1..n /\ ~\E f : Fits(m, f)
    OBVIOUS
  <2>4. CASE m = 1
    <3> DEFINE f == [i \in 1..1 |-> ss[i]]
    <3>1. f \in [1..1 -> Seq(S)] /\ \A i \in 1..1 : f[i] = ss[i] /\ i = 1
      BY <1>1
    <3>2. Fits(1, f)
      <4> HIDE DEF f, n
      <4> QED
        BY <3>1
    <3> QED
      BY <2>3, <2>4, <3>2
  <2>5. CASE m # 1
    <3>1. m - 1 \in Nat /\ m - 1 \in 1..n /\ m - 1 \notin Wrong
      <4> HIDE DEF Wrong
      <4>1. m - 1 \in Nat /\ m - 1 \in 1..n /\ ~(m <= m - 1)
        BY <1>1, <2>3, <2>5
      <4> QED
        BY <2>2, <4>1
    <3>2. PICK f : Fits(m - 1, f)
      BY <3>1
    <3> DEFINE g == [i \in 1..m |-> IF i = m THEN f[m - 1] \o ss[m] ELSE f[i]]
    <3>3. f \in [1..(m - 1) -> Seq(S)]
      BY <3>2
    <3>4. f[m - 1] \o ss[m] \in Seq(S)
      <4>1. f[m - 1] \in Seq(S) /\ ss[m] \in Seq(S)
        BY <1>1, <2>3, <2>5, <3>3
      <4> QED
        BY <4>1
    <3>5. g \in [1..m -> Seq(S)] /\ g[m] = f[m - 1] \o ss[m] /\ \A i \in 1..(m - 1) : g[i] = f[i]
      <4>1. \A i \in 1..m : i = m \/ i \in 1..(m - 1)
        BY <2>3
      <4>2. \A i \in 1..(m - 1) : i \in 1..m /\ i # m
        BY <2>3
      <4>3. \A i \in 1..m : g[i] \in Seq(S)
        BY <3>3, <3>4, <4>1
      <4>4. m \in 1..m
        BY <2>3
      <4>5. g[m] = f[m - 1] \o ss[m]
        BY <4>4
      <4>6. \A i \in 1..(m - 1) : g[i] = f[i]
        BY <4>2
      <4> QED
        BY <4>3, <4>5, <4>6
    <3> HIDE DEF g
    <3>6. ASSUME NEW i \in 1..m
          PROVE  g[i] = IF i = 1 THEN ss[i] ELSE g[i - 1] \o ss[i]
      <4>1. CASE i = m
        <5>1. m - 1 \in 1..(m - 1)
          BY <2>3, <2>5
        <5> QED
          BY <2>5, <3>5, <4>1, <5>1
      <4>2. CASE i # m
        <5>1. i \in 1..(m - 1) /\ (i # 1 => i - 1 \in 1..(m - 1))
          BY <2>3, <4>2
        <5>2. f[i] = IF i = 1 THEN ss[i] ELSE f[i - 1] \o ss[i]
          BY <3>2, <5>1
        <5> QED
          BY <3>5, <5>1, <5>2
      <4> QED
        BY <4>1, <4>2
    <3>7. Fits(m, g)
      <4> HIDE DEF n
      <4> QED
        BY <3>5, <3>6
    <3> QED
      BY <2>3, <3>7
  <2> QED
    BY <2>4, <2>5
<1>3. PICK f : Fits(n, f)
  <2>1. n \in 1..n
    BY <1>1
  <2> HIDE DEF Fits, n
  <2> QED
    BY <1>2, <2>1
<1>4. f = [i \in 1..n |-> IF i = 1 THEN ss[i] ELSE f[i - 1] \o ss[i]]
  BY <1>3
<1> DEFINE g == Flattening(ss)
<1>5. g = [i \in 1..n |-> IF i = 1 THEN ss[i] ELSE g[i - 1] \o ss[i]]
  BY <1>4 DEF Flattening
<1> HIDE DEF g
<1>6. \A i \in 1..n : g[i] = IF i = 1 THEN ss[i] ELSE g[i - 1] \o ss[i]
  BY <1>5
<1> DEFINE Off == {m \in Nat : m \in 1..n /\ g[m] \notin Seq(S)}
<1>7. \A m \in 1..n : g[m] \in Seq(S)
  <2>1. SUFFICES ASSUME NEW b \in 1..n, g[b] \notin Seq(S)
                 PROVE  FALSE
    OBVIOUS
  <2>0. b \in Off
    BY <1>1, <2>1
  <2>2. PICK m \in Off : \A k \in Off : m <= k
    <3>1. Off \in SUBSET Nat
      OBVIOUS
    <3> HIDE DEF Off
    <3> QED
      BY <2>0, <3>1, LeastElement
  <2>3. m \in Nat /\ m \in 1..n /\ g[m] \notin Seq(S)
    OBVIOUS
  <2>4. CASE m = 1
    BY <1>1, <1>6, <2>3, <2>4
  <2>5. CASE m # 1
    <3>1. m - 1 \in Nat /\ m - 1 \in 1..n /\ m - 1 \notin Off
      <4> HIDE DEF Off
      <4>1. m - 1 \in Nat /\ m - 1 \in 1..n /\ ~(m <= m - 1)
        BY <1>1, <2>3, <2>5
      <4> QED
        BY <2>2, <4>1
    <3>2. g[m - 1] \in Seq(S) /\ ss[m] \in Seq(S) /\ g[m] = g[m - 1] \o ss[m]
      BY <1>1, <1>6, <2>3, <2>5, <3>1
    <3> QED
      BY <2>3, <3>2
  <2> QED
    BY <2>4, <2>5
<1>8. g \in [1..n -> Seq(S)]
  BY <1>5, <1>7
<1> QED
  BY <1>6, <1>8 DEF g

\* What FlattenSeq makes of sequences.
LEMMA Flattened ==
  ASSUME NEW S, NEW ss \in Seq(Seq(S)), Len(ss) >= 1
  PROVE  FlattenSeq(ss) \in Seq(S) /\ \E w : Laid(ss, Len(ss), FlattenSeq(ss), w)
<1> DEFINE n == Len(ss)
           f == Flattening(ss)
           Off == {m \in Nat : m \in 1..n /\ ~\E w : Laid(ss, m, f[m], w)}
<1>1. n \in Nat /\ n >= 1
  OBVIOUS
<1>2. FlattenSeq(ss) = f[n]
  BY <1>1 DEF FlattenSeq, Flattening
<1>3. f \in [1..n -> Seq(S)] /\ \A i \in 1..n : f[i] = IF i = 1 THEN ss[i] ELSE f[i - 1] \o ss[i]
  BY FlatteningExists
<1> HIDE DEF f
<1>4. \A m \in 1..n : \E w : Laid(ss, m, f[m], w)
  <2>1. SUFFICES ASSUME NEW b \in 1..n, ~\E w : Laid(ss, b, f[b], w)
                 PROVE  FALSE
    OBVIOUS
  <2>0. b \in Off
    BY <1>1, <2>1
  <2>2. PICK m \in Off : \A k \in Off : m <= k
    <3>1. Off \in SUBSET Nat
      OBVIOUS
    <3> HIDE DEF Off
    <3> QED
      BY <2>0, <3>1, LeastElement
  <2>3. m \in Nat /\ m \in 1..n /\ ~\E w : Laid(ss, m, f[m], w)
    OBVIOUS
  <2>4. CASE m = 1
    <3>1. f[m] = ss[1]
      BY <1>3, <2>3, <2>4
    <3> QED
      BY <2>3, <2>4, <3>1, LaidFirst
  <2>5. CASE m # 1
    <3>1. m - 1 \in Nat /\ m - 1 \in 1..n /\ m - 1 \notin Off /\ (m - 1) + 1 = m
      <4> HIDE DEF Off
      <4>1. m - 1 \in Nat /\ m - 1 \in 1..n /\ ~(m <= m - 1) /\ (m - 1) + 1 = m
        BY <1>1, <2>3, <2>5
      <4> QED
        BY <2>2, <4>1
    <3>2. PICK w : Laid(ss, m - 1, f[m - 1], w)
      BY <3>1
    <3>3. f[m - 1] \in Seq(S) /\ f[m] = f[m - 1] \o ss[m]
      BY <1>3, <2>3, <2>5, <3>1
    <3> DEFINE k == m - 1
               t == f[m - 1]
    <3>4. k \in 1..n /\ k + 1 \in 1..n /\ t \in Seq(S) /\ Laid(ss, k, t, w)
      BY <2>3, <3>1, <3>2, <3>3
    <3>5. k + 1 = m
      BY <3>1
    <3> HIDE DEF k, t
    <3>6. \E v : Laid(ss, k + 1, t \o ss[k + 1], v)
      BY <3>4, LaidNext
    <3> QED
      BY <2>3, <3>3, <3>5, <3>6 DEF t
  <2> QED
    BY <2>4, <2>5
<1> QED
  BY <1>1, <1>2, <1>3, <1>4

(***************************************************************************)
(* The parts that are done.                                                *)
(***************************************************************************)

\* ss has one trail over each part in D.
TrailsOver(ss, D) ==
  /\ ss \in Seq(Seq(DirEdges))
  /\ \A k \in 1..Len(ss) : EdgesIn(ss[k]) \in D /\ IsTrailOver(ss[k], EdgesIn(ss[k]))
  /\ \A E \in D : \E k \in 1..Len(ss) : EdgesIn(ss[k]) = E
  /\ \A j, k \in 1..Len(ss) : EdgesIn(ss[j]) = EdgesIn(ss[k]) => j = k

LEMMA OneMoreTrail ==
  ASSUME NEW ss, NEW D, TrailsOver(ss, D), NEW E, E \notin D, NEW r \in Seq(DirEdges), IsTrailOver(r, E)
  PROVE  TrailsOver(Append(ss, r), D \cup {E})
<1> DEFINE n == Len(ss)
           t == Append(ss, r)
           Dirs == Seq(DirEdges)
<1>1. ss \in Seq(Dirs) /\ n \in Nat /\ r \in Dirs
  BY DEF TrailsOver
<1> HIDE DEF Dirs
<1>2. t \in Seq(Dirs) /\ Len(t) = n + 1 /\ t[n + 1] = r /\ \A k \in 1..n : t[k] = ss[k]
  BY <1>1
<1> HIDE DEF t, n
<1>3. EdgesIn(r) = E /\ IsTrailOver(r, EdgesIn(r))
  <2>1. EdgesIn(r) = E
    BY DEF IsTrailOver, EdgesIn
  <2> QED
    BY <2>1
<1>4. /\ \A k \in 1..n : EdgesIn(ss[k]) \in D /\ IsTrailOver(ss[k], EdgesIn(ss[k]))
      /\ \A F \in D : \E k \in 1..n : EdgesIn(ss[k]) = F
      /\ \A j, k \in 1..n : EdgesIn(ss[j]) = EdgesIn(ss[k]) => j = k
  BY DEF TrailsOver, n
<1>5. \A k \in 1..Len(t) : (k \in 1..n /\ t[k] = ss[k]) \/ (k = n + 1 /\ t[k] = r)
  <2>1. \A k \in 1..(n + 1) : k \in 1..n \/ k = n + 1
    BY <1>1
  <2> QED
    BY <1>2, <2>1
<1>6. \A k \in 1..Len(t) : EdgesIn(t[k]) \in D \cup {E} /\ IsTrailOver(t[k], EdgesIn(t[k]))
  BY <1>3, <1>4, <1>5
<1>7. ASSUME NEW F \in D \cup {E}
      PROVE  \E k \in 1..Len(t) : EdgesIn(t[k]) = F
  <2>1. CASE F \in D
    <3>1. PICK k \in 1..n : EdgesIn(ss[k]) = F
      BY <1>4, <2>1
    <3>2. k \in 1..Len(t)
      BY <1>1, <1>2
    <3> QED
      BY <1>2, <3>1, <3>2
  <2>2. CASE F = E
    <3>1. n + 1 \in 1..Len(t)
      BY <1>1, <1>2
    <3> QED
      BY <1>2, <1>3, <2>2, <3>1
  <2> QED
    BY <2>1, <2>2
<1>8. ASSUME NEW j \in 1..Len(t), NEW k \in 1..Len(t), EdgesIn(t[j]) = EdgesIn(t[k])
      PROVE  j = k
  BY <1>3, <1>4, <1>5, <1>8
<1> QED
  <2>1. t \in Seq(Seq(DirEdges))
    BY <1>2 DEF Dirs
  <2>2. TrailsOver(t, D \cup {E})
    BY <1>6, <1>7, <1>8, <2>1 DEF TrailsOver
  <2> QED
    BY <2>2 DEF t

\* The greatest of numbers up to n.
LEMMA HighestElement ==
  ASSUME NEW n \in Nat, NEW T \in SUBSET Nat, T # {}, \A x \in T : x <= n
  PROVE  Max(T) \in T /\ \A x \in T : x <= Max(T)
<1> DEFINE Below == {k \in Nat : k <= n /\ n - k \in T}
<1>1. \A x \in T : n - x \in Below
  <2> TAKE x \in T
  <2>1. n - x \in Nat /\ n - x <= n /\ n - (n - x) = x
    OBVIOUS
  <2> QED
    BY <2>1
<1>2. PICK k \in Below : \A m \in Below : k <= m
  <2>1. Below \in SUBSET Nat /\ Below # {}
    BY <1>1
  <2> HIDE DEF Below
  <2> QED
    BY <2>1, LeastElement
<1>3. n - k \in T /\ k \in Nat
  OBVIOUS
<1>4. ASSUME NEW y \in T
      PROVE  n - k >= y
  <2>1. k <= n - y
    <3> HIDE DEF Below
    <3> QED
      BY <1>1, <1>2
  <2> QED
    BY <1>3, <2>1
<1>5. \E x \in T : \A y \in T : x >= y
  BY <1>3, <1>4
<1>6. Max(T) \in T /\ \A y \in T : Max(T) >= y
  BY <1>5 DEF Max
<1>7. \A y \in T : y <= Max(T)
  BY <1>6
<1> QED
  BY <1>6, <1>7

\* Trails over all parts are what a sequencer that says yes has promised.
LEMMA TrailsOverAll ==
  ASSUME AreLines, NEW ss, TrailsOver(ss, ConnectedSubgraphs)
  PROVE  /\ Len(ss) = Cardinality(ConnectedSubgraphs)
         /\ \A E \in ConnectedSubgraphs : \E k \in DOMAIN ss : IsTrailOver(ss[k], E)
<1> DEFINE n == Len(ss)
           CS == ConnectedSubgraphs
           f == [k \in 1..n |-> EdgesIn(ss[k])]
<1>1. n \in Nat /\ DOMAIN ss = 1..n
  BY DEF TrailsOver
<1>2. /\ \A k \in 1..n : EdgesIn(ss[k]) \in CS /\ IsTrailOver(ss[k], EdgesIn(ss[k]))
      /\ \A E \in CS : \E k \in 1..n : EdgesIn(ss[k]) = E
      /\ \A j, k \in 1..n : EdgesIn(ss[j]) = EdgesIn(ss[k]) => j = k
  BY DEF TrailsOver
<1> HIDE DEF n, CS
<1>3. f \in Bijection(1..n, CS)
  BY <1>2, Zenon DEF Bijection, Injection, Surjection, IsInjective
<1>4. IsFiniteSet(1..n) /\ Cardinality(1..n) = n
  BY <1>1, FS_Interval
<1>5. Cardinality(CS) = n
  BY <1>3, <1>4, FS_Bijection DEF ExistsBijection
<1>6. \A E \in CS : \E k \in 1..n : IsTrailOver(ss[k], E)
  <2> SUFFICES ASSUME NEW E \in CS
               PROVE  \E k \in 1..n : IsTrailOver(ss[k], E)
    OBVIOUS
  <2>1. PICK k \in 1..n : EdgesIn(ss[k]) = E
    BY <1>2
  <2>2. IsTrailOver(ss[k], E)
    BY <1>2, <2>1
  <2> QED
    BY <2>2
<1> QED
  BY <1>1, <1>5, <1>6 DEF n, CS

\* The lines of trails: each as it is or reversed.
LinesOf(all) == [i \in DOMAIN all |-> [from |-> fromNode(all[i]), to |-> toNode(all[i])]]

LEMMA TrailsAreSequenced ==
  ASSUME AreLines, NEW ss, TrailsOver(ss, ConnectedSubgraphs)
  PROVE  isSequenced(LinesOf(FlattenSeq(ss)))
<1> DEFINE all == FlattenSeq(ss)
           mls == LinesOf(all)
           n == Len(all)
<1>1. CASE Len(ss) = 0
  <2>1. ss = <<>> /\ all = ss
    BY <1>1 DEF TrailsOver, FlattenSeq
  <2>2. DOMAIN mls = {}
    BY <2>1 DEF LinesOf
  <2> QED
    BY <2>2 DEF isSequenced
<1>2. CASE Len(ss) # 0
  <2> DEFINE Dirs == DirEdges
  <2>1. ss \in Seq(Seq(Dirs)) /\ Len(ss) \in Nat /\ Len(ss) >= 1
    BY <1>2 DEF TrailsOver
  <2> HIDE DEF Dirs
  <2>2. all \in Seq(Dirs) /\ \E w : Laid(ss, Len(ss), all, w)
    BY <2>1, Flattened
  <2>3. PICK w : Laid(ss, Len(ss), all, w)
    BY <2>2
  <2> HIDE DEF all
  <2>4. n \in Nat /\ DOMAIN all = 1..n /\ \A i \in 1..n : all[i] \in DirEdges
    BY <2>2 DEF Dirs
  <2>5. /\ \A i \in 1..n : w[i] \in 1..Len(ss)
        /\ \A i, j \in 1..n : i <= j => w[i] <= w[j]
        /\ \A i \in 1..n : \E p \in 1..Len(ss[w[i]]) : all[i] = ss[w[i]][p]
        /\ \A i \in 2..n : w[i] = w[i - 1] =>
             \E p \in 2..Len(ss[w[i]]) : all[i] = ss[w[i]][p] /\ all[i - 1] = ss[w[i]][p - 1]
    BY <2>3 DEF Laid
  <2>6. /\ DOMAIN mls = 1..n
        /\ \A i \in 1..n : mls[i].from = fromNode(all[i]) /\ mls[i].to = toNode(all[i])
    BY <2>4 DEF LinesOf
  <2> HIDE DEF mls, n
  <2>7. ASSUME NEW i \in 1..n
        PROVE  /\ edge(all[i]) \in EdgesIn(ss[w[i]]) /\ EdgesIn(ss[w[i]]) \in ConnectedSubgraphs
               /\ EndsOf(edge(all[i])) = {mls[i].from, mls[i].to}
    <3>1. PICK p \in 1..Len(ss[w[i]]) : all[i] = ss[w[i]][p]
      BY <2>5
    <3>2. w[i] \in 1..Len(ss)
      BY <2>5
    <3>3. ss[w[i]] \in Seq(Dirs)
      BY <2>1, <3>2
    <3>4. DOMAIN ss[w[i]] = 1..Len(ss[w[i]])
      BY <3>3
    <3>5. edge(all[i]) \in EdgesIn(ss[w[i]])
      BY <3>1, <3>4 DEF EdgesIn
    <3>6. EdgesIn(ss[w[i]]) \in ConnectedSubgraphs
      BY <3>2 DEF TrailsOver
    <3>7. EndsOf(edge(all[i])) = {fromNode(all[i]), toNode(all[i])}
      BY <2>4, EndsOfEdges
    <3> QED
      BY <2>6, <3>5, <3>6, <3>7
  <2>8. ASSUME NEW b \in 2..n, mls[b].from # mls[b - 1].to
        PROVE  w[b - 1] < w[b]
    <3>1. b \in 1..n /\ b - 1 \in 1..n /\ b - 1 <= b
      BY <2>4
    <3>2. w[b - 1] \in Nat /\ w[b] \in Nat /\ w[b - 1] <= w[b] /\ w[b] \in 1..Len(ss)
      BY <2>1, <2>5, <3>1
    <3>3. ASSUME w[b] = w[b - 1]
          PROVE  FALSE
      <4>1. PICK p \in 2..Len(ss[w[b]]) : all[b] = ss[w[b]][p] /\ all[b - 1] = ss[w[b]][p - 1]
        BY <2>5, <3>3
      <4>2. fromNode(ss[w[b]][p]) = toNode(ss[w[b]][p - 1])
        BY <3>2 DEF TrailsOver, IsTrailOver
      <4> QED
        BY <2>6, <2>8, <3>1, <4>1, <4>2
    <3> QED
      BY <3>2, <3>3
  <2>9. ASSUME NEW i \in 1..n, NEW x \in prevSubgraphNodes(mls, i)
        PROVE  x \notin {mls[i].from, mls[i].to}
    <3> DEFINE breaks == {k \in 2..(i - 1) : mls[k].from # mls[k - 1].to}
               b == Max(breaks)
    <3>1. breaks # {} /\ \E k \in 1..(b - 1) : x \in {mls[k].from, mls[k].to}
      BY DEF prevSubgraphNodes
    <3>2. b \in breaks
      <4>1. breaks \in SUBSET Nat /\ \A k \in breaks : k <= n
        BY <2>4
      <4> HIDE DEF breaks
      <4> QED
        BY <2>4, <3>1, <4>1, HighestElement
    <3>3. PICK k \in 1..(b - 1) : x \in {mls[k].from, mls[k].to}
      BY <3>1
    <3>4. b \in 2..(i - 1) /\ mls[b].from # mls[b - 1].to
      BY <3>2
    <3> HIDE DEF b, breaks
    <3>5. /\ b \in 2..n /\ b - 1 \in 1..n /\ k \in 1..n /\ b \in 1..n
          /\ k <= b - 1 /\ b <= i
      BY <2>4, <3>4
    <3>6. w[k] <= w[b - 1] /\ w[b - 1] < w[b] /\ w[b] <= w[i]
      BY <2>5, <2>8, <3>4, <3>5
    <3>7. w[k] \in 1..Len(ss) /\ w[b - 1] \in 1..Len(ss) /\ w[b] \in 1..Len(ss) /\ w[i] \in 1..Len(ss)
      BY <2>5, <3>5
    <3>8. w[k] # w[i]
      BY <2>1, <3>6, <3>7
    <3>9. EdgesIn(ss[w[k]]) # EdgesIn(ss[w[i]])
      BY <3>7, <3>8 DEF TrailsOver
    <3>10. EndsOf(edge(all[k])) \cap EndsOf(edge(all[i])) = {}
      BY <2>7, <3>5, <3>9, PartsAreApart
    <3> QED
      BY <2>7, <3>3, <3>5, <3>10
  <2>10. isSequenced(mls)
    BY <2>6, <2>9 DEF isSequenced
  <2> QED
    BY <2>10 DEF mls, all
<1> QED
  BY <1>1, <1>2

(***************************************************************************)
(* The sequencer's inductive invariant.                                    *)
(***************************************************************************)
Going == OnTheWay(seq, lit, visited, at, endNode)
Returning == OnTheWayBack(seq, lit, visited)
DoneSoFar == TrailsOver(sequences, ConnectedSubgraphs \ partsLeft)
AllDone == TrailsOver(sequences, ConnectedSubgraphs)
OfThePart == visited \subseteq part /\ InUse(part, seq, visited)

SequencerInv ==
  /\ AreLines
  /\ sequencing \in {"new", "idle", "parts", "trail", "back"}
  /\ isRun \in BOOLEAN /\ isSequenceable \in BOOLEAN
  /\ ~isRun => sequences = <<>> /\ sequencing \in {"new", "idle"} /\ answer # "yes" /\ ~isSequenceable
  /\ sequencing = "new" => ~isRun
  /\ answer = "yes" => isSequenceable
  /\ isSequenceable => sequencing = "idle" /\ AllDone
  /\ sequencing \in {"parts", "trail", "back"} => partsLeft \subseteq ConnectedSubgraphs /\ DoneSoFar
  /\ sequencing \in {"trail", "back"} => partsLeft # {} /\ OfThePart
  /\ sequencing = "trail" => Going
  /\ sequencing = "back" => Returning

(***************************************************************************)
(* What depends on the lines alone stays while they do.                    *)
(***************************************************************************)
LEMMA SameParts ==
  lines' = lines => AreLines' = AreLines /\ ConnectedSubgraphs' = ConnectedSubgraphs
BY DEF AreLines, ConnectedSubgraphs, Connected, Edges, Nodes, EndsOfAll, EndsOf, NoWayOut,
       fromNode, toNode, getSym

LEMMA StillGoing ==
  ASSUME NEW s, NEW l, NEW used, NEW a, NEW e, OnTheWay(s, l, used, a, e), lines' = lines,
         seq' = s, lit' = l, visited' = used, at' = a, endNode' = e
  PROVE  Going'
BY DEF Going, OnTheWay, Joined, UsedUp, outEdges, DirEdges, Edges, fromNode, toNode, getSym

LEMMA StillReturning ==
  ASSUME NEW s, NEW l, NEW used, OnTheWayBack(s, l, used), lines' = lines,
         seq' = s, lit' = l, visited' = used
  PROVE  Returning'
BY DEF Returning, OnTheWayBack, Joined, UsedUp, outEdges, DirEdges, Edges, fromNode, toNode, getSym

LEMMA StillOver ==
  ASSUME NEW ss, NEW D, lines' = lines, TrailsOver(ss, D)
  PROVE  /\ sequences' = ss /\ (ConnectedSubgraphs \ partsLeft)' = D => DoneSoFar'
         /\ sequences' = ss /\ ConnectedSubgraphs' = D => AllDone'
<1>1. ASSUME NEW S
      PROVE  TrailsOver(ss, S)' <=> TrailsOver(ss, S)
  BY DEF TrailsOver, EdgesIn, IsTrailOver, isEnd, getDegree, outEdges, DirEdges, Edges, fromNode,
         toNode, getSym
<1> QED
  BY <1>1 DEF DoneSoFar, AllDone, TrailsOver

LEMMA BestOfNode ==
  ASSUME NEW n, NEW used
  PROVE  /\ \A de \in Best(n, used) : de \in outEdges(n) /\ edge(de) \notin used
         /\ Best(n, used) = {} => UsedUp(n, used)
BY DEF Best, UsedUp

LEMMA PartIsAPart ==
  ASSUME AreLines, partsLeft \subseteq ConnectedSubgraphs, partsLeft # {}
  PROVE  part \in partsLeft /\ part \in ConnectedSubgraphs /\ part \subseteq Edges
<1> DEFINE Firsts == {First(E) : E \in partsLeft}
<1>1. ASSUME NEW E \in partsLeft
      PROVE  First(E) \in Nat
  <2>1. E \subseteq Nat /\ E # {}
    BY PartsAreEdges, EndsOfEdges
  <2>2. \E x \in E : \A y \in E : x <= y
    BY <2>1, LeastElement
  <2> QED
    BY <2>1, <2>2 DEF First
<1>2. PICK x \in Firsts : \A y \in Firsts : x <= y
  <2>1. Firsts \in SUBSET Nat /\ Firsts # {}
    BY <1>1
  <2> HIDE DEF Firsts
  <2> QED
    BY <2>1, LeastElement
<1>3. \E E \in partsLeft : \A F \in partsLeft : First(E) <= First(F)
  BY <1>2
<1>4. part \in partsLeft
  BY <1>3 DEF part
<1> QED
  BY <1>4, PartsAreEdges

LEMMA LowestDegreeNode ==
  ASSUME AreLines, NEW E \in ConnectedSubgraphs
  PROVE  findLowestDegreeNode(E) \in EndsOfAll(E)
<1> DEFINE N == EndsOfAll(E)
           Degrees == {getDegree(n) : n \in N}
           Lowest == {n \in N : \A k \in N : getDegree(n) <= getDegree(k)}
<1>1. N # {} /\ N \subseteq Nat
  <2>1. E # {} /\ E \subseteq Edges
    BY PartsAreEdges
  <2>2. \A e \in E : EndsOf(e) # {} /\ EndsOf(e) \subseteq Nat
    BY <2>1, EndsAreNodes, EndsOfEdges
  <2> QED
    BY <2>1, <2>2 DEF EndsOfAll
<1>2. PICK x \in Degrees : \A y \in Degrees : x <= y
  <2>1. Degrees \in SUBSET Nat /\ Degrees # {}
    BY <1>1, OutEdgesOfNode
  <2> HIDE DEF Degrees
  <2> QED
    BY <2>1, LeastElement
<1>3. Lowest # {} /\ Lowest \subseteq N /\ Lowest \subseteq Nat
  BY <1>1, <1>2
<1>4. \E n \in Lowest : \A k \in Lowest : n <= k
  <2> HIDE DEF Lowest
  <2> QED
    BY <1>3, LeastElement
<1>5. First(Lowest) \in Lowest
  <2> HIDE DEF Lowest
  <2> QED
    BY <1>4 DEF First
<1> QED
  BY <1>3, <1>5 DEF findLowestDegreeNode

\* An edge out of a node of a trail is of the same part.
LEMMA EdgesOfPart ==
  ASSUME AreLines, NEW P \in ConnectedSubgraphs, NEW f \in P, NEW n \in EndsOf(f), NEW de \in outEdges(n)
  PROVE  de \in P \X BOOLEAN /\ edge(de) \in P /\ de \in DirEdges
<1>1. de \in DirEdges /\ fromNode(de) = n
  BY DEF outEdges
<1>2. edge(de) \in Edges /\ n \in EndsOf(edge(de)) /\ getEdgeDirection(de) \in BOOLEAN
      /\ de = <<edge(de), getEdgeDirection(de)>>
  BY <1>1, EndsOfEdges
<1>3. edge(de) \in P
  BY <1>2, PartsAreEdges
<1> QED
  BY <1>1, <1>2, <1>3

------------------------------------------------------------------------------
LEMMA SequencerStarts ==
  lines = <<>> /\ NotSequenced => SequencerInv
<1> SUFFICES ASSUME lines = <<>>, NotSequenced
             PROVE  SequencerInv
  OBVIOUS
<1>1. AreLines
  BY DEF AreLines
<1>2. /\ isRun = FALSE /\ isSequenceable = FALSE /\ sequencing = "new" /\ sequences = <<>>
      /\ answer = "none"
  BY DEF NotSequenced
<1> QED
  BY <1>1, <1>2 DEF SequencerInv

LEMMA AddAllKeeps ==
  SequencerInv /\ (sequencing = "new" /\ \E list \in ListsOfLines : AddAll(list)) => SequencerInv'
<1> SUFFICES ASSUME SequencerInv, sequencing = "new", NEW list \in ListsOfLines, AddAll(list)
             PROVE  SequencerInv'
  OBVIOUS
<1>1. AreLines'
  BY ListsAssumption DEF AddAll, AreLines
<1>2. /\ sequencing' = "idle" /\ isRun' = isRun /\ isSequenceable' = isSequenceable
      /\ answer' = answer /\ sequences' = sequences
  BY DEF AddAll
<1>3. ~isRun /\ sequences = <<>> /\ answer # "yes" /\ ~isSequenceable /\ isSequenceable \in BOOLEAN /\ isRun \in BOOLEAN
  BY DEF SequencerInv
<1> QED
  BY <1>1, <1>2, <1>3 DEF SequencerInv

LEMMA AskKeeps ==
  SequencerInv /\ Ask => SequencerInv'
<1> SUFFICES ASSUME SequencerInv, Ask
             PROVE  SequencerInv'
  OBVIOUS
<1>1. /\ lines' = lines /\ isSequenceable' = isSequenceable /\ sequences' = sequences
      /\ sequencing = "idle" /\ AreLines' = AreLines /\ ConnectedSubgraphs' = ConnectedSubgraphs
  BY SameParts DEF Ask
<1>2. CASE isRun
  <2>1. /\ isRun' = isRun /\ sequencing' = sequencing
        /\ answer' = IF isSequenceable THEN "yes" ELSE "no"
    BY <1>2 DEF Ask
  <2>2. isSequenceable => AllDone'
    BY <1>1, StillOver DEF SequencerInv, AllDone
  <2> QED
    BY <1>1, <1>2, <2>1, <2>2 DEF SequencerInv
<1>3. CASE ~isRun
  <2>1. isRun' = TRUE /\ sequencing' = "parts" /\ partsLeft' = ConnectedSubgraphs /\ answer' = "none"
    BY <1>3 DEF Ask
  <2>2. sequences = <<>> /\ ~isSequenceable
    BY <1>3 DEF SequencerInv
  <2>3. TrailsOver(sequences, {})
    BY <2>2 DEF TrailsOver
  <2>4. (ConnectedSubgraphs \ partsLeft)' = {}
    BY <1>1, <2>1
  <2>5. DoneSoFar'
    BY <1>1, <2>3, <2>4, StillOver
  <2> QED
    BY <1>1, <2>1, <2>2, <2>5 DEF SequencerInv
<1> QED
  BY <1>2, <1>3

\* A call that is given up, with an answer of no or a throw.
LEMMA GivenUp ==
  ASSUME SequencerInv, sequencing \in {"parts", "trail", "back"}, lines' = lines, isRun' = isRun,
         isSequenceable' = isSequenceable, sequencing' = "idle", answer' # "yes"
  PROVE  SequencerInv'
<1>1. AreLines' = AreLines
  BY SameParts
<1>2. isRun /\ ~isSequenceable
  BY DEF SequencerInv
<1> QED
  BY <1>1, <1>2 DEF SequencerInv

LEMMA StartPartKeeps ==
  ASSUME SequencerInv, NEW de \in DirEdges, StartPart(de)
  PROVE  SequencerInv'
<1>1. /\ sequencing = "parts" /\ partsLeft # {} /\ sequencing' = "trail" /\ endNode' = NoNode
      /\ fromNode(de) = findLowestDegreeNode(part)
      /\ seq' = <<de>> /\ lit' = 2 /\ visited' = {edge(de)} /\ at' = toNode(de)
      /\ lines' = lines /\ isRun' = isRun /\ isSequenceable' = isSequenceable /\ partsLeft' = partsLeft
      /\ sequences' = sequences /\ answer' = answer
  BY DEF StartPart
<1>2. /\ AreLines /\ partsLeft \subseteq ConnectedSubgraphs /\ DoneSoFar /\ isRun /\ ~isSequenceable
      /\ answer # "yes"
  BY <1>1 DEF SequencerInv
<1>3. part \in ConnectedSubgraphs
  BY <1>1, <1>2, PartIsAPart
<1>4. PICK f \in part : fromNode(de) \in EndsOf(f)
  BY <1>1, <1>2, <1>3, LowestDegreeNode DEF EndsOfAll
<1>5. de \in part \X BOOLEAN /\ edge(de) \in part
  BY <1>2, <1>3, <1>4, EdgesOfPart DEF outEdges
<1>6. InUse(part, <<de>>, {edge(de)}) /\ OnTheWay(<<de>>, 2, {edge(de)}, toNode(de), NoNode)
  BY <1>5, Started
<1>7. part' = part
  BY <1>1 DEF part
<1>8. OfThePart'
  BY <1>1, <1>5, <1>6, <1>7 DEF OfThePart, InUse
<1>9. Going'
  BY <1>1, <1>6, StillGoing
<1>10. AreLines' = AreLines /\ ConnectedSubgraphs' = ConnectedSubgraphs
  BY <1>1, SameParts
<1>11. DoneSoFar'
  BY <1>1, <1>2, <1>10, StillOver DEF DoneSoFar
<1> QED
  BY <1>1, <1>2, <1>8, <1>9, <1>10, <1>11 DEF SequencerInv

LEMMA ExtendKeeps ==
  ASSUME SequencerInv, NEW de \in DirEdges, Extend(de)
  PROVE  SequencerInv'
<1>1. /\ sequencing = "trail" /\ de \in Best(at, visited)
      /\ seq' = InsertAt(seq, lit, de) /\ lit' = lit + 1
      /\ visited' = visited \cup {edge(de)} /\ at' = toNode(de)
      /\ lines' = lines /\ isRun' = isRun /\ isSequenceable' = isSequenceable /\ sequencing' = sequencing
      /\ partsLeft' = partsLeft /\ endNode' = endNode /\ sequences' = sequences /\ answer' = answer
  BY DEF Extend, Use
<1>2. /\ AreLines /\ partsLeft \subseteq ConnectedSubgraphs /\ DoneSoFar /\ isRun /\ ~isSequenceable
      /\ answer # "yes" /\ partsLeft # {} /\ visited \subseteq part /\ InUse(part, seq, visited)
      /\ OnTheWay(seq, lit, visited, at, endNode)
  BY <1>1 DEF SequencerInv, OfThePart, Going
<1>3. part \in ConnectedSubgraphs /\ part \subseteq Edges
  BY <1>2, PartIsAPart
<1>4. de \in outEdges(at) /\ edge(de) \notin visited /\ fromNode(de) = at
  BY <1>1, BestOfNode DEF outEdges
<1>5. de \in part \X BOOLEAN /\ edge(de) \in part
  <2>1. lit - 1 \in 1..Len(seq) /\ at = toNode(seq[lit - 1]) /\ lit \in 1..(Len(seq) + 1)
    BY <1>2 DEF OnTheWay, InUse
  <2>2. edge(seq[lit - 1]) \in part /\ seq[lit - 1] \in DirEdges
    BY <1>2, <1>3, <2>1, PlacesOfTrail
  <2>3. at \in EndsOf(edge(seq[lit - 1]))
    BY <1>2, <2>1, <2>2, EndsOfEdges
  <2> QED
    BY <1>2, <1>3, <1>4, <2>2, <2>3, EdgesOfPart
<1>6. lit \in 1..(Len(seq) + 1)
  BY <1>2 DEF OnTheWay, InUse
<1>7. InUse(part, InsertAt(seq, lit, de), visited \cup {edge(de)})
  BY <1>2, <1>4, <1>5, <1>6, InUseMore
<1>8. OnTheWay(InsertAt(seq, lit, de), lit + 1, visited \cup {edge(de)}, toNode(de), endNode)
  BY <1>2, <1>3, <1>4, <1>5, Extended
<1>9. part' = part
  BY <1>1 DEF part
<1>10. OfThePart'
  BY <1>1, <1>2, <1>5, <1>7, <1>9 DEF OfThePart, InUse
<1>11. Going'
  BY <1>1, <1>8, StillGoing
<1>12. AreLines' = AreLines /\ ConnectedSubgraphs' = ConnectedSubgraphs
  BY <1>1, SameParts
<1>13. DoneSoFar'
  BY <1>1, <1>2, <1>12, StillOver DEF DoneSoFar
<1> QED
  BY <1>1, <1>2, <1>10, <1>11, <1>12, <1>13 DEF SequencerInv

LEMMA EndTrailKeeps ==
  ASSUME SequencerInv, EndTrail
  PROVE  SequencerInv'
<1>1. /\ sequencing = "trail" /\ Best(at, visited) = {}
      /\ lines' = lines /\ isRun' = isRun /\ isSequenceable' = isSequenceable
      /\ seq' = seq /\ lit' = lit /\ visited' = visited
  BY DEF EndTrail, partVars
<1>2. CASE endNode \in {NoNode, at}
  <2>1. /\ sequencing' = "back" /\ partsLeft' = partsLeft /\ sequences' = sequences /\ answer' = answer
    BY <1>2 DEF EndTrail
  <2>2. /\ AreLines /\ partsLeft \subseteq ConnectedSubgraphs /\ DoneSoFar /\ isRun /\ ~isSequenceable
        /\ answer # "yes" /\ partsLeft # {} /\ visited \subseteq part /\ InUse(part, seq, visited)
        /\ OnTheWay(seq, lit, visited, at, endNode)
    BY <1>1 DEF SequencerInv, OfThePart, Going
  <2>3. OnTheWayBack(seq, lit, visited)
    BY <1>1, <1>2, <2>2, BestOfNode, TrailEnded
  <2>4. part' = part
    BY <2>1 DEF part
  <2>5. OfThePart'
    BY <1>1, <2>2, <2>4 DEF OfThePart, InUse
  <2>6. Returning'
    BY <1>1, <2>3, StillReturning
  <2>7. AreLines' = AreLines /\ ConnectedSubgraphs' = ConnectedSubgraphs
    BY <1>1, SameParts
  <2>8. DoneSoFar'
    BY <1>1, <2>1, <2>2, <2>7, StillOver DEF DoneSoFar
  <2> QED
    BY <1>1, <2>1, <2>2, <2>5, <2>6, <2>7, <2>8 DEF SequencerInv
<1>3. CASE endNode \notin {NoNode, at}
  <2>1. sequencing' = "idle" /\ answer' = "thrown"
    BY <1>3 DEF EndTrail
  <2> QED
    BY <1>1, <2>1, GivenUp
<1> QED
  BY <1>2, <1>3

LEMMA StartDetourKeeps ==
  ASSUME SequencerInv, NEW de \in DirEdges, StartDetour(de)
  PROVE  SequencerInv'
<1>1. /\ sequencing = "back" /\ lit > 1 /\ de \in Best(fromNode(seq[lit - 1]), visited)
      /\ seq' = InsertAt(seq, lit - 1, de) /\ lit' = (lit - 1) + 1
      /\ visited' = visited \cup {edge(de)} /\ at' = toNode(de)
      /\ endNode' = fromNode(de) /\ sequencing' = "trail"
      /\ lines' = lines /\ isRun' = isRun /\ isSequenceable' = isSequenceable
      /\ partsLeft' = partsLeft /\ sequences' = sequences /\ answer' = answer
  BY DEF StartDetour, detour, Use
<1>2. /\ AreLines /\ partsLeft \subseteq ConnectedSubgraphs /\ DoneSoFar /\ isRun /\ ~isSequenceable
      /\ answer # "yes" /\ partsLeft # {} /\ visited \subseteq part /\ InUse(part, seq, visited)
      /\ OnTheWayBack(seq, lit, visited)
  BY <1>1 DEF SequencerInv, OfThePart, Returning
<1>3. part \in ConnectedSubgraphs /\ part \subseteq Edges
  BY <1>2, PartIsAPart
<1>4. /\ de \in outEdges(fromNode(seq[lit - 1])) /\ edge(de) \notin visited
      /\ fromNode(de) = fromNode(seq[lit - 1])
  BY <1>1, BestOfNode DEF outEdges
<1>5. lit - 1 \in 1..Len(seq) /\ lit - 1 \in 1..(Len(seq) + 1) /\ (lit - 1) + 1 = lit
  BY <1>1, <1>2 DEF OnTheWayBack, InUse
<1>6. de \in part \X BOOLEAN /\ edge(de) \in part
  <2>1. edge(seq[lit - 1]) \in part /\ seq[lit - 1] \in DirEdges
    BY <1>2, <1>3, <1>5, PlacesOfTrail
  <2>2. fromNode(seq[lit - 1]) \in EndsOf(edge(seq[lit - 1]))
    BY <1>2, <2>1, EndsOfEdges
  <2> QED
    BY <1>2, <1>3, <1>4, <2>1, <2>2, EdgesOfPart
<1>7. InUse(part, InsertAt(seq, lit - 1, de), visited \cup {edge(de)})
  BY <1>2, <1>4, <1>5, <1>6, InUseMore
<1>8. OnTheWay(InsertAt(seq, lit - 1, de), lit, visited \cup {edge(de)}, toNode(de), fromNode(de))
  BY <1>1, <1>2, <1>3, <1>4, <1>6, Detoured
<1>9. part' = part
  BY <1>1 DEF part
<1>10. OfThePart'
  BY <1>1, <1>2, <1>6, <1>7, <1>9 DEF OfThePart, InUse
<1>11. Going'
  BY <1>1, <1>5, <1>8, StillGoing
<1>12. AreLines' = AreLines /\ ConnectedSubgraphs' = ConnectedSubgraphs
  BY <1>1, SameParts
<1>13. DoneSoFar'
  BY <1>1, <1>2, <1>12, StillOver DEF DoneSoFar
<1> QED
  BY <1>1, <1>2, <1>10, <1>11, <1>12, <1>13 DEF SequencerInv

LEMMA StepBackKeeps ==
  ASSUME SequencerInv, StepBack
  PROVE  SequencerInv'
<1>1. /\ sequencing = "back" /\ lit > 1 /\ Best(fromNode(seq[lit - 1]), visited) = {} /\ lit' = lit - 1
      /\ lines' = lines /\ isRun' = isRun /\ isSequenceable' = isSequenceable /\ sequencing' = sequencing
      /\ partsLeft' = partsLeft /\ seq' = seq /\ visited' = visited /\ sequences' = sequences
      /\ answer' = answer
  BY DEF StepBack
<1>2. /\ AreLines /\ partsLeft \subseteq ConnectedSubgraphs /\ DoneSoFar /\ isRun /\ ~isSequenceable
      /\ answer # "yes" /\ partsLeft # {} /\ visited \subseteq part /\ InUse(part, seq, visited)
      /\ OnTheWayBack(seq, lit, visited)
  BY <1>1 DEF SequencerInv, OfThePart, Returning
<1>3. OnTheWayBack(seq, lit - 1, visited)
  BY <1>1, <1>2, BestOfNode, SteppedBack
<1>4. part' = part
  BY <1>1 DEF part
<1>5. OfThePart'
  BY <1>1, <1>2, <1>4 DEF OfThePart, InUse
<1>6. Returning'
  BY <1>1, <1>3, StillReturning
<1>7. AreLines' = AreLines /\ ConnectedSubgraphs' = ConnectedSubgraphs
  BY <1>1, SameParts
<1>8. DoneSoFar'
  BY <1>1, <1>2, <1>7, StillOver DEF DoneSoFar
<1> QED
  BY <1>1, <1>2, <1>5, <1>6, <1>7, <1>8 DEF SequencerInv

LEMMA EndPartKeeps ==
  ASSUME SequencerInv, EndPart
  PROVE  SequencerInv'
<1> DEFINE r == IF flipSeq(seq) THEN reverse(seq) ELSE seq
<1>1. /\ sequencing = "back" /\ lit = 1
      /\ sequences' = Append(sequences, r)
      /\ partsLeft' = partsLeft \ {part} /\ sequencing' = "parts"
      /\ lines' = lines /\ isRun' = isRun /\ isSequenceable' = isSequenceable /\ answer' = answer
  BY DEF EndPart
<1>2. /\ AreLines /\ partsLeft \subseteq ConnectedSubgraphs /\ DoneSoFar /\ isRun /\ ~isSequenceable
      /\ answer # "yes" /\ partsLeft # {} /\ visited \subseteq part /\ InUse(part, seq, visited)
      /\ OnTheWayBack(seq, 1, visited)
  BY <1>1 DEF SequencerInv, OfThePart, Returning
<1>3. part \in partsLeft /\ part \in ConnectedSubgraphs /\ part \subseteq Edges
  BY <1>2, PartIsAPart
<1>4. InUse(part, seq, part)
  BY <1>2, <1>3, PartEnded
<1>5. \A i \in 2..Len(seq) : Joined(seq, i)
  BY <1>2 DEF OnTheWayBack
<1>6. IsTrailOver(r, part)
  BY <1>2, <1>3, <1>4, <1>5, Oriented
<1>7. r \in Seq(DirEdges)
  <2>1. InUse(part, r, part)
    BY <1>2, <1>3, <1>4, <1>5, TrailReversed
  <2> HIDE DEF r
  <2>2. r \in Seq(part \X BOOLEAN)
    BY <2>1 DEF InUse
  <2>3. part \X BOOLEAN \subseteq DirEdges
    BY <1>3 DEF DirEdges
  <2> QED
    BY <2>2, <2>3
<1> HIDE DEF r
<1>8. TrailsOver(Append(sequences, r), (ConnectedSubgraphs \ partsLeft) \cup {part})
  BY <1>2, <1>3, <1>6, <1>7, OneMoreTrail DEF DoneSoFar
<1>9. AreLines' = AreLines /\ ConnectedSubgraphs' = ConnectedSubgraphs
  BY <1>1, SameParts
<1>10. (ConnectedSubgraphs \ partsLeft)' = (ConnectedSubgraphs \ partsLeft) \cup {part}
  BY <1>1, <1>2, <1>3, <1>9
<1>11. DoneSoFar'
  BY <1>1, <1>8, <1>10, StillOver
<1> QED
  BY <1>1, <1>2, <1>9, <1>11 DEF SequencerInv

LEMMA BuildKeeps ==
  ASSUME SequencerInv, Build
  PROVE  SequencerInv'
<1>1. /\ sequencing = "parts" /\ partsLeft = {} /\ isSequenceable' = TRUE /\ answer' = "yes"
      /\ sequencing' = "idle" /\ lines' = lines /\ isRun' = isRun /\ sequences' = sequences
  BY DEF Build
<1>2. AreLines /\ isRun /\ TrailsOver(sequences, ConnectedSubgraphs)
  <2>1. ConnectedSubgraphs \ partsLeft = ConnectedSubgraphs
    BY <1>1
  <2> QED
    BY <1>1, <2>1 DEF SequencerInv, DoneSoFar
<1>3. AreLines' = AreLines /\ ConnectedSubgraphs' = ConnectedSubgraphs
  BY <1>1, SameParts
<1>4. AllDone'
  BY <1>1, <1>2, <1>3, StillOver
<1> QED
  BY <1>1, <1>2, <1>3, <1>4 DEF SequencerInv

LEMMA SequencerStutters ==
  SequencerInv /\ UNCHANGED <<lines, sequencerVars>> => SequencerInv'
<1> SUFFICES ASSUME SequencerInv, UNCHANGED <<lines, sequencerVars>>
             PROVE  SequencerInv'
  OBVIOUS
<1>1. /\ lines' = lines /\ isRun' = isRun /\ isSequenceable' = isSequenceable /\ sequencing' = sequencing
      /\ partsLeft' = partsLeft /\ seq' = seq /\ lit' = lit /\ visited' = visited /\ at' = at
      /\ endNode' = endNode /\ sequences' = sequences /\ answer' = answer
  BY DEF sequencerVars, partVars
<1>2. AreLines' = AreLines /\ ConnectedSubgraphs' = ConnectedSubgraphs /\ part' = part
  BY <1>1, SameParts DEF part
<1>3. Going => Going'
  BY <1>1, StillGoing DEF Going
<1>4. Returning => Returning'
  BY <1>1, StillReturning DEF Returning
<1>5. DoneSoFar => DoneSoFar'
  BY <1>1, <1>2, StillOver DEF DoneSoFar
<1>6. AllDone => AllDone'
  BY <1>1, <1>2, StillOver DEF AllDone
<1>7. OfThePart => OfThePart'
  BY <1>1, <1>2 DEF OfThePart, InUse
<1> QED
  BY <1>1, <1>2, <1>3, <1>4, <1>5, <1>6, <1>7 DEF SequencerInv

LEMMA SequencerKeeps ==
  SequencerInv /\ [NextOfSequencer]_<<lines, sequencerVars>> => SequencerInv'
<1> SUFFICES ASSUME SequencerInv, [NextOfSequencer]_<<lines, sequencerVars>>
             PROVE  SequencerInv'
  OBVIOUS
<1>1. CASE sequencing = "new" /\ \E list \in ListsOfLines : AddAll(list)
  BY <1>1, AddAllKeeps
<1>2. CASE Ask
  BY <1>2, AskKeeps
<1>3. CASE AbortParts
  <2>1. /\ sequencing = "parts" /\ lines' = lines /\ isRun' = isRun
        /\ isSequenceable' = isSequenceable /\ sequencing' = "idle" /\ answer' # "yes"
    BY <1>3 DEF AbortParts
  <2> QED
    BY <2>1, GivenUp
<1>4. CASE EndTrail
  BY <1>4, EndTrailKeeps
<1>5. CASE StepBack
  BY <1>5, StepBackKeeps
<1>6. CASE EndPart
  BY <1>6, EndPartKeeps
<1>7. CASE Build
  BY <1>7, BuildKeeps
<1>8. CASE \E de \in DirEdges : StartPart(de) \/ Extend(de) \/ StartDetour(de)
  BY <1>8, StartPartKeeps, ExtendKeeps, StartDetourKeeps
<1>9. CASE UNCHANGED <<lines, sequencerVars>>
  BY <1>9, SequencerStutters
<1> QED
  BY <1>1, <1>2, <1>3, <1>4, <1>5, <1>6, <1>7, <1>8, <1>9 DEF NextOfSequencer

\* The invariant holds in every state of the sequencer.
THEOREM SequencerInvariance == SpecOfSequencer => []SequencerInv
<1>1. lines = <<>> /\ NotSequenced => SequencerInv
  BY SequencerStarts
<1>2. SequencerInv /\ [NextOfSequencer]_<<lines, sequencerVars>> => SequencerInv'
  BY SequencerKeeps
<1> QED
  BY <1>1, <1>2, PTL DEF SpecOfSequencer

LEMMA InvGivesTrails == SequencerInv => SequencesAreTrails
<1> SUFFICES ASSUME SequencerInv, answer = "yes"
             PROVE  /\ Len(sequences) = Cardinality(ConnectedSubgraphs)
                    /\ \A E \in ConnectedSubgraphs : \E k \in DOMAIN sequences : IsTrailOver(sequences[k], E)
                    /\ isSequenced(sequencedGeometry)
  BY DEF SequencesAreTrails
<1>1. AreLines /\ TrailsOver(sequences, ConnectedSubgraphs)
  BY DEF SequencerInv, AllDone
<1>2. sequencedGeometry = LinesOf(FlattenSeq(sequences))
  BY DEF sequencedGeometry, LinesOf
<1> QED
  BY <1>1, <1>2, TrailsOverAll, TrailsAreSequenced

THEOREM TrailsAreFound == SpecOfSequencer => []SequencesAreTrails
BY SequencerInvariance, InvGivesTrails, PTL
------------------------------------------------------------------------------
(***************************************************************************)
(* Parity: how many edges of F lead out of v, one way or the other.        *)
(***************************************************************************)
Leaving(v, F) == {de \in F \X BOOLEAN : fromNode(de) = v}
Odd(v, F) == Cardinality(Leaving(v, F)) % 2 = 1

LEMMA ParityTurns ==
  ASSUME NEW S, IsFiniteSet(S), NEW x, x \notin S
  PROVE  /\ IsFiniteSet(S \cup {x})
         /\ Cardinality(S \cup {x}) % 2 = 1 <=> Cardinality(S) % 2 # 1
<1>1. IsFiniteSet(S \cup {x}) /\ Cardinality(S \cup {x}) = Cardinality(S) + 1 /\ Cardinality(S) \in Nat
  BY FS_AddElement, FS_CardinalityType
<1>2. \A k \in Nat : (k + 1) % 2 = 1 <=> k % 2 # 1
  OBVIOUS
<1> QED
  BY <1>1, <1>2

LEMMA LeavingIsFinite ==
  ASSUME AreLines, NEW F \in SUBSET Edges, NEW v
  PROVE  Leaving(v, F) \subseteq outEdges(v) /\ IsFiniteSet(Leaving(v, F))
<1>1. Leaving(v, F) \subseteq outEdges(v)
  BY DEF Leaving, outEdges, DirEdges
<1> QED
  BY <1>1, OutEdgesOfNode, FS_Subset

\* An edge more turns the parity of its two ends, unless they are one.
LEMMA OddnessTurns ==
  ASSUME AreLines, NEW F \in SUBSET Edges, NEW d \in DirEdges, edge(d) \notin F, NEW v
  PROVE  Odd(v, F \cup {edge(d)}) <=> (Odd(v, F) <=> (v = fromNode(d) <=> v = toNode(d)))
<1> DEFINE L == Leaving(v, F)
           M == Leaving(v, F \cup {edge(d)})
           sym == getSym(d)
<1>1. /\ edge(d) \in Edges /\ getEdgeDirection(d) \in BOOLEAN
      /\ d = <<edge(d), getEdgeDirection(d)>> /\ sym = <<edge(d), ~getEdgeDirection(d)>>
      /\ toNode(d) = fromNode(sym)
  BY EndsOfEdges
<1>2. IsFiniteSet(L)
  BY LeavingIsFinite
<1>3. d \notin L /\ sym \notin L /\ d # sym
  <2>1. \A c \in F \X BOOLEAN : c[1] \in F
    OBVIOUS
  <2>2. d[1] \notin F /\ sym[1] \notin F
    BY <1>1 DEF edge
  <2>3. getEdgeDirection(d) # ~getEdgeDirection(d)
    BY <1>1
  <2>4. d # sym
    BY <1>1, <2>3
  <2> QED
    BY <2>1, <2>2, <2>4 DEF Leaving
<1>4. ASSUME NEW c
      PROVE  c \in M <=> c \in L \/ (c = d /\ v = fromNode(d)) \/ (c = sym /\ v = toNode(d))
  <2>1. ASSUME c \in M, c \notin L
        PROVE  (c = d /\ v = fromNode(d)) \/ (c = sym /\ v = toNode(d))
    <3>1. PICK e \in F \cup {edge(d)}, b \in BOOLEAN : c = <<e, b>>
      BY <2>1 DEF Leaving
    <3>2. fromNode(c) = v
      BY <2>1 DEF Leaving
    <3>3. e = edge(d)
      BY <2>1, <3>1, <3>2 DEF Leaving
    <3>4. c = d \/ c = sym
      <4>1. b = getEdgeDirection(d) \/ b = ~getEdgeDirection(d)
        BY <1>1, <3>1
      <4> QED
        BY <1>1, <3>1, <3>3, <4>1
    <3> QED
      BY <1>1, <3>2, <3>4
  <2>2. c \in L => c \in M
    BY DEF Leaving
  <2>3. d \in (F \cup {edge(d)}) \X BOOLEAN /\ sym \in (F \cup {edge(d)}) \X BOOLEAN
    <3>1. edge(d) \in F \cup {edge(d)} /\ (~getEdgeDirection(d)) \in BOOLEAN
      BY <1>1
    <3>2. \A b \in BOOLEAN : <<edge(d), b>> \in (F \cup {edge(d)}) \X BOOLEAN
      BY <3>1
    <3> HIDE DEF sym
    <3> QED
      BY <1>1, <3>1, <3>2
  <2>4. c = d /\ v = fromNode(d) => c \in M
    BY <2>3 DEF Leaving
  <2>5. c = sym /\ v = toNode(d) => c \in M
    BY <1>1, <2>3 DEF Leaving
  <2> QED
    BY <2>1, <2>2, <2>4, <2>5
<1>5. Odd(v, F) <=> Cardinality(L) % 2 = 1
  BY DEF Odd
<1>6. Odd(v, F \cup {edge(d)}) <=> Cardinality(M) % 2 = 1
  BY DEF Odd
<1> HIDE DEF L, M, sym
<1>7. CASE v = fromNode(d) /\ v = toNode(d)
  <2>1. M = (L \cup {d}) \cup {sym}
    BY <1>4, <1>7
  <2>2. /\ IsFiniteSet(L \cup {d})
        /\ Cardinality(L \cup {d}) % 2 = 1 <=> Cardinality(L) % 2 # 1
    BY <1>2, <1>3, ParityTurns
  <2>3. sym \notin L \cup {d}
    BY <1>3
  <2>4. Cardinality(M) % 2 = 1 <=> Cardinality(L \cup {d}) % 2 # 1
    BY <2>1, <2>2, <2>3, ParityTurns
  <2> QED
    BY <1>5, <1>6, <1>7, <2>2, <2>4
<1>8. CASE v = fromNode(d) /\ v # toNode(d)
  <2>1. M = L \cup {d}
    BY <1>4, <1>8
  <2> QED
    BY <1>2, <1>3, <1>5, <1>6, <1>8, <2>1, ParityTurns
<1>9. CASE v # fromNode(d) /\ v = toNode(d)
  <2>1. M = L \cup {sym}
    BY <1>4, <1>9
  <2> QED
    BY <1>2, <1>3, <1>5, <1>6, <1>9, <2>1, ParityTurns
<1>10. CASE v # fromNode(d) /\ v # toNode(d)
  <2>1. M = L
    BY <1>4, <1>10
  <2> QED
    BY <1>5, <1>6, <1>10, <2>1
<1> QED
  BY <1>7, <1>8, <1>9, <1>10

\* Of one edge the ends are odd, unless they are one.
LEMMA OneEdge ==
  ASSUME AreLines, NEW d \in DirEdges, NEW v
  PROVE  Odd(v, {edge(d)}) <=> ~(v = fromNode(d) <=> v = toNode(d))
<1>1. Leaving(v, {}) = {}
  BY DEF Leaving
<1>2. Cardinality(Leaving(v, {})) = 0
  BY <1>1, FS_EmptySet
<1>3. ~Odd(v, {})
  BY <1>2 DEF Odd
<1>4. {} \in SUBSET Edges /\ edge(d) \notin {} /\ {} \cup {edge(d)} = {edge(d)}
  OBVIOUS
<1>5. Odd(v, {} \cup {edge(d)}) <=> (Odd(v, {}) <=> (v = fromNode(d) <=> v = toNode(d)))
  BY <1>4, OddnessTurns
<1> QED
  BY <1>3, <1>4, <1>5

\* Where all edges are used, or all are of one part, oddness is that of the degree.
LEMMA OddDegree ==
  ASSUME AreLines, NEW F \in SUBSET Edges, NEW v, UsedUp(v, F)
  PROVE  Odd(v, F) <=> getDegree(v) % 2 = 1
<1>1. Leaving(v, F) = outEdges(v)
  <2>1. ASSUME NEW de \in outEdges(v)
        PROVE  de \in Leaving(v, F)
    <3>1. de \in DirEdges /\ fromNode(de) = v /\ edge(de) \in F
      BY DEF outEdges, UsedUp
    <3>2. de = <<edge(de), getEdgeDirection(de)>> /\ getEdgeDirection(de) \in BOOLEAN
      BY <3>1, EndsOfEdges
    <3>3. de \in F \X BOOLEAN
      BY <3>1, <3>2
    <3> QED
      BY <3>1, <3>3 DEF Leaving
  <2> QED
    BY <2>1, LeavingIsFinite
<1> QED
  BY <1>1 DEF Odd, getDegree

LEMMA PartUsesUp ==
  ASSUME AreLines, NEW P \in ConnectedSubgraphs, NEW v \in EndsOfAll(P)
  PROVE  UsedUp(v, P) /\ (Odd(v, P) <=> v \in OddNodes(P))
<1>1. PICK f \in P : v \in EndsOf(f)
  BY DEF EndsOfAll
<1>2. P \subseteq Edges
  BY PartsAreEdges
<1>3. UsedUp(v, P)
  BY <1>1, EdgesOfPart DEF UsedUp
<1> QED
  BY <1>2, <1>3, OddDegree DEF OddNodes

\* F is as odd as a trail from n to m, or as that and one from e to a.
Balanced(F, n, m) == \A v \in Nodes : Odd(v, F) <=> ~(v = n <=> v = m)
Detouring(F, n, m, e, a) == \A v \in Nodes : Odd(v, F) <=> ~((v = n <=> v = m) <=> (v = e <=> v = a))

LEMMA BalancedFurther ==
  ASSUME AreLines, NEW F \in SUBSET Edges, NEW d \in DirEdges, edge(d) \notin F
  PROVE  /\ \A n : Balanced(F, n, fromNode(d)) => Balanced(F \cup {edge(d)}, n, toNode(d))
         /\ \A n, m : Balanced(F, n, m) => Detouring(F \cup {edge(d)}, n, m, fromNode(d), toNode(d))
         /\ \A n, m, e : Detouring(F, n, m, e, fromNode(d)) => Detouring(F \cup {edge(d)}, n, m, e, toNode(d))
<1>1. \A v : Odd(v, F \cup {edge(d)}) <=> (Odd(v, F) <=> (v = fromNode(d) <=> v = toNode(d)))
  BY OddnessTurns
<1>2. \A n : Balanced(F, n, fromNode(d)) => Balanced(F \cup {edge(d)}, n, toNode(d))
  BY <1>1, Zenon DEF Balanced
<1>3. \A n, m : Balanced(F, n, m) => Detouring(F \cup {edge(d)}, n, m, fromNode(d), toNode(d))
  BY <1>1, Zenon DEF Balanced, Detouring
<1>4. \A n, m, e : Detouring(F, n, m, e, fromNode(d)) => Detouring(F \cup {edge(d)}, n, m, e, toNode(d))
  BY <1>1, Zenon DEF Detouring
<1> QED
  BY <1>2, <1>3, <1>4

LEMMA BalancedFirst ==
  ASSUME AreLines, NEW d \in DirEdges
  PROVE  Balanced({edge(d)}, fromNode(d), toNode(d))
BY OneEdge DEF Balanced

LEMMA DetourClosed ==
  ASSUME NEW F, NEW n, NEW m, NEW a, Detouring(F, n, m, a, a)
  PROVE  Balanced(F, n, m)
BY DEF Detouring, Balanced

\* Over a whole part: the odd nodes are where the trail starts and where it ends.
LEMMA OddEnds ==
  ASSUME AreLines, NEW P \in ConnectedSubgraphs, NEW n \in EndsOfAll(P), NEW m \in EndsOfAll(P),
         Balanced(P, n, m)
  PROVE  /\ OddNodes(P) = IF n = m THEN {} ELSE {n, m}
         /\ hasSequence(P)
<1>1. EndsOfAll(P) \subseteq Nodes
  <2>1. P \subseteq Edges
    BY PartsAreEdges
  <2>2. \A e \in P : EndsOf(e) \subseteq Nodes
    BY <2>1, EndsAreNodes
  <2> QED
    BY <2>2 DEF EndsOfAll
<1>2. \A v \in EndsOfAll(P) : v \in OddNodes(P) <=> ~(v = n <=> v = m)
  BY <1>1, PartUsesUp DEF Balanced
<1>3. OddNodes(P) \subseteq EndsOfAll(P)
  BY DEF OddNodes
<1>4. OddNodes(P) = IF n = m THEN {} ELSE {n, m}
  BY <1>2, <1>3
<1>5. Cardinality(OddNodes(P)) <= 2
  <2>1. CASE n = m
    <3>1. OddNodes(P) = {}
      BY <1>4, <2>1
    <3>2. Cardinality(OddNodes(P)) = 0
      BY <3>1, FS_EmptySet
    <3> QED
      BY <3>2
  <2>2. CASE n # m
    <3>1. OddNodes(P) = {n} \cup {m} /\ m \notin {n}
      BY <1>4, <2>2
    <3>2. IsFiniteSet({n}) /\ Cardinality({n}) = 1
      BY FS_Singleton
    <3>3. Cardinality({n} \cup {m}) = Cardinality({n}) + 1
      BY <3>1, <3>2, FS_AddElement
    <3>4. Cardinality(OddNodes(P)) = 2
      BY <3>1, <3>2, <3>3
    <3> QED
      BY <3>4
  <2> QED
    BY <2>1, <2>2
<1> QED
  BY <1>4, <1>5 DEF hasSequence

LEMMA PartsAreFinite ==
  ASSUME AreLines, NEW P \in ConnectedSubgraphs
  PROVE  /\ IsFiniteSet(P) /\ Cardinality(P) \in Nat /\ Cardinality(P) >= 1
         /\ P \subseteq Edges /\ EndsOfAll(P) \subseteq Nodes
         /\ \A d \in DirEdges : edge(d) \in P => fromNode(d) \in EndsOfAll(P) /\ toNode(d) \in EndsOfAll(P)
<1>1. P \subseteq Edges /\ P # {}
  BY PartsAreEdges
<1>2. IsFiniteSet(P) /\ Cardinality(P) \in Nat
  BY <1>1, EndsOfEdges, FS_Subset, FS_CardinalityType
<1>3. Cardinality(P) # 0
  BY <1>1, <1>2, FS_EmptySet
<1>4. \A e \in P : EndsOf(e) \subseteq Nodes
  BY <1>1, EndsAreNodes
<1>5. EndsOfAll(P) \subseteq Nodes
  BY <1>4 DEF EndsOfAll
<1>6. ASSUME NEW d \in DirEdges, edge(d) \in P
      PROVE  fromNode(d) \in EndsOfAll(P) /\ toNode(d) \in EndsOfAll(P)
  <2>1. EndsOf(edge(d)) = {fromNode(d), toNode(d)}
    BY EndsOfEdges
  <2> QED
    BY <1>6, <2>1 DEF EndsOfAll
<1> QED
  BY <1>1, <1>2, <1>3, <1>5, <1>6

\* Euler: a trail leaves no node odd but its two ends.
LEMMA TrailIsBalanced ==
  ASSUME AreLines, NEW P \in ConnectedSubgraphs, HasTrail(P)
  PROVE  \E n \in EndsOfAll(P), m \in EndsOfAll(P) : Balanced(P, n, m)
<1> DEFINE n == Cardinality(P)
<1>1. n \in Nat /\ n >= 1 /\ P \subseteq Edges
  BY PartsAreFinite
<1>2. PICK order \in Bijection(1..n, P), along \in [1..n -> BOOLEAN] :
        \A i \in 2..n : fromNode(<<order[i], along[i]>>) = toNode(<<order[i - 1], along[i - 1]>>)
  BY DEF HasTrail
<1> HIDE DEF n
<1>3. /\ \A i \in 1..n : order[i] \in P /\ along[i] \in BOOLEAN
      /\ \A i, j \in 1..n : order[i] = order[j] => i = j
      /\ \A e \in P : \E i \in 1..n : order[i] = e
  BY <1>2 DEF Bijection, Injection, Surjection, IsInjective
<1> DEFINE d == [i \in 1..n |-> <<order[i], along[i]>>]
           F == [k \in 1..n |-> {order[i] : i \in 1..k}]
           Claim(k) == Balanced(F[k], fromNode(d[1]), toNode(d[k]))
<1>4. \A i \in 1..n : d[i] \in DirEdges /\ edge(d[i]) = order[i]
  BY <1>1, <1>3 DEF DirEdges, edge
<1>5. \A i \in 2..n : fromNode(d[i]) = toNode(d[i - 1])
  <2>1. \A i \in 2..n : i \in 1..n /\ i - 1 \in 1..n
    BY <1>1
  <2> QED
    BY <1>2, <2>1
<1>6. F[1] = {edge(d[1])} /\ 1 \in 1..n
  <2>1. 1 \in 1..n /\ 1..1 = {1}
    BY <1>1
  <2> QED
    BY <1>4, <2>1
<1>7. ASSUME NEW k \in 2..n
      PROVE  /\ k \in 1..n /\ k - 1 \in 1..n /\ F[k - 1] \in SUBSET Edges
             /\ edge(d[k]) \notin F[k - 1] /\ F[k] = F[k - 1] \cup {edge(d[k])}
  <2>1. k \in 1..n /\ k - 1 \in 1..n /\ 1..k = 1..(k - 1) \cup {k} /\ 1..(k - 1) \subseteq 1..n
        /\ k \notin 1..(k - 1)
    BY <1>1
  <2>2. F[k - 1] = {order[i] : i \in 1..(k - 1)} /\ F[k] = {order[i] : i \in 1..k}
    BY <2>1
  <2>3. edge(d[k]) = order[k]
    BY <1>4, <2>1
  <2>4. F[k] = F[k - 1] \cup {edge(d[k])}
    BY <2>1, <2>2, <2>3
  <2>5. edge(d[k]) \notin F[k - 1]
    BY <1>3, <2>1, <2>2, <2>3
  <2>6. F[k - 1] \in SUBSET Edges
    BY <1>1, <1>3, <2>1, <2>2
  <2> QED
    BY <2>1, <2>4, <2>5, <2>6
<1>8. F[n] = P
  <2>1. F[n] = {order[i] : i \in 1..n}
    BY <1>1
  <2>2. {order[i] : i \in 1..n} = P
    <3>1. ASSUME NEW e \in P
          PROVE  e \in {order[i] : i \in 1..n}
      <4>1. PICK i \in 1..n : order[i] = e
        BY <1>3
      <4> QED
        BY <4>1
    <3>2. ASSUME NEW e \in {order[i] : i \in 1..n}
          PROVE  e \in P
      <4>1. PICK i \in 1..n : order[i] = e
        BY <3>2
      <4> QED
        BY <1>3, <4>1
    <3> QED
      BY <3>1, <3>2
  <2> QED
    BY <2>1, <2>2
<1> HIDE DEF d, F
<1>9. Claim(1)
  BY <1>4, <1>6, BalancedFirst
<1>10. ASSUME NEW k \in 2..n, Claim(k - 1)
       PROVE  Claim(k)
  <2>1. fromNode(d[k]) = toNode(d[k - 1]) /\ d[k] \in DirEdges
    BY <1>4, <1>5, <1>7
  <2>2. Balanced(F[k - 1], fromNode(d[1]), fromNode(d[k]))
    BY <1>10, <2>1
  <2>3. Balanced(F[k - 1] \cup {edge(d[k])}, fromNode(d[1]), toNode(d[k]))
    BY <1>7, <2>1, <2>2, BalancedFurther
  <2> QED
    BY <1>7, <2>3
<1> HIDE DEF Claim
<1>11. Claim(n)
  <2> DEFINE Bad == {k \in 1..n : ~Claim(k)}
  <2>1. SUFFICES ASSUME Bad # {}
                 PROVE  FALSE
    BY <1>1
  <2>2. Bad \in SUBSET Nat
    BY <1>1
  <2>3. PICK k \in Bad : \A j \in Bad : k <= j
    <3> HIDE DEF Bad
    <3> QED
      BY <2>1, <2>2, LeastElement
  <2>4. k # 1
    BY <1>9, <2>3
  <2>5. k \in 2..n /\ k - 1 \in 1..n /\ ~(k <= k - 1)
    BY <1>1, <2>3, <2>4
  <2>6. Claim(k - 1)
    BY <2>3, <2>5
  <2> QED
    BY <1>10, <2>3, <2>5, <2>6
<1>12. n \in 1..n /\ d[1] \in DirEdges /\ edge(d[1]) \in P /\ d[n] \in DirEdges /\ edge(d[n]) \in P
  BY <1>1, <1>3, <1>4, <1>6
<1>13. fromNode(d[1]) \in EndsOfAll(P) /\ toNode(d[n]) \in EndsOfAll(P)
  BY <1>12, PartsAreFinite
<1> QED
  BY <1>8, <1>11, <1>13 DEF Claim

LEMMA TrailMeansSequence ==
  ASSUME AreLines, NEW P \in ConnectedSubgraphs, HasTrail(P)
  PROVE  hasSequence(P)
BY TrailIsBalanced, OddEnds

\* What IsTrailOver says is a trail is one.
LEMMA TrailOverHasTrail ==
  ASSUME AreLines, NEW P \in ConnectedSubgraphs, NEW s \in Seq(DirEdges), IsTrailOver(s, P)
  PROVE  HasTrail(P)
<1> DEFINE n == Cardinality(P)
           order == [i \in 1..n |-> edge(s[i])]
           along == [i \in 1..n |-> getEdgeDirection(s[i])]
<1>1. IsFiniteSet(P) /\ n \in Nat
  BY PartsAreFinite
<1>2. /\ {edge(s[i]) : i \in DOMAIN s} = P /\ Len(s) = n
      /\ \A i \in 2..Len(s) : fromNode(s[i]) = toNode(s[i - 1])
  BY DEF IsTrailOver
<1> HIDE DEF n
<1>3. DOMAIN s = 1..n /\ \A i \in 1..n : s[i] \in DirEdges
  BY <1>2
<1>4. \A i \in 1..n : /\ edge(s[i]) \in P /\ getEdgeDirection(s[i]) \in BOOLEAN
                      /\ s[i] = <<edge(s[i]), getEdgeDirection(s[i])>>
  BY <1>2, <1>3, EndsOfEdges
<1>5. \A e \in P : \E i \in 1..n : edge(s[i]) = e
  BY <1>2, <1>3
<1>6. along \in [1..n -> BOOLEAN] /\ order \in Surjection(1..n, P)
  BY <1>4, <1>5, Zenon DEF Surjection
<1>7. order \in Bijection(1..n, P)
  <2>1. IsFiniteSet(1..n) /\ Cardinality(1..n) = n
    BY <1>1, FS_Interval
  <2>2. order \in Injection(1..n, P)
    <3> HIDE DEF order
    <3> QED
      BY <1>1, <1>6, <2>1, FS_SurjSameCardinalityImpliesInj DEF n
  <2> QED
    BY <1>6, <2>2 DEF Bijection
<1>8. \A i \in 1..n : <<order[i], along[i]>> = s[i]
  BY <1>4
<1>9. \A i \in 2..n : fromNode(<<order[i], along[i]>>) = toNode(<<order[i - 1], along[i - 1]>>)
  <2>1. \A i \in 2..n : i \in 1..n /\ i - 1 \in 1..n
    BY <1>1
  <2> HIDE DEF order, along
  <2> QED
    BY <1>2, <1>8, <2>1
<1> QED
  <2> HIDE DEF order, along
  <2> QED
    BY <1>6, <1>7, <1>9 DEF HasTrail, n

\* A detour that does not come back: the two odd nodes are elsewhere.
LEMMA DetourIsAstray ==
  ASSUME AreLines, NEW P \in ConnectedSubgraphs, hasSequence(P), NEW used \in SUBSET P,
         NEW m \in EndsOfAll(P), NEW e, NEW a \in EndsOfAll(P), m \notin {e, a}, a # e,
         Detouring(used, findLowestDegreeNode(P), m, e, a), UsedUp(m, used), UsedUp(a, used)
  PROVE  StartsAstray(P)
<1> DEFINE n == findLowestDegreeNode(P)
           O == OddNodes(P)
<1>1. used \in SUBSET Edges /\ EndsOfAll(P) \subseteq Nodes
  BY PartsAreFinite
<1>2. \A v \in {m, a} : v \in O <=> Odd(v, used)
  BY <1>1, OddDegree DEF OddNodes
<1>3. \A v \in {m, a} : v \in O <=> ~((v = n <=> v = m) <=> (v = e <=> v = a))
  BY <1>1, <1>2 DEF Detouring
<1>4. IsFiniteSet(O) /\ Cardinality(O) <= 2
  <2>1. IsFiniteSet(P) /\ \A f \in P : EndsOf(f) = {fromNode(<<f, TRUE>>)} \cup {toNode(<<f, TRUE>>)}
    BY PartsAreFinite DEF EndsOf
  <2>2. IsFiniteSet(Nodes)
    <3>1. DOMAIN lines = 1..Len(lines) /\ Len(lines) \in Nat
      BY DEF AreLines
    <3>2. IsFiniteSet(DOMAIN lines)
      BY <3>1, FS_Interval
    <3>3. /\ IsFiniteSet({lines[i].from : i \in DOMAIN lines})
          /\ IsFiniteSet({lines[i].to : i \in DOMAIN lines})
      <4> DEFINE D == DOMAIN lines
                 f == [i \in D |-> lines[i].from]
                 g == [i \in D |-> lines[i].to]
      <4>1. IsFiniteSet({f[i] : i \in D}) /\ IsFiniteSet({g[i] : i \in D})
        <5>1. f \in Surjection(D, {f[i] : i \in D}) /\ g \in Surjection(D, {g[i] : i \in D})
          BY DEF Surjection
        <5> QED
          BY <3>2, <5>1, FS_Surjection
      <4>2. /\ {f[i] : i \in D} = {lines[i].from : i \in D}
            /\ {g[i] : i \in D} = {lines[i].to : i \in D}
        OBVIOUS
      <4> QED
        BY <4>1, <4>2
    <3> QED
      BY <3>3, FS_Union DEF Nodes
  <2>3. O \subseteq Nodes
    BY <1>1 DEF OddNodes
  <2> QED
    BY <2>2, <2>3, FS_Subset DEF hasSequence
<1>5. n \in EndsOfAll(P)
  BY LowestDegreeNode
<1> HIDE DEF n, O
<1>6. O # {} /\ n \notin O
  <2>1. CASE a = n
    BY <1>3, <2>1
  <2>2. CASE a # n /\ m = n
    BY <1>3, <2>2
  <2>3. CASE a # n /\ m # n
    <3>1. a \in O /\ m \in O
      BY <1>3, <2>3
    <3>2. ASSUME n \in O
          PROVE  FALSE
      <4>1. {n, m, a} \subseteq O
        BY <3>1, <3>2
      <4>2. IsFiniteSet({n}) /\ Cardinality({n}) = 1
        BY FS_Singleton
      <4>3. IsFiniteSet({n} \cup {m}) /\ Cardinality({n} \cup {m}) = 2
        BY <2>3, <4>2, FS_AddElement
      <4>4. Cardinality({n} \cup {m} \cup {a}) = 3
        <5> DEFINE two == {n} \cup {m}
        <5>1. a \notin two
          BY <2>3
        <5>2. IsFiniteSet(two) /\ Cardinality(two) = 2
          BY <4>3
        <5> HIDE DEF two
        <5>3. Cardinality(two \cup {a}) = Cardinality(two) + 1
          BY <5>1, <5>2, FS_AddElement
        <5> QED
          BY <5>2, <5>3 DEF two
      <4>5. {n, m, a} = {n} \cup {m} \cup {a}
        OBVIOUS
      <4>6. Cardinality({n, m, a}) <= Cardinality(O)
        BY <1>4, <4>1, FS_Subset
      <4>7. Cardinality(O) \in Nat
        BY <1>4, FS_CardinalityType
      <4> QED
        BY <1>4, <4>4, <4>5, <4>6, <4>7
    <3> QED
      BY <3>1, <3>2
  <2> QED
    BY <2>1, <2>2, <2>3
<1> QED
  BY <1>6 DEF StartsAstray, n, O

(***************************************************************************)
(* The invariant: what is odd among the used edges, and what was decided.  *)
(***************************************************************************)
origin == findLowestDegreeNode(part)
farEnd == toNode(seq[Len(seq)])
BegunWell == {E \in ConnectedSubgraphs : ~StartsAstray(E)}
Refusing == {E \in ConnectedSubgraphs : ~HasTrail(E) \/ StartsAstray(E)}
Begun == hasSequence(part) /\ fromNode(seq[1]) = origin
Leading == Balanced(visited, origin, at)
Coming == Balanced(visited, origin, farEnd)
Straying == Detouring(visited, origin, farEnd, endNode, at) /\ farEnd \notin {endNode, at}

EulerInv ==
  /\ ~isRun \/ sequencing # "idle" => answer = "none"
  /\ isSequenceable => answer = "yes" /\ ConnectedSubgraphs \subseteq BegunWell
  /\ isRun /\ sequencing = "idle" /\ ~isSequenceable => Refusing # {}
  /\ sequencing \in {"parts", "trail", "back"} => ConnectedSubgraphs \ partsLeft \subseteq BegunWell
  /\ sequencing \in {"trail", "back"} => Begun
  /\ sequencing = "trail" => IF endNode = NoNode THEN Leading ELSE Straying
  /\ sequencing = "back" => Coming

LEMMA SameVerdict ==
  lines' = lines => BegunWell' = BegunWell /\ Refusing' = Refusing
BY DEF BegunWell, Refusing, HasTrail, StartsAstray, OddNodes, findLowestDegreeNode, getDegree, outEdges,
       DirEdges, ConnectedSubgraphs, Connected, Edges, Nodes, EndsOfAll, EndsOf, NoWayOut,
       fromNode, toNode, getSym

LEMMA SameOrigin ==
  lines' = lines /\ partsLeft' = partsLeft =>
    /\ part' = part /\ origin' = origin /\ (hasSequence(part) => hasSequence(part)')
<1> SUFFICES ASSUME lines' = lines, partsLeft' = partsLeft
             PROVE  part' = part /\ origin' = origin /\ (hasSequence(part) => hasSequence(part)')
  OBVIOUS
<1>1. part' = part
  BY DEF part
<1>2. origin' = origin
  BY <1>1 DEF origin, findLowestDegreeNode, getDegree, outEdges, DirEdges, Edges, EndsOfAll, EndsOf,
              fromNode, toNode, getSym
<1>3. hasSequence(part) => hasSequence(part)'
  BY <1>1 DEF hasSequence, OddNodes, getDegree, outEdges, DirEdges, Edges, EndsOfAll, EndsOf,
              fromNode, toNode, getSym
<1> QED
  BY <1>1, <1>2, <1>3

LEMMA StillBegun ==
  ASSUME Begun, NEW s, seq' = s, fromNode(s[1]) = origin, lines' = lines, partsLeft' = partsLeft
  PROVE  Begun'
<1>1. fromNode(seq[1])' = fromNode(s[1])
  BY DEF fromNode
<1> QED
  BY <1>1, SameOrigin DEF Begun

LEMMA FarEndOf ==
  ASSUME NEW s, seq' = s, lines' = lines
  PROVE  farEnd' = toNode(s[Len(s)])
BY DEF farEnd, toNode, fromNode, getSym

LEMMA SameOddness ==
  ASSUME NEW F, lines' = lines, visited' = F, NEW v
  PROVE  Odd(v, visited)' <=> Odd(v, F)
<1>1. Leaving(v, visited)' = Leaving(v, F)
  BY DEF Leaving, fromNode
<1> QED
  BY <1>1 DEF Odd

LEMMA StillBalanced ==
  ASSUME NEW F, NEW n, NEW m, Balanced(F, n, m), lines' = lines, visited' = F, origin' = n
  PROVE  (at' = m => Leading') /\ (farEnd' = m => Coming')
<1>1. \A v : Odd(v, visited)' <=> Odd(v, F)
  BY SameOddness
<1>2. Nodes' = Nodes
  BY DEF Nodes
<1> QED
  BY <1>1, <1>2 DEF Leading, Coming, Balanced

LEMMA StillStraying ==
  ASSUME NEW F, NEW n, NEW m, NEW e, NEW a, Detouring(F, n, m, e, a), m \notin {e, a},
         lines' = lines, visited' = F, origin' = n, farEnd' = m, endNode' = e, at' = a
  PROVE  Straying'
<1>1. \A v : Odd(v, visited)' <=> Odd(v, F)
  BY SameOddness
<1>2. Nodes' = Nodes
  BY DEF Nodes
<1> QED
  BY <1>1, <1>2 DEF Straying, Detouring

LEMMA EulerStarts ==
  NotSequenced => EulerInv
BY DEF NotSequenced, EulerInv

LEMMA AddAllDecides ==
  SequencerInv /\ EulerInv /\ (sequencing = "new" /\ \E list \in ListsOfLines : AddAll(list)) => EulerInv'
<1> SUFFICES ASSUME SequencerInv, EulerInv, sequencing = "new", NEW list \in ListsOfLines, AddAll(list)
             PROVE  EulerInv'
  OBVIOUS
<1>1. sequencing' = "idle" /\ isRun' = isRun /\ isSequenceable' = isSequenceable /\ answer' = answer
  BY DEF AddAll
<1>2. ~isRun /\ ~isSequenceable /\ answer = "none"
  BY DEF SequencerInv, EulerInv
<1> QED
  BY <1>1, <1>2 DEF EulerInv

LEMMA AskDecides ==
  SequencerInv /\ EulerInv /\ Ask => EulerInv'
<1> SUFFICES ASSUME SequencerInv, EulerInv, Ask
             PROVE  EulerInv'
  OBVIOUS
<1>1. /\ lines' = lines /\ isSequenceable' = isSequenceable /\ sequencing = "idle"
      /\ ConnectedSubgraphs' = ConnectedSubgraphs /\ BegunWell' = BegunWell /\ Refusing' = Refusing
  BY SameParts, SameVerdict DEF Ask
<1>2. CASE isRun
  <2>1. /\ isRun' = isRun /\ sequencing' = sequencing
        /\ answer' = IF isSequenceable THEN "yes" ELSE "no"
    BY <1>2 DEF Ask
  <2> QED
    BY <1>1, <1>2, <2>1 DEF EulerInv
<1>3. CASE ~isRun
  <2>1. sequencing' = "parts" /\ partsLeft' = ConnectedSubgraphs /\ answer' = "none"
    BY <1>3 DEF Ask
  <2>2. ~isSequenceable
    BY <1>3 DEF SequencerInv
  <2>3. (ConnectedSubgraphs \ partsLeft)' = {}
    BY <1>1, <2>1
  <2> QED
    BY <1>1, <2>1, <2>2, <2>3 DEF EulerInv
<1> QED
  BY <1>2, <1>3

\* Given up for a part that has no trail, or whose trail starts astray.
LEMMA RightlyGivenUp ==
  ASSUME SequencerInv, EulerInv, sequencing \in {"parts", "trail", "back"}, lines' = lines, isRun' = isRun,
         isSequenceable' = isSequenceable, sequencing' = "idle", part \in Refusing
  PROVE  EulerInv'
<1>1. isRun /\ ~isSequenceable
  BY DEF SequencerInv
<1> QED
  BY <1>1, SameVerdict DEF EulerInv

LEMMA AbortPartsDecides ==
  SequencerInv /\ EulerInv /\ AbortParts => EulerInv'
<1> SUFFICES ASSUME SequencerInv, EulerInv, AbortParts
             PROVE  EulerInv'
  OBVIOUS
<1>1. /\ sequencing = "parts" /\ partsLeft # {} /\ ~hasSequence(part) /\ lines' = lines /\ isRun' = isRun
      /\ isSequenceable' = isSequenceable /\ sequencing' = "idle"
  BY DEF AbortParts
<1>2. AreLines /\ part \in ConnectedSubgraphs
  BY <1>1, PartIsAPart DEF SequencerInv
<1>3. part \in Refusing
  BY <1>1, <1>2, TrailMeansSequence DEF Refusing
<1> QED
  BY <1>1, <1>3, RightlyGivenUp

LEMMA StartPartDecides ==
  ASSUME SequencerInv, EulerInv, NEW de \in DirEdges, StartPart(de)
  PROVE  EulerInv'
<1>1. /\ sequencing = "parts" /\ partsLeft # {} /\ hasSequence(part) /\ sequencing' = "trail"
      /\ endNode' = NoNode /\ fromNode(de) = origin
      /\ seq' = <<de>> /\ visited' = {edge(de)} /\ at' = toNode(de)
      /\ lines' = lines /\ isSequenceable' = isSequenceable /\ partsLeft' = partsLeft
      /\ isRun' = isRun /\ answer' = answer
  BY DEF StartPart, origin
<1>2. AreLines /\ isRun /\ ~isSequenceable /\ answer = "none" /\ ConnectedSubgraphs \ partsLeft \subseteq BegunWell
  BY <1>1 DEF SequencerInv, EulerInv
<1>3. Balanced({edge(de)}, origin, toNode(de))
  BY <1>1, <1>2, BalancedFirst
<1>4. part' = part /\ origin' = origin /\ hasSequence(part)'
  BY <1>1, SameOrigin
<1>5. Leading'
  BY <1>1, <1>3, <1>4, StillBalanced
<1>6. Begun'
  <2>1. seq[1]' = de
    BY <1>1
  <2>2. fromNode(seq[1])' = fromNode(de)
    BY <1>1, <2>1 DEF fromNode
  <2> QED
    BY <1>1, <1>4, <2>2 DEF Begun
<1>7. ConnectedSubgraphs' = ConnectedSubgraphs /\ BegunWell' = BegunWell
  BY <1>1, SameParts, SameVerdict
<1> QED
  BY <1>1, <1>2, <1>5, <1>6, <1>7 DEF EulerInv

\* Behind the place where it is put in, and before it, nothing moves.
LEMMA EndsAfterInsertion ==
  ASSUME NEW P, NEW s, NEW used, InUse(P, s, used), NEW p \in 1..(Len(s) + 1), NEW d \in P \X BOOLEAN
  PROVE  LET t == InsertAt(s, p, d)
         IN  /\ p > 1 => t[1] = s[1]
             /\ p = 1 => t[1] = d
             /\ p <= Len(s) => t[Len(t)] = s[Len(s)]
<1> DEFINE S == P \X BOOLEAN
           t == InsertAt(s, p, d)
<1>1. s \in Seq(S) /\ d \in S /\ Len(s) \in Nat /\ Len(s) >= 1
  BY DEF InUse
<1>2. IsInserted(t, s, p, d)
  <2> HIDE DEF S
  <2> QED
    BY <1>1, Inserted
<1> HIDE DEF t, S
<1>3. /\ Len(t) = Len(s) + 1 /\ t[p] = d
      /\ \A i \in 1..(p - 1) : t[i] = s[i]
      /\ \A i \in (p + 1)..(Len(s) + 1) : t[i] = s[i - 1]
  BY <1>2 DEF IsInserted
<1>4. p > 1 => t[1] = s[1]
  BY <1>1, <1>3
<1>5. ASSUME p <= Len(s)
      PROVE  t[Len(t)] = s[Len(s)]
  <2>1. Len(s) + 1 \in (p + 1)..(Len(s) + 1) /\ (Len(s) + 1) - 1 = Len(s)
    BY <1>1, <1>5
  <2> QED
    BY <1>3, <2>1
<1> QED
  BY <1>3, <1>4, <1>5 DEF t

LEMMA ExtendDecides ==
  ASSUME SequencerInv, EulerInv, NEW de \in DirEdges, Extend(de)
  PROVE  EulerInv'
<1>1. /\ sequencing = "trail" /\ de \in Best(at, visited)
      /\ seq' = InsertAt(seq, lit, de) /\ visited' = visited \cup {edge(de)} /\ at' = toNode(de)
      /\ lines' = lines /\ isSequenceable' = isSequenceable /\ sequencing' = sequencing
      /\ partsLeft' = partsLeft /\ endNode' = endNode /\ isRun' = isRun /\ answer' = answer
  BY DEF Extend, Use
<1>2. /\ AreLines /\ partsLeft \subseteq ConnectedSubgraphs /\ partsLeft # {} /\ isRun /\ ~isSequenceable
      /\ visited \subseteq part /\ InUse(part, seq, visited)
      /\ OnTheWay(seq, lit, visited, at, endNode)
  BY <1>1 DEF SequencerInv, OfThePart, Going
<1>3. part \in ConnectedSubgraphs /\ part \subseteq Edges
  BY <1>2, PartIsAPart
<1>4. edge(de) \notin visited /\ fromNode(de) = at
  BY <1>1, BestOfNode DEF outEdges
<1>5. de \in part \X BOOLEAN
  <2>1. lit - 1 \in 1..Len(seq) /\ at = toNode(seq[lit - 1])
    BY <1>2 DEF OnTheWay, InUse
  <2>2. edge(seq[lit - 1]) \in part /\ seq[lit - 1] \in DirEdges
    BY <1>2, <1>3, <2>1, PlacesOfTrail
  <2>3. at \in EndsOf(edge(seq[lit - 1])) /\ de \in outEdges(at)
    BY <1>1, <1>2, <2>1, <2>2, EndsOfEdges, BestOfNode
  <2> QED
    BY <1>2, <1>3, <2>2, <2>3, EdgesOfPart
<1>6. lit \in 1..(Len(seq) + 1) /\ lit > 1 /\ (endNode # NoNode => lit <= Len(seq))
      /\ (endNode # NoNode => UsedUp(farEnd, visited))
  BY <1>2 DEF OnTheWay, InUse, farEnd
<1> DEFINE t == InsertAt(seq, lit, de)
<1>7. t[1] = seq[1] /\ (endNode # NoNode => t[Len(t)] = seq[Len(seq)])
  BY <1>2, <1>5, <1>6, EndsAfterInsertion
<1>8. seq' = t
  BY <1>1
<1> HIDE DEF t
<1>9. Begun /\ (endNode = NoNode => Leading) /\ (endNode # NoNode => Straying)
      /\ answer = "none" /\ ConnectedSubgraphs \ partsLeft \subseteq BegunWell
  BY <1>1 DEF EulerInv
<1>10. Begun'
  BY <1>1, <1>7, <1>8, <1>9, StillBegun DEF Begun
<1>11. origin' = origin /\ visited \in SUBSET Edges
  BY <1>1, <1>2, <1>3, SameOrigin
<1>12. endNode = NoNode => Leading'
  <2>1. SUFFICES ASSUME endNode = NoNode PROVE Leading'
    OBVIOUS
  <2>2. Balanced(visited \cup {edge(de)}, origin, toNode(de))
    BY <1>2, <1>4, <1>9, <1>11, <2>1, BalancedFurther DEF Leading
  <2> QED
    BY <1>1, <1>11, <2>2, StillBalanced
<1>13. endNode # NoNode => Straying'
  <2>1. SUFFICES ASSUME endNode # NoNode PROVE Straying'
    OBVIOUS
  <2>2. Detouring(visited \cup {edge(de)}, origin, farEnd, endNode, toNode(de))
    BY <1>2, <1>4, <1>9, <1>11, <2>1, BalancedFurther DEF Straying
  <2>3. toNode(de) # farEnd
    <3>1. getSym(de) \in outEdges(toNode(de)) /\ edge(getSym(de)) = edge(de)
      BY <1>2, EndsOfEdges DEF outEdges, edge, getSym
    <3> QED
      BY <1>4, <1>6, <2>1, <3>1 DEF UsedUp
  <2>4. farEnd' = farEnd
    BY <1>1, <1>7, <1>8, <2>1, FarEndOf DEF farEnd
  <2>5. farEnd \notin {endNode, toNode(de)}
    BY <1>9, <2>1, <2>3 DEF Straying
  <2> QED
    BY <1>1, <1>11, <2>2, <2>4, <2>5, StillStraying
<1>14. ConnectedSubgraphs' = ConnectedSubgraphs /\ BegunWell' = BegunWell
  BY <1>1, SameParts, SameVerdict
<1> QED
  BY <1>1, <1>2, <1>9, <1>10, <1>12, <1>13, <1>14 DEF EulerInv

LEMMA StartDetourDecides ==
  ASSUME SequencerInv, EulerInv, NEW de \in DirEdges, StartDetour(de)
  PROVE  EulerInv'
<1>1. /\ sequencing = "back" /\ lit > 1 /\ de \in Best(fromNode(seq[lit - 1]), visited)
      /\ seq' = InsertAt(seq, lit - 1, de)
      /\ visited' = visited \cup {edge(de)} /\ at' = toNode(de)
      /\ endNode' = fromNode(de) /\ sequencing' = "trail"
      /\ lines' = lines /\ isSequenceable' = isSequenceable
      /\ partsLeft' = partsLeft /\ isRun' = isRun /\ answer' = answer
  BY DEF StartDetour, detour, Use
<1>2. /\ AreLines /\ partsLeft \subseteq ConnectedSubgraphs /\ partsLeft # {} /\ isRun /\ ~isSequenceable
      /\ visited \subseteq part /\ InUse(part, seq, visited) /\ OnTheWayBack(seq, lit, visited)
  BY <1>1 DEF SequencerInv, OfThePart, Returning
<1>3. part \in ConnectedSubgraphs /\ part \subseteq Edges
  BY <1>2, PartIsAPart
<1>4. /\ de \in outEdges(fromNode(seq[lit - 1])) /\ edge(de) \notin visited
      /\ fromNode(de) = fromNode(seq[lit - 1])
  BY <1>1, BestOfNode DEF outEdges
<1>5. lit - 1 \in 1..Len(seq) /\ lit - 1 \in 1..(Len(seq) + 1) /\ lit - 1 <= Len(seq)
  BY <1>1, <1>2 DEF OnTheWayBack, InUse
<1>6. de \in part \X BOOLEAN
  <2>1. edge(seq[lit - 1]) \in part /\ seq[lit - 1] \in DirEdges
    BY <1>2, <1>3, <1>5, PlacesOfTrail
  <2>2. fromNode(seq[lit - 1]) \in EndsOf(edge(seq[lit - 1]))
    BY <1>2, <2>1, EndsOfEdges
  <2> QED
    BY <1>2, <1>3, <1>4, <2>1, <2>2, EdgesOfPart
<1> DEFINE p == lit - 1
           t == InsertAt(seq, p, de)
<1>7. (p > 1 => t[1] = seq[1]) /\ (p = 1 => t[1] = de) /\ t[Len(t)] = seq[Len(seq)]
  BY <1>2, <1>5, <1>6, EndsAfterInsertion
<1>8. seq' = t /\ (p = 1 \/ p > 1)
  <2>1. Len(seq) \in Nat
    BY <1>2 DEF InUse
  <2>2. \A k \in 1..Len(seq) : k = 1 \/ k > 1
    BY <2>1
  <2> QED
    BY <1>1, <1>5, <2>2
<1> HIDE DEF t
<1>9. Begun /\ Coming /\ answer = "none" /\ ConnectedSubgraphs \ partsLeft \subseteq BegunWell
  BY <1>1 DEF EulerInv
<1>10. Begun'
  <2>1. fromNode(t[1]) = origin
    BY <1>4, <1>7, <1>8, <1>9 DEF Begun
  <2> QED
    BY <1>1, <1>8, <1>9, <2>1, StillBegun
<1>11. origin' = origin /\ farEnd' = farEnd
  BY <1>1, <1>7, <1>8, SameOrigin, FarEndOf DEF farEnd
<1>12. UsedUp(farEnd, visited)
  BY <1>2 DEF OnTheWayBack, farEnd
<1>13. farEnd \notin {fromNode(de), toNode(de)}
  <2>1. /\ getSym(de) \in outEdges(toNode(de)) /\ edge(getSym(de)) = edge(de)
        /\ de \in outEdges(fromNode(de))
    BY <1>2, EndsOfEdges DEF outEdges, edge, getSym
  <2> QED
    BY <1>4, <1>12, <2>1 DEF UsedUp
<1>14. Detouring(visited \cup {edge(de)}, origin, farEnd, fromNode(de), toNode(de))
  <2>1. visited \in SUBSET Edges
    BY <1>2, <1>3
  <2> QED
    BY <1>2, <1>4, <1>9, <2>1, BalancedFurther DEF Coming
<1>15. Straying'
  BY <1>1, <1>11, <1>13, <1>14, StillStraying
<1>16. endNode' # NoNode
  <2>1. fromNode(de) \in Nat
    BY <1>2, EndsOfEdges
  <2> QED
    BY <1>1, <2>1 DEF NoNode
<1>17. ConnectedSubgraphs' = ConnectedSubgraphs /\ BegunWell' = BegunWell
  BY <1>1, SameParts, SameVerdict
<1> QED
  BY <1>1, <1>2, <1>9, <1>10, <1>15, <1>16, <1>17 DEF EulerInv

LEMMA EndTrailDecides ==
  SequencerInv /\ EulerInv /\ EndTrail => EulerInv'
<1> SUFFICES ASSUME SequencerInv, EulerInv, EndTrail
             PROVE  EulerInv'
  OBVIOUS
<1>1. /\ sequencing = "trail" /\ Best(at, visited) = {}
      /\ lines' = lines /\ isSequenceable' = isSequenceable /\ isRun' = isRun
      /\ seq' = seq /\ visited' = visited
  BY DEF EndTrail, partVars
<1>2. /\ AreLines /\ partsLeft \subseteq ConnectedSubgraphs /\ partsLeft # {} /\ isRun /\ ~isSequenceable
      /\ visited \subseteq part /\ InUse(part, seq, visited)
      /\ OnTheWay(seq, lit, visited, at, endNode)
  BY <1>1 DEF SequencerInv, OfThePart, Going
<1>3. part \in ConnectedSubgraphs /\ part \subseteq Edges
  BY <1>2, PartIsAPart
<1>4. Begun /\ (endNode = NoNode => Leading) /\ (endNode # NoNode => Straying)
      /\ answer = "none" /\ ConnectedSubgraphs \ partsLeft \subseteq BegunWell
  BY <1>1 DEF EulerInv
<1>5. CASE endNode \in {NoNode, at}
  <2>1. sequencing' = "back" /\ partsLeft' = partsLeft /\ answer' = answer
    BY <1>5 DEF EndTrail
  <2>2. origin' = origin /\ farEnd' = farEnd
    BY <1>1, <2>1, SameOrigin, FarEndOf DEF farEnd
  <2>3. Balanced(visited, origin, farEnd)
    <3>1. CASE endNode = NoNode
      <4>1. farEnd = at
        <5>1. lit - 1 = Len(seq)
          BY <1>2, <3>1 DEF OnTheWay, InUse
        <5> QED
          BY <1>2, <5>1 DEF OnTheWay, farEnd
      <4> QED
        BY <1>4, <3>1, <4>1 DEF Leading
    <3>2. CASE endNode # NoNode
      <4>1. endNode = at
        BY <1>5, <3>2
      <4> QED
        BY <1>4, <3>2, <4>1, DetourClosed DEF Straying
    <3> QED
      BY <3>1, <3>2
  <2>4. Coming'
    BY <1>1, <2>2, <2>3, StillBalanced
  <2>5. Begun'
    BY <1>1, <1>4, <2>1, StillBegun DEF Begun
  <2>6. ConnectedSubgraphs' = ConnectedSubgraphs /\ BegunWell' = BegunWell
    BY <1>1, SameParts, SameVerdict
  <2> QED
    BY <1>1, <1>2, <1>4, <2>1, <2>4, <2>5, <2>6 DEF EulerInv
<1>6. CASE endNode \notin {NoNode, at}
  <2>1. sequencing' = "idle"
    BY <1>6 DEF EndTrail
  <2>2. Straying
    BY <1>4, <1>6
  <2>3. Len(seq) \in 1..Len(seq) /\ lit - 1 \in 1..Len(seq) /\ at = toNode(seq[lit - 1])
    BY <1>2 DEF OnTheWay, InUse
  <2>4. at \in EndsOfAll(part) /\ farEnd \in EndsOfAll(part)
    <3>1. /\ seq[lit - 1] \in DirEdges /\ edge(seq[lit - 1]) \in part
          /\ seq[Len(seq)] \in DirEdges /\ edge(seq[Len(seq)]) \in part
      BY <1>2, <1>3, <2>3, PlacesOfTrail
    <3> QED
      BY <1>2, <1>3, <2>3, <3>1, PartsAreFinite DEF farEnd
  <2>5. UsedUp(at, visited)
    BY <1>1, BestOfNode
  <2>6. UsedUp(farEnd, visited)
    BY <1>2, <1>6 DEF OnTheWay, farEnd
  <2>7. hasSequence(part) /\ farEnd \notin {endNode, at} /\ at # endNode
        /\ Detouring(visited, findLowestDegreeNode(part), farEnd, endNode, at)
    BY <1>4, <1>6, <2>2 DEF Begun, Straying, origin
  <2>8. StartsAstray(part)
    BY <1>2, <1>3, <2>4, <2>5, <2>6, <2>7, DetourIsAstray
  <2>9. part \in Refusing
    BY <1>3, <2>8 DEF Refusing
  <2> QED
    BY <1>1, <2>1, <2>9, RightlyGivenUp
<1> QED
  BY <1>5, <1>6

LEMMA StepBackDecides ==
  SequencerInv /\ EulerInv /\ StepBack => EulerInv'
<1> SUFFICES ASSUME SequencerInv, EulerInv, StepBack
             PROVE  EulerInv'
  OBVIOUS
<1>1. /\ sequencing = "back" /\ lines' = lines /\ isRun' = isRun /\ isSequenceable' = isSequenceable
      /\ sequencing' = sequencing /\ partsLeft' = partsLeft /\ seq' = seq /\ visited' = visited
      /\ answer' = answer
  BY DEF StepBack
<1>2. Begun /\ Coming /\ answer = "none" /\ ConnectedSubgraphs \ partsLeft \subseteq BegunWell
  BY <1>1 DEF EulerInv
<1>3. isRun /\ ~isSequenceable
  BY <1>1 DEF SequencerInv
<1>4. origin' = origin /\ farEnd' = farEnd
  BY <1>1, SameOrigin, FarEndOf DEF farEnd
<1>5. Coming'
  BY <1>1, <1>2, <1>4, StillBalanced DEF Coming
<1>6. Begun'
  BY <1>1, <1>2, StillBegun DEF Begun
<1>7. ConnectedSubgraphs' = ConnectedSubgraphs /\ BegunWell' = BegunWell
  BY <1>1, SameParts, SameVerdict
<1> QED
  BY <1>1, <1>2, <1>3, <1>5, <1>6, <1>7 DEF EulerInv

LEMMA EndPartDecides ==
  SequencerInv /\ EulerInv /\ EndPart => EulerInv'
<1> SUFFICES ASSUME SequencerInv, EulerInv, EndPart
             PROVE  EulerInv'
  OBVIOUS
<1>1. /\ sequencing = "back" /\ lit = 1
      /\ partsLeft' = partsLeft \ {part} /\ sequencing' = "parts"
      /\ lines' = lines /\ isRun' = isRun /\ isSequenceable' = isSequenceable /\ answer' = answer
  BY DEF EndPart
<1>2. /\ AreLines /\ partsLeft \subseteq ConnectedSubgraphs /\ partsLeft # {} /\ isRun /\ ~isSequenceable
      /\ visited \subseteq part /\ InUse(part, seq, visited) /\ OnTheWayBack(seq, 1, visited)
  BY <1>1 DEF SequencerInv, OfThePart, Returning
<1>3. part \in ConnectedSubgraphs /\ part \subseteq Edges
  BY <1>2, PartIsAPart
<1>4. Begun /\ Coming /\ answer = "none" /\ ConnectedSubgraphs \ partsLeft \subseteq BegunWell
  BY <1>1 DEF EulerInv
<1>5. visited = part
  BY <1>2, <1>3, PartEnded
<1>6. origin \in EndsOfAll(part)
  BY <1>2, <1>3, LowestDegreeNode DEF origin
<1>7. farEnd \in EndsOfAll(part)
  <2>1. Len(seq) \in 1..Len(seq)
    BY <1>2 DEF InUse
  <2>2. seq[Len(seq)] \in DirEdges /\ edge(seq[Len(seq)]) \in part
    BY <1>2, <1>3, <2>1, PlacesOfTrail
  <2> QED
    BY <1>2, <1>3, <2>2, PartsAreFinite DEF farEnd
<1>8. OddNodes(part) = IF origin = farEnd THEN {} ELSE {origin, farEnd}
  BY <1>2, <1>3, <1>4, <1>5, <1>6, <1>7, OddEnds DEF Coming
<1>9. ~StartsAstray(part)
  BY <1>8 DEF StartsAstray, origin
<1>10. ConnectedSubgraphs' = ConnectedSubgraphs /\ BegunWell' = BegunWell
  BY <1>1, SameParts, SameVerdict
<1>11. (ConnectedSubgraphs \ partsLeft)' \subseteq BegunWell'
  BY <1>1, <1>3, <1>4, <1>9, <1>10 DEF BegunWell
<1> QED
  BY <1>1, <1>2, <1>4, <1>11 DEF EulerInv

LEMMA BuildDecides ==
  SequencerInv /\ EulerInv /\ Build => EulerInv'
<1> SUFFICES ASSUME SequencerInv, EulerInv, Build
             PROVE  EulerInv'
  OBVIOUS
<1>1. /\ sequencing = "parts" /\ partsLeft = {} /\ isSequenceable' = TRUE /\ answer' = "yes"
      /\ sequencing' = "idle" /\ lines' = lines /\ isRun' = isRun
  BY DEF Build
<1>2. isRun /\ ConnectedSubgraphs \subseteq BegunWell
  BY <1>1 DEF SequencerInv, EulerInv
<1>3. ConnectedSubgraphs' = ConnectedSubgraphs /\ BegunWell' = BegunWell
  BY <1>1, SameParts, SameVerdict
<1> QED
  BY <1>1, <1>2, <1>3 DEF EulerInv

LEMMA EulerStutters ==
  EulerInv /\ UNCHANGED <<lines, sequencerVars>> => EulerInv'
<1> SUFFICES ASSUME EulerInv, UNCHANGED <<lines, sequencerVars>>
             PROVE  EulerInv'
  OBVIOUS
<1>1. /\ lines' = lines /\ isRun' = isRun /\ isSequenceable' = isSequenceable /\ sequencing' = sequencing
      /\ partsLeft' = partsLeft /\ seq' = seq /\ visited' = visited /\ at' = at
      /\ endNode' = endNode /\ answer' = answer
  BY DEF sequencerVars, partVars
<1>2. origin' = origin /\ farEnd' = farEnd
  BY <1>1, SameOrigin, FarEndOf DEF farEnd
<1>3. (Coming => Coming') /\ (Leading => Leading')
  BY <1>1, <1>2, StillBalanced DEF Coming, Leading
<1>4. Straying => Straying'
  BY <1>1, <1>2, StillStraying DEF Straying
<1>5. Begun => Begun'
  BY <1>1, StillBegun DEF Begun
<1>6. ConnectedSubgraphs' = ConnectedSubgraphs /\ BegunWell' = BegunWell /\ Refusing' = Refusing
  BY <1>1, SameParts, SameVerdict
<1> QED
  BY <1>1, <1>3, <1>4, <1>5, <1>6 DEF EulerInv

LEMMA EulerKeeps ==
  SequencerInv /\ EulerInv /\ [NextOfSequencer]_<<lines, sequencerVars>> => EulerInv'
<1> SUFFICES ASSUME SequencerInv, EulerInv, [NextOfSequencer]_<<lines, sequencerVars>>
             PROVE  EulerInv'
  OBVIOUS
<1>1. CASE sequencing = "new" /\ \E list \in ListsOfLines : AddAll(list)
  BY <1>1, AddAllDecides
<1>2. CASE Ask
  BY <1>2, AskDecides
<1>3. CASE AbortParts
  BY <1>3, AbortPartsDecides
<1>4. CASE EndTrail
  BY <1>4, EndTrailDecides
<1>5. CASE StepBack
  BY <1>5, StepBackDecides
<1>6. CASE EndPart
  BY <1>6, EndPartDecides
<1>7. CASE Build
  BY <1>7, BuildDecides
<1>8. CASE \E de \in DirEdges : StartPart(de) \/ Extend(de) \/ StartDetour(de)
  BY <1>8, StartPartDecides, ExtendDecides, StartDetourDecides
<1>9. CASE UNCHANGED <<lines, sequencerVars>>
  BY <1>9, EulerStutters
<1> QED
  BY <1>1, <1>2, <1>3, <1>4, <1>5, <1>6, <1>7, <1>8, <1>9 DEF NextOfSequencer

\* The parity of the edges used, and why a call was given up, in every state.
THEOREM EulerInvariance == SpecOfSequencer => []EulerInv
<1>1. lines = <<>> /\ NotSequenced => EulerInv
  BY EulerStarts
<1>2. SequencerInv /\ EulerInv /\ [NextOfSequencer]_<<lines, sequencerVars>> => EulerInv'
  BY EulerKeeps
<1> QED
  BY <1>1, <1>2, SequencerInvariance, PTL DEF SpecOfSequencer

LEMMA InvGivesEuler == SequencerInv /\ EulerInv => AnswerIsEulers
<1> SUFFICES ASSUME SequencerInv, EulerInv, answer # "none"
             PROVE  answer = "yes" <=> \A E \in ConnectedSubgraphs : HasTrail(E) /\ ~StartsAstray(E)
  BY DEF AnswerIsEulers
<1>1. AreLines /\ isRun /\ sequencing = "idle" /\ isRun \in BOOLEAN
  BY DEF SequencerInv, EulerInv
<1>2. ASSUME answer = "yes", NEW E \in ConnectedSubgraphs
      PROVE  HasTrail(E) /\ ~StartsAstray(E)
  <2>1. AllDone /\ ConnectedSubgraphs \subseteq BegunWell
    BY <1>2 DEF SequencerInv, EulerInv
  <2>2. PICK k \in 1..Len(sequences) : EdgesIn(sequences[k]) = E
    BY <2>1 DEF AllDone, TrailsOver
  <2>3. IsTrailOver(sequences[k], E)
    BY <2>1, <2>2 DEF AllDone, TrailsOver
  <2>4. sequences[k] \in Seq(DirEdges)
    <3> DEFINE Dirs == Seq(DirEdges)
    <3>1. sequences \in Seq(Dirs)
      BY <2>1 DEF AllDone, TrailsOver
    <3> HIDE DEF Dirs
    <3>2. sequences[k] \in Dirs
      BY <2>2, <3>1
    <3> QED
      BY <3>2 DEF Dirs
  <2> QED
    BY <1>1, <2>1, <2>3, <2>4, TrailOverHasTrail DEF BegunWell
<1>3. ASSUME answer # "yes"
      PROVE  \E E \in ConnectedSubgraphs : ~HasTrail(E) \/ StartsAstray(E)
  <2>1. ~isSequenceable
    BY <1>3 DEF EulerInv
  <2>2. Refusing # {}
    BY <1>1, <2>1 DEF EulerInv
  <2> QED
    BY <2>2 DEF Refusing
<1> QED
  BY <1>2, <1>3

\* Yes exactly if each part has a trail that the least node of lowest degree can start.
THEOREM AnswersAreEulers == SpecOfSequencer => []AnswerIsEulers
BY SequencerInvariance, EulerInvariance, InvGivesEuler, PTL

------------------------------------------------------------------------------
(***************************************************************************)
(* Polygonizer: the choice of polygons.                                    *)
(***************************************************************************)
\* Shells at odd and at even numbers of steps are beside each other.
LEMMA OddAndEven ==
  /\ OddShells \subseteq shellList /\ EvenShells \subseteq shellList
  /\ OutermostShells \subseteq OddShells
  /\ Beside(OddShells) = EvenShells
  /\ Beside(EvenShells) \subseteq OddShells
<1>1. OddShells \subseteq shellList /\ EvenShells \subseteq shellList /\ Beside(OddShells) = EvenShells
  BY DEF OddShells, EvenShells, Beside
<1>2. ASSUME NEW k \in OutermostShells
      PROVE  k \in OddShells
  <2>1. k \in shellList
    BY DEF OutermostShells
  <2> QED
    BY <1>2, <2>1 DEF OddShells
<1>3. ASSUME NEW j \in Beside(EvenShells)
      PROVE  j \in OddShells
  <2>1. PICK k \in EvenShells : j \in shellList /\ EdgeAdjacent(j, k)
    BY DEF Beside
  <2>2. PICK o \in OddShells : k \in shellList /\ EdgeAdjacent(k, o)
    BY DEF EvenShells, Beside
  <2> DEFINE beside == [m \in shellList |-> Beside({m})]
  <2>3. ASSUME NEW S \in SUBSET shellList,
               \A m \in S : \A l \in beside[m] : beside[l] \subseteq S, o \in S
        PROVE  j \in S
    <3>1. o \in shellList
      BY <1>1
    <3>2. k \in Beside({o}) /\ j \in Beside({k})
      BY <2>1, <2>2 DEF Beside
    <3>3. k \in beside[o] /\ j \in beside[k]
      BY <2>2, <3>1, <3>2
    <3> HIDE DEF beside
    <3> QED
      BY <2>3, <3>3
  <2>4. \A S \in {T \in SUBSET shellList :
                   /\ OutermostShells \subseteq T
                   /\ \A m \in T : \A l \in beside[m] : beside[l] \subseteq T} : o \in S
    BY DEF OddShells
  <2> HIDE DEF beside
  <2>5. \A S \in {T \in SUBSET shellList :
                   /\ OutermostShells \subseteq T
                   /\ \A m \in T : \A l \in beside[m] : beside[l] \subseteq T} : j \in S
    BY <2>3, <2>4
  <2> QED
    BY <2>1, <2>5 DEF OddShells, beside
<1> QED
  BY <1>1, <1>2, <1>3

\* rings[k] goes from place to place, for each ring.
RingsAreLists == \E S : /\ rings \in Seq(S)
                        /\ \A r \in S : \E n \in Nat : DOMAIN r = 1..n

\* What is included is at an odd number of steps, what is set and is not at an even one.
ChosenByParity == included \subseteq OddShells /\ includedSet \ included \subseteq EvenShells

\* Each shell is entered once, and set on the way back.
BeingVisited == /\ stack \in Seq(shellList)
                /\ \A i \in 1..Len(stack) : stack[i] \notin includedSet /\ stack[i] \in entered
                /\ \A i, j \in 1..Len(stack) : stack[i] = stack[j] => i = j

ChoiceInv ==
  /\ RingsAreLists
  /\ stage \notin {"include", "done"} =>
       included = {} /\ includedSet = {} /\ stack = <<>> /\ entered = {}
  /\ stage \in {"include", "done"} =>
       toUpdate \subseteq shellList /\ included \subseteq includedSet /\ ChosenByParity /\ BeingVisited

LEMMA FirstIsIn ==
  ASSUME NEW T \in SUBSET Nat, T # {}
  PROVE  First(T) \in T
<1>1. \E x \in T : \A y \in T : x <= y
  BY LeastElement
<1> QED
  BY <1>1 DEF First

\* The places of a ring are numbers.
LEMMA PlacesOfRings ==
  ASSUME RingsAreLists, NEW k \in shellList
  PROVE  DOMAIN rings[k] \subseteq Nat
<1>1. PICK S : rings \in Seq(S) /\ \A r \in S : \E n \in Nat : DOMAIN r = 1..n
  BY DEF RingsAreLists
<1>2. rings[k] \in S
  BY <1>1 DEF shellList, Rings
<1>3. PICK n \in Nat : DOMAIN rings[k] = 1..n
  BY <1>1, <1>2
<1> QED
  BY <1>3

LEMMA ChoiceGivesProperty == ChoiceInv => NothingElseIsExtracted
<1> SUFFICES ASSUME ChoiceInv, stage = "done"
             PROVE  /\ extracted \subseteq OddShells
                    /\ IsPolygonal => \A j, k \in extracted : ~EdgeAdjacent(j, k)
  BY DEF NothingElseIsExtracted
<1>1. extracted \subseteq OddShells
  BY DEF ChoiceInv, ChosenByParity, extracted
<1>2. ASSUME IsPolygonal, NEW j \in extracted, NEW k \in extracted, EdgeAdjacent(j, k)
      PROVE  FALSE
  <2>1. j \in OddShells /\ k \in OddShells /\ j \in shellList
    BY <1>1, OddAndEven
  <2>2. j \in Beside(OddShells)
    BY <1>2, <2>1 DEF Beside
  <2> QED
    BY <1>2, <2>1, <2>2, OddAndEven DEF IsPolygonal
<1> QED
  BY <1>1, <1>2

LEMMA OuterShellsFound ==
  ASSUME ChoiceInv, findOuterShells
  PROVE  ChoiceInv'
<1>1. /\ stage = "outer" /\ stage' = "include"
      /\ included' = {k \in shellList : isFirstAtItsHole(k)} /\ includedSet' = included'
      /\ toUpdate' = shellList
      /\ UNCHANGED <<lines, label, rings, hole, shell, entered, stack>>
  BY DEF findOuterShells
<1>2. shellList' = shellList
  BY <1>1 DEF shellList, Rings
<1>3. OutermostShells' = OutermostShells /\ OddShells' = OddShells
  BY <1>1 DEF OutermostShells, OddShells, Beside, EdgeAdjacent, shellList, Rings, adjacentShells,
              adjacentRings, getShell, ringOf, getSym
<1>4. ASSUME NEW k \in shellList, isFirstAtItsHole(k)
      PROVE  k \in OddShells
  <2>1. PICK i \in DOMAIN rings[k] : isOuterHole(adjacentRings(k)[i])
    BY <1>4 DEF isFirstAtItsHole, atOuterHole
  <2>2. adjacentShells(k)[i] = 0
    BY <2>1 DEF adjacentShells, isOuterHole, getShell
  <2> QED
    BY <2>1, <2>2, OddAndEven DEF OutermostShells
<1>5. RingsAreLists' /\ stack' = <<>>
  BY <1>1 DEF ChoiceInv, RingsAreLists
<1>6. BeingVisited'
  BY <1>5 DEF BeingVisited
<1>7. ChosenByParity'
  BY <1>1, <1>3, <1>4 DEF ChosenByParity
<1> QED
  BY <1>1, <1>2, <1>5, <1>6, <1>7 DEF ChoiceInv

\* While shells are visited the rings stay as they are.
LEMMA ShellsStay ==
  ASSUME UNCHANGED <<rings, hole, shell>>
  PROVE  /\ shellList' = shellList /\ OddShells' = OddShells /\ EvenShells' = EvenShells
         /\ RingsAreLists' <=> RingsAreLists
  BY DEF OutermostShells, OddShells, EvenShells, Beside, EdgeAdjacent, shellList, Rings, adjacentShells,
         adjacentRings, getShell, ringOf, getSym, RingsAreLists

LEMMA ShellUpdated ==
  ASSUME ChoiceInv, UpdateShell
  PROVE  ChoiceInv'
<1> DEFINE k == First(toUpdate)
<1>1. /\ stage = "include" /\ stage' = "include" /\ stack = <<>> /\ toUpdate # {}
      /\ toUpdate' = toUpdate \ {k}
      /\ IF isIncludedSet(k) THEN stack' = stack /\ entered' = entered
         ELSE stack' = <<k>> /\ entered' = entered \cup {k}
      /\ UNCHANGED <<rings, hole, shell, includedSet, included>>
  BY DEF UpdateShell, graphVars
<1>2. /\ toUpdate \subseteq shellList /\ included \subseteq includedSet /\ ChosenByParity /\ BeingVisited
      /\ RingsAreLists
  BY <1>1 DEF ChoiceInv
<1>3. k \in toUpdate
  <2>1. toUpdate \in SUBSET Nat
    <3>1. PICK S : rings \in Seq(S)
      BY <1>2 DEF RingsAreLists
    <3>2. DOMAIN rings \subseteq Nat
      BY <3>1
    <3> QED
      BY <1>2, <3>2 DEF shellList, Rings
  <2> QED
    BY <1>1, <2>1, FirstIsIn
<1> HIDE DEF k
<1>4. ChosenByParity'
  BY <1>1, <1>2, ShellsStay DEF ChosenByParity
<1>5. BeingVisited'
  <2>1. CASE isIncludedSet(k)
    BY <1>1, <1>2, <2>1, ShellsStay DEF BeingVisited
  <2>2. CASE ~isIncludedSet(k)
    <3>1. k \in shellList /\ k \notin includedSet
      BY <1>2, <1>3, <2>2 DEF isIncludedSet
    <3>2. stack' = <<k>> /\ k \in entered'
      BY <1>1, <2>2
    <3>3. /\ <<k>> \in Seq(shellList) /\ Len(<<k>>) = 1 /\ <<k>>[1] = k
          /\ \A i \in 1..1 : i = 1
      BY <3>1
    <3> QED
      BY <1>1, <3>1, <3>2, <3>3, ShellsStay DEF BeingVisited
  <2> QED
    BY <2>1, <2>2
<1> QED
  BY <1>1, <1>2, <1>4, <1>5, ShellsStay DEF ChoiceInv

\* The shell that is being looked at.
LEMMA LastOfStack ==
  ASSUME BeingVisited, stack # <<>>
  PROVE  /\ Len(stack) \in Nat /\ Len(stack) \in 1..Len(stack) /\ Last(stack) = stack[Len(stack)]
         /\ Last(stack) \in shellList /\ Last(stack) \notin includedSet
<1>1. stack \in Seq(shellList)
  BY DEF BeingVisited
<1>2. Len(stack) \in Nat /\ Len(stack) \in 1..Len(stack)
  BY <1>1
<1>3. Last(stack) = stack[Len(stack)]
  BY DEF Last
<1> QED
  BY <1>1, <1>2, <1>3 DEF BeingVisited

LEMMA ShellEntered ==
  ASSUME ChoiceInv, Enter
  PROVE  ChoiceInv'
<1> DEFINE k == Last(stack)
           i == First(toEnter(k))
           s == adjacentShells(k)[i]
<1>1. /\ stage = "include" /\ stage' = "include" /\ stack # <<>> /\ toEnter(k) # {}
      /\ stack' = Append(stack, s) /\ entered' = entered \cup {s}
      /\ UNCHANGED <<rings, hole, shell, includedSet, included, toUpdate>>
  BY DEF Enter, graphVars
<1>2. /\ toUpdate \subseteq shellList /\ included \subseteq includedSet /\ ChosenByParity /\ BeingVisited
      /\ RingsAreLists
  BY <1>1 DEF ChoiceInv
<1>3. k \in shellList
  BY <1>1, <1>2, LastOfStack
<1>4. i \in toEnter(k)
  <2>1. toEnter(k) \in SUBSET Nat
    BY <1>2, <1>3, PlacesOfRings DEF toEnter
  <2> QED
    BY <1>1, <2>1, FirstIsIn
<1>5. s \in shellList /\ s \notin includedSet /\ s \notin entered
  BY <1>4 DEF toEnter, isIncludedSet
<1> HIDE DEF s
<1>6. BeingVisited'
  <2>1. stack \in Seq(shellList)
    BY <1>2 DEF BeingVisited
  <2>2. /\ stack' \in Seq(shellList) /\ Len(stack') = Len(stack) + 1 /\ Len(stack) \in Nat
        /\ stack'[Len(stack) + 1] = s /\ \A m \in 1..Len(stack) : stack'[m] = stack[m]
    BY <1>1, <1>5, <2>1
  <2>3. \A m \in 1..(Len(stack) + 1) : m \in 1..Len(stack) \/ m = Len(stack) + 1
    BY <2>2
  <2>4. \A m \in 1..Len(stack') : stack'[m] \notin includedSet' /\ stack'[m] \in entered'
    BY <1>1, <1>2, <1>5, <2>2, <2>3 DEF BeingVisited
  <2>5. \A m, n \in 1..Len(stack') : stack'[m] = stack'[n] => m = n
    BY <1>2, <1>5, <2>2, <2>3 DEF BeingVisited
  <2> QED
    BY <1>1, <2>2, <2>4, <2>5, ShellsStay DEF BeingVisited
<1>7. ChosenByParity'
  BY <1>1, <1>2, ShellsStay DEF ChosenByParity
<1> QED
  BY <1>1, <1>2, <1>6, <1>7, ShellsStay DEF ChoiceInv

LEMMA ShellSettled ==
  ASSUME ChoiceInv, Settle
  PROVE  ChoiceInv'
<1> DEFINE k == Last(stack)
           i == First(known(k))
           s == adjacentShells(k)[i]
<1>1. /\ stage = "include" /\ stage' = "include" /\ stack # <<>>
      /\ IF known(k) = {} THEN includedSet' = includedSet /\ included' = included
         ELSE /\ includedSet' = includedSet \cup {k}
              /\ included' = IF opposite(s) THEN included \cup {k} ELSE included
      /\ stack' = Front(stack)
      /\ UNCHANGED <<rings, hole, shell, entered, toUpdate>>
  BY DEF Settle, graphVars
<1>2. /\ toUpdate \subseteq shellList /\ included \subseteq includedSet /\ ChosenByParity /\ BeingVisited
      /\ RingsAreLists
  BY <1>1 DEF ChoiceInv
<1>3. k \in shellList /\ k \notin includedSet /\ k = stack[Len(stack)]
  BY <1>1, <1>2, LastOfStack
<1>4. ASSUME known(k) # {}
      PROVE  s \in includedSet /\ EdgeAdjacent(k, s)
  <2>1. known(k) \in SUBSET Nat
    BY <1>2, <1>3, PlacesOfRings DEF known
  <2>2. i \in known(k)
    BY <1>4, <2>1, FirstIsIn
  <2>3. s \in includedSet /\ i \in DOMAIN rings[k]
    BY <2>2 DEF known, isIncludedSet
  <2>4. s \in ToSet(adjacentShells(k))
    BY <2>3 DEF ToSet, adjacentShells
  <2> QED
    BY <1>3, <2>3, <2>4 DEF EdgeAdjacent
<1> HIDE DEF s
<1>5. included' \subseteq includedSet' /\ includedSet' \subseteq includedSet \cup {k}
  BY <1>1, <1>2
<1>6. ChosenByParity'
  <2>1. CASE known(k) = {}
    BY <1>1, <1>2, <2>1, ShellsStay DEF ChosenByParity
  <2>2. CASE known(k) # {} /\ s \in included
    <3>1. s \in OddShells
      BY <1>2, <2>2 DEF ChosenByParity
    <3>2. k \in EvenShells
      BY <1>3, <1>4, <2>2, <3>1, OddAndEven DEF Beside
    <3>3. included' = included /\ includedSet' = includedSet \cup {k}
      BY <1>1, <2>2 DEF opposite
    <3> QED
      BY <1>1, <1>2, <3>2, <3>3, ShellsStay DEF ChosenByParity
  <2>3. CASE known(k) # {} /\ s \notin included
    <3>1. s \in EvenShells
      BY <1>2, <1>4, <2>3 DEF ChosenByParity
    <3>2. k \in OddShells
      BY <1>3, <1>4, <2>3, <3>1, OddAndEven DEF Beside
    <3>3. included' = included \cup {k} /\ includedSet' = includedSet \cup {k}
      BY <1>1, <2>3 DEF opposite
    <3> QED
      BY <1>1, <1>2, <3>2, <3>3, ShellsStay DEF ChosenByParity
  <2> QED
    BY <2>1, <2>2, <2>3
<1>7. BeingVisited'
  <2>1. stack \in Seq(shellList) /\ Len(stack) \in Nat /\ Len(stack) >= 1
    BY <1>1, <1>2 DEF BeingVisited
  <2>2. stack' = [m \in 1..(Len(stack) - 1) |-> stack[m]]
    BY <1>1, <2>1 DEF Front
  <2>3. /\ stack' \in Seq(shellList) /\ Len(stack') = Len(stack) - 1
        /\ \A m \in 1..Len(stack') : stack'[m] = stack[m] /\ m \in 1..Len(stack) /\ m # Len(stack)
    BY <2>1, <2>2
  <2>4. Len(stack) \in 1..Len(stack)
    BY <2>1
  <2>5. \A m \in 1..Len(stack') : stack'[m] # k
    BY <1>2, <1>3, <2>3, <2>4 DEF BeingVisited
  <2> HIDE DEF k
  <2>6. \A m \in 1..Len(stack') : stack'[m] \notin includedSet' /\ stack'[m] \in entered'
    BY <1>1, <1>2, <1>5, <2>3, <2>5 DEF BeingVisited
  <2>7. \A m, n \in 1..Len(stack') : stack'[m] = stack'[n] => m = n
    BY <1>2, <2>3 DEF BeingVisited
  <2> QED
    BY <1>1, <2>3, <2>6, <2>7, ShellsStay DEF BeingVisited
<1> QED
  BY <1>1, <1>2, <1>5, <1>6, <1>7, ShellsStay DEF ChoiceInv

\* The graph is given once, and steps on it come before the choice.
LEMMA GraphSteps ==
  ASSUME NextOfGraph
  PROVE  /\ stage \notin {"include", "done", "outer"} /\ stage' \notin {"include", "done", "outer"}
         /\ stage # "new" => lines' = lines /\ star' = star
         /\ rings' = rings \/ FindRing
<1>1. ASSUME NEW g \in PlanarGraphs, stage = "new", Give(g)
      PROVE  stage' = "dangles" /\ rings' = rings
  BY <1>1 DEF Give
<1>2. ASSUME DeleteAtNode
      PROVE  stage = "dangles" /\ stage' = stage /\ lines' = lines /\ star' = star /\ rings' = rings
  BY <1>2 DEF DeleteAtNode
<1>3. ASSUME DanglesDeleted
      PROVE  stage = "dangles" /\ stage' = "cuts" /\ lines' = lines /\ star' = star /\ rings' = rings
  BY <1>3 DEF DanglesDeleted
<1>4. ASSUME deleteCutEdges
      PROVE  stage = "cuts" /\ stage' = "label" /\ lines' = lines /\ star' = star /\ rings' = rings
  BY <1>4 DEF deleteCutEdges
<1>5. ASSUME LabelRings
      PROVE  stage = "label" /\ stage' = "split" /\ lines' = lines /\ star' = star /\ rings' = rings
  BY <1>5 DEF LabelRings
<1>6. ASSUME SplitRing
      PROVE  stage = "split" /\ stage' = stage /\ lines' = lines /\ star' = star /\ rings' = rings
  BY <1>6 DEF SplitRing
<1>7. ASSUME RingsSplit
      PROVE  stage = "split" /\ stage' = "find" /\ lines' = lines /\ star' = star /\ rings' = rings
  BY <1>7 DEF RingsSplit
<1>8. ASSUME FindRing
      PROVE  stage = "find" /\ stage' = stage /\ lines' = lines /\ star' = star
  BY <1>8 DEF FindRing
<1> QED
  BY <1>1, <1>2, <1>3, <1>4, <1>5, <1>6, <1>7, <1>8 DEF NextOfGraph

\* A ring that is found is a list.
LEMMA RingsFoundAreLists ==
  ASSUME AreLines, RingsAreLists, FindRing
  PROVE  RingsAreLists'
<1> DEFINE r == findDirEdgesInRing(next, FirstOf(Live \ inRing))
<1>1. rings' = Append(rings, r)
  BY DEF FindRing
<1>2. \E n \in Nat : DOMAIN r = 1..n
  <2> DEFINE de == FirstOf(Live \ inRing)
             after == CHOOSE f : f = [n \in Nat |-> IF n = 0 THEN de ELSE next[f[n - 1]]]
             rounds == {n \in 1..Cardinality(DirEdges) : after[n] = de}
             length == IF rounds = {} THEN Cardinality(DirEdges) ELSE First(rounds)
  <2>1. Cardinality(DirEdges) \in Nat
    BY FiniteEdges, FS_CardinalityType DEF AreLines
  <2>2. rounds \in SUBSET Nat
    BY <2>1
  <2> HIDE DEF rounds, after, de
  <2>3. length \in Nat
    BY <2>1, <2>2, FirstIsIn
  <2>4. r = [n \in 1..length |-> after[n - 1]]
    BY DEF findDirEdgesInRing, rounds, after, de
  <2> QED
    BY <2>3, <2>4
<1> HIDE DEF r
<1>3. PICK S : rings \in Seq(S) /\ \A q \in S : \E n \in Nat : DOMAIN q = 1..n
  BY DEF RingsAreLists
<1>4. rings' \in Seq(S \cup {r})
  BY <1>1, <1>3
<1>5. \A q \in S \cup {r} : \E n \in Nat : DOMAIN q = 1..n
  BY <1>2, <1>3
<1> QED
  BY <1>4, <1>5 DEF RingsAreLists

LEMMA GraphKeepsChoice ==
  ASSUME AreLines, ChoiceInv, NextOfGraph, UNCHANGED ringVars
  PROVE  ChoiceInv'
<1>1. RingsAreLists'
  <2>1. CASE FindRing
    BY <2>1, RingsFoundAreLists DEF ChoiceInv
  <2>2. CASE rings' = rings
    BY <2>2 DEF ChoiceInv, RingsAreLists
  <2> QED
    BY <2>1, <2>2, GraphSteps
<1> QED
  BY <1>1, GraphSteps DEF ChoiceInv, ringVars

LEMMA HolesKeepChoice ==
  ASSUME ChoiceInv, FindShellsAndHoles
  PROVE  ChoiceInv'
<1>1. stage = "find" /\ stage' = "outer" /\ UNCHANGED <<includedSet, included, entered, stack, rings>>
  BY DEF FindShellsAndHoles, RingsFound
<1> QED
  BY <1>1 DEF ChoiceInv, RingsAreLists

LEMMA ExtractingKeepsChoice ==
  ASSUME ChoiceInv, extractPolygons
  PROVE  ChoiceInv'
<1>1. /\ stage = "include" /\ stage' = "done"
      /\ UNCHANGED <<rings, hole, shell, includedSet, included, entered, stack, toUpdate>>
  BY DEF extractPolygons, ringVars
<1> QED
  BY <1>1, ShellsStay DEF ChoiceInv, ChosenByParity, BeingVisited

LEMMA ChoiceStutters ==
  ASSUME ChoiceInv, UNCHANGED polygonizerVars
  PROVE  ChoiceInv'
<1>1. UNCHANGED <<stage, rings, hole, shell, includedSet, included, entered, stack, toUpdate>>
  BY DEF polygonizerVars, graphVars, ringVars
<1> QED
  BY <1>1, ShellsStay DEF ChoiceInv, ChosenByParity, BeingVisited

------------------------------------------------------------------------------
(***************************************************************************)
(* Sequences end to end: what is in them.                                  *)
(***************************************************************************)
Has(s, x) == \E i \in 1..Len(s) : s[i] = x

LEMMA HasEither ==
  ASSUME NEW S, NEW s \in Seq(S), NEW t \in Seq(S), NEW x
  PROVE  s \o t \in Seq(S) /\ (Has(s \o t, x) <=> Has(s, x) \/ Has(t, x))
<1> DEFINE n == Len(s)
           m == Len(t)
           u == s \o t
<1>1. /\ n \in Nat /\ m \in Nat /\ u \in Seq(S) /\ Len(u) = n + m
      /\ \A i \in 1..n : u[i] = s[i] /\ i \in 1..(n + m)
      /\ \A i \in 1..m : u[n + i] = t[i] /\ n + i \in 1..(n + m)
      /\ \A i \in 1..(n + m) : i \in 1..n \/ (i - n \in 1..m /\ n + (i - n) = i)
  OBVIOUS
<1> HIDE DEF n, m, u
<1>2. /\ Has(u, x) <=> \E i \in 1..(n + m) : u[i] = x
      /\ Has(s, x) <=> \E i \in 1..n : s[i] = x
      /\ Has(t, x) <=> \E i \in 1..m : t[i] = x
  BY <1>1 DEF Has, n, m
<1>3. ASSUME NEW i \in 1..(n + m), u[i] = x
      PROVE  Has(s, x) \/ Has(t, x)
  <2>1. CASE i \in 1..n
    BY <1>1, <1>2, <1>3, <2>1
  <2>2. CASE i - n \in 1..m /\ n + (i - n) = i
    <3>1. u[n + (i - n)] = t[i - n]
      BY <1>1, <2>2
    <3> QED
      BY <1>2, <1>3, <2>2, <3>1
  <2> QED
    BY <1>1, <2>1, <2>2
<1>4. ASSUME NEW i \in 1..n, s[i] = x
      PROVE  Has(u, x)
  BY <1>1, <1>2, <1>4
<1>5. ASSUME NEW i \in 1..m, t[i] = x
      PROVE  Has(u, x)
  <2>1. n + i \in 1..(n + m) /\ u[n + i] = x
    BY <1>1, <1>5
  <2> QED
    BY <1>2, <2>1
<1>6. Has(u, x) <=> Has(s, x) \/ Has(t, x)
  BY <1>2, <1>3, <1>4, <1>5
<1> QED
  BY <1>1, <1>6 DEF u

\* Flattened, sequences have the same elements.
LEMMA HasFlattened ==
  ASSUME NEW S, NEW ss \in Seq(Seq(S))
  PROVE  /\ FlattenSeq(ss) \in Seq(S)
         /\ \A x : Has(FlattenSeq(ss), x) <=> \E k \in 1..Len(ss) : Has(ss[k], x)
<1> DEFINE n == Len(ss)
           f == Flattening(ss)
           Good(m) == \A x : Has(f[m], x) <=> \E k \in 1..m : Has(ss[k], x)
           Off == {m \in Nat : m \in 1..n /\ ~Good(m)}
<1>1. n \in Nat /\ \A k \in 1..n : ss[k] \in Seq(S)
  OBVIOUS
<1>2. CASE n = 0
  <2>1. FlattenSeq(ss) = ss /\ ss \in Seq(S)
    BY <1>2 DEF FlattenSeq
  <2>2. \A x : ~Has(ss, x)
    BY <1>2 DEF Has
  <2> QED
    BY <1>2, <2>1, <2>2
<1>3. CASE n # 0
  <2>1. n >= 1 /\ n \in 1..n
    BY <1>1, <1>3
  <2>2. FlattenSeq(ss) = f[n]
    BY <2>1 DEF FlattenSeq, Flattening
  <2>3. f \in [1..n -> Seq(S)] /\ \A i \in 1..n : f[i] = IF i = 1 THEN ss[i] ELSE f[i - 1] \o ss[i]
    BY <2>1, FlatteningExists
  <2> HIDE DEF f
  <2>4. \A m \in 1..n : Good(m)
    <3>1. SUFFICES ASSUME NEW b \in 1..n, ~Good(b)
                   PROVE  FALSE
      OBVIOUS
    <3>2. b \in Off
      <4> HIDE DEF Good
      <4> QED
        BY <1>1, <3>1
    <3>3. PICK m \in Off : \A k \in Off : m <= k
      <4>1. Off \in SUBSET Nat
        OBVIOUS
      <4> HIDE DEF Off
      <4> QED
        BY <3>2, <4>1, LeastElement
    <3>4. m \in Nat /\ m \in 1..n /\ ~Good(m)
      <4> HIDE DEF Good
      <4> QED
        OBVIOUS
    <3>5. CASE m = 1
      <4>1. f[m] = ss[1]
        <5> HIDE DEF Good
        <5> QED
          BY <2>3, <3>4, <3>5
      <4>2. 1 \in 1..m /\ \A k \in 1..m : k = 1
        BY <3>5
      <4>3. Good(m)
        BY <4>1, <4>2
      <4> QED
        BY <3>4, <4>3
    <3>6. CASE m # 1
      <4> DEFINE k == m - 1
      <4>1. /\ k \in Nat /\ k \in 1..n /\ ~(m <= k) /\ m \in 1..m
            /\ \A j \in 1..m : j \in 1..k \/ j = m
            /\ \A j \in 1..k : j \in 1..m
        <5> HIDE DEF Good, n
        <5>1. m \in Nat /\ n \in Nat /\ m \in 1..n /\ m # 1
          BY <1>1, <3>4, <3>6
        <5> QED
          BY <5>1
      <4>2. Good(k)
        <5> HIDE DEF Good, k
        <5> QED
          BY <3>3, <4>1
      <4>3. f[k] \in Seq(S) /\ ss[m] \in Seq(S) /\ f[m] = f[k] \o ss[m]
        BY <1>1, <2>3, <3>4, <3>6, <4>1
      <4> HIDE DEF k
      <4>4. \A x : Has(f[m], x) <=> Has(f[k], x) \/ Has(ss[m], x)
        BY <4>3, HasEither
      <4>5. Good(m)
        BY <4>1, <4>2, <4>4
      <4> QED
        BY <3>4, <4>5
    <3> QED
      BY <3>5, <3>6
  <2>5. Good(n)
    <3> HIDE DEF Good
    <3> QED
      BY <2>1, <2>4
  <2> QED
    BY <2>1, <2>2, <2>3, <2>5
<1> QED
  BY <1>2, <1>3

\* Ends of lines are numbers up to some number.
LEMMA NodesAreBounded ==
  ASSUME AreLines
  PROVE  \E b \in Nat : \A n \in Nodes : n <= b
<1> DEFINE Bound(k, b) == \A i \in 1..k : lines[i].from <= b /\ lines[i].to <= b
           Off == {k \in Nat : k <= Len(lines) /\ ~\E b \in Nat : Bound(k, b)}
<1>1. /\ Len(lines) \in Nat /\ DOMAIN lines = 1..Len(lines)
      /\ \A i \in 1..Len(lines) : lines[i].from \in Nat /\ lines[i].to \in Nat
  <2>1. Len(lines) \in Nat /\ DOMAIN lines = 1..Len(lines) /\ \A i \in 1..Len(lines) : lines[i] \in LineString
    BY DEF AreLines
  <2> QED
    BY <2>1 DEF LineString
<1>2. \E b \in Nat : Bound(Len(lines), b)
  <2>1. SUFFICES ASSUME Off # {}
                 PROVE  FALSE
    <3> HIDE DEF Bound
    <3> QED
      BY <1>1
  <2>2. PICK k \in Off : \A m \in Off : k <= m
    <3>1. Off \in SUBSET Nat
      OBVIOUS
    <3> HIDE DEF Off
    <3> QED
      BY <2>1, <3>1, LeastElement
  <2>3. k \in Nat /\ k <= Len(lines) /\ ~\E b \in Nat : Bound(k, b)
    <3> HIDE DEF Bound
    <3> QED
      OBVIOUS
  <2>4. CASE k = 0
    <3>1. Bound(k, 0)
      BY <2>4
    <3> QED
      BY <2>3, <3>1
  <2>5. CASE k # 0
    <3> DEFINE m == k - 1
    <3>1. m \in Nat /\ m <= Len(lines) /\ ~(k <= m) /\ k \in 1..Len(lines)
          /\ \A i \in 1..k : i \in 1..m \/ i = k
      <4> HIDE DEF Bound
      <4>1. k \in Nat /\ k <= Len(lines) /\ Len(lines) \in Nat /\ k # 0
        BY <1>1, <2>3, <2>5
      <4> QED
        BY <4>1
    <3> HIDE DEF m
    <3>2. PICK b \in Nat : Bound(m, b)
      <4>1. m \notin Off
        <5> HIDE DEF Off
        <5> QED
          BY <2>2, <3>1
      <4> HIDE DEF Bound
      <4> QED
        BY <3>1, <4>1
    <3> DEFINE v == lines[k].from
               w == lines[k].to
               c == b + v + w
    <3>3. v \in Nat /\ w \in Nat
      BY <1>1, <3>1
    <3> HIDE DEF v, w
    <3>4. c \in Nat /\ b <= c /\ v <= c /\ w <= c /\ \A x \in Nat : x <= b => x <= c
      BY <3>3
    <3> HIDE DEF c
    <3>5. \A i \in 1..m : lines[i].from <= c /\ lines[i].to <= c
      <4> TAKE i \in 1..m
      <4>1. i \in 1..Len(lines)
        BY <1>1, <3>1
      <4>2. lines[i].from \in Nat /\ lines[i].to \in Nat /\ lines[i].from <= b /\ lines[i].to <= b
        BY <1>1, <3>2, <4>1
      <4> QED
        BY <3>4, <4>2
    <3>6. Bound(k, c)
      BY <3>1, <3>4, <3>5 DEF v, w
    <3> QED
      BY <2>3, <3>4, <3>6
  <2> QED
    BY <2>4, <2>5
<1>3. PICK b \in Nat : Bound(Len(lines), b)
  BY <1>2
<1>4. \A n \in Nodes : n <= b
  BY <1>1, <1>3 DEF Nodes
<1> QED
  BY <1>4

\* The nodes of degree one, listed.
LooseEnds == /\ findNodesOfDegree(1) \in Seq(Nodes)
             /\ \A n \in Nodes : Has(findNodesOfDegree(1), n) <=> \E d : outEdges(n) = {d}
             /\ \A i \in 1..Len(findNodesOfDegree(1)) : \E d : outEdges(findNodesOfDegree(1)[i]) = {d}

LEMMA LooseEndsAreFound == AreLines /\ lines # <<>> => LooseEnds
<1> SUFFICES ASSUME AreLines, lines # <<>>
             PROVE  LooseEnds
  OBVIOUS
<1> DEFINE m == Max(Nodes)
           Ends == {n \in Nodes : getDegree(n) = 1}
           ss == [i \in 1..(m + 1) |-> IF i - 1 \in Nodes /\ getDegree(i - 1) = 1 THEN <<i - 1>> ELSE <<>>]
<1>1. Nodes \subseteq Nat /\ Nodes # {}
  <2>1. 1 \in DOMAIN lines
    BY DEF AreLines
  <2> QED
    BY <2>1, EndsOfEdges DEF Nodes
<1>2. m \in Nodes /\ m \in Nat /\ \A n \in Nodes : n <= m
  <2>1. PICK b \in Nat : \A n \in Nodes : n <= b
    BY NodesAreBounded
  <2> QED
    BY <1>1, <2>1, HighestElement
<1> HIDE DEF m
<1>3. ss \in Seq(Seq(Nodes)) /\ Len(ss) = m + 1
  <2>1. \A i \in 1..(m + 1) : ss[i] \in Seq(Nodes)
    OBVIOUS
  <2> QED
    BY <1>2, <2>1
<1>4. findNodesOfDegree(1) = FlattenSeq(ss)
  BY DEF findNodesOfDegree, m
<1>5. ASSUME NEW x
      PROVE  (\E k \in 1..(m + 1) : Has(ss[k], x)) <=> x \in Ends
  <2>1. ASSUME NEW k \in 1..(m + 1), Has(ss[k], x)
        PROVE  x \in Ends
    <3>1. CASE k - 1 \in Nodes /\ getDegree(k - 1) = 1
      <4>1. ss[k] = <<k - 1>>
        BY <3>1
      <4>2. x = k - 1
        BY <2>1, <4>1 DEF Has
      <4> QED
        BY <3>1, <4>2
    <3>2. CASE ~(k - 1 \in Nodes /\ getDegree(k - 1) = 1)
      <4>1. ss[k] = <<>>
        BY <3>2
      <4> QED
        BY <2>1, <4>1 DEF Has
    <3> QED
      BY <3>1, <3>2
  <2>2. ASSUME x \in Ends
        PROVE  \E k \in 1..(m + 1) : Has(ss[k], x)
    <3>1. x \in Nat /\ x + 1 \in 1..(m + 1) /\ (x + 1) - 1 = x
      BY <1>1, <1>2, <2>2
    <3>2. ss[x + 1] = <<x>>
      BY <2>2, <3>1
    <3>3. Has(<<x>>, x)
      BY DEF Has
    <3> QED
      BY <3>1, <3>2, <3>3
  <2> QED
    BY <2>1, <2>2
<1> HIDE DEF ss
<1>6. findNodesOfDegree(1) \in Seq(Nodes) /\ \A x : Has(findNodesOfDegree(1), x) <=> x \in Ends
  BY <1>3, <1>4, <1>5, HasFlattened
<1>7. ASSUME NEW n \in Nodes
      PROVE  getDegree(n) = 1 <=> \E d : outEdges(n) = {d}
  BY OutEdgesOfNode, FS_Singleton DEF getDegree
<1>8. \A i \in 1..Len(findNodesOfDegree(1)) : Has(findNodesOfDegree(1), findNodesOfDegree(1)[i])
  BY DEF Has
<1> QED
  BY <1>6, <1>7, <1>8 DEF LooseEnds

------------------------------------------------------------------------------
(***************************************************************************)
(* Polygonizer: the dangles.                                               *)
(***************************************************************************)
\* A star names the edges that leave its node.
Drawn == \A n \in Nodes : star[n] \in Seq(DirEdges) /\ \A de : Has(star[n], de) <=> de \in outEdges(n)

liveEdges(n) == outEdges(n) \ marked

\* The edges at the dangles are deleted, the others not; of those at a node on the stack
\* at most one is left; and a node of which just one is left is on the stack.
Peeling ==
  /\ marked = dangles \X BOOLEAN
  /\ nodeStack \in Seq(Nodes)
  /\ \A i \in 1..Len(nodeStack) : \A c, d \in liveEdges(nodeStack[i]) : c = d
  /\ \A n \in Nodes : (\E d : liveEdges(n) = {d}) => Has(nodeStack, n)

\* Nothing is a dangle that is part of edges without loose ends.
OnlyDangles == \A E \in SUBSET Edges : ~HasDangle(E) => E \cap dangles = {}

DanglesInv ==
  /\ AreLines
  /\ dangles \subseteq Edges
  /\ OnlyDangles
  /\ stage = "new" => marked = {} /\ dangles = {}
  /\ stage # "new" => Drawn
  /\ stage = "dangles" => Peeling
  /\ stage \notin {"new", "dangles"} => ~HasDangle(Edges \ dangles)

LEMMA InvGivesDangles == DanglesInv => DanglesAreAll
BY DEF DanglesInv, OnlyDangles, DanglesAreAll

\* A loose end of E is a node that one edge of E leaves.
LEMMA LooseEndOf ==
  ASSUME AreLines, NEW E \in SUBSET Edges
  PROVE  HasDangle(E) <=> \E n \in Nodes : \E d : {de \in E \X BOOLEAN : fromNode(de) = n} = {d}
<1> DEFINE edgesAt(n) == {de \in E \X BOOLEAN : fromNode(de) = n}
<1>1. \A n : IsFiniteSet(edgesAt(n)) /\ (Cardinality(edgesAt(n)) = 1 <=> \E d : edgesAt(n) = {d})
  <2> TAKE n
  <2>1. edgesAt(n) \subseteq outEdges(n)
    BY DEF outEdges, DirEdges
  <2>2. IsFiniteSet(edgesAt(n))
    BY <2>1, OutEdgesOfNode, FS_Subset
  <2> HIDE DEF edgesAt
  <2> QED
    BY <2>2, FS_Singleton
<1>2. HasDangle(E) <=> \E n \in EndsOfAll(E) : Cardinality(edgesAt(n)) = 1
  BY DEF HasDangle
<1>3. EndsOfAll(E) \subseteq Nodes
  BY EndsAreNodes DEF EndsOfAll
<1>4. ASSUME NEW n \in Nodes, NEW d, edgesAt(n) = {d}
      PROVE  n \in EndsOfAll(E)
  <2>1. d \in E \X BOOLEAN /\ fromNode(d) = n
    BY <1>4
  <2>2. d \in DirEdges /\ edge(d) \in E
    BY <2>1 DEF DirEdges, edge
  <2>3. EndsOf(edge(d)) = {fromNode(d), toNode(d)}
    BY <2>2, EndsOfEdges
  <2> QED
    BY <2>1, <2>2, <2>3 DEF EndsOfAll
<1> HIDE DEF edgesAt
<1>5. HasDangle(E) <=> \E n \in Nodes : \E d : edgesAt(n) = {d}
  BY <1>1, <1>2, <1>3, <1>4
<1> QED
  BY <1>5 DEF edgesAt

\* Of the edges that are not dangles those that leave n are the ones not deleted.
LEMMA LiveIsLeft ==
  ASSUME AreLines, dangles \subseteq Edges, marked = dangles \X BOOLEAN, NEW n
  PROVE  {de \in (Edges \ dangles) \X BOOLEAN : fromNode(de) = n} = liveEdges(n)
<1>1. \A de : de \in (Edges \ dangles) \X BOOLEAN <=> de \in DirEdges \ marked
  BY DEF DirEdges
<1> QED
  BY <1>1 DEF liveEdges, outEdges

\* The graph is the same while its lines are.
LEMMA SameGraph ==
  lines' = lines =>
    /\ Edges' = Edges /\ Nodes' = Nodes /\ DirEdges' = DirEdges /\ (AreLines' <=> AreLines)
    /\ \A n : outEdges(n)' = outEdges(n)
    /\ \A E : HasDangle(E)' <=> HasDangle(E)
BY DEF Edges, Nodes, DirEdges, AreLines, outEdges, fromNode, HasDangle, EndsOfAll, EndsOf, toNode, getSym

LEMMA GraphIsGiven ==
  ASSUME DanglesInv, NEW g \in PlanarGraphs, stage = "new", Give(g)
  PROVE  DanglesInv'
<1>1. /\ stage' = "dangles" /\ lines' = g.lines /\ star' = g.star
      /\ nodeStack' = findNodesOfDegree(1)' /\ marked' = {} /\ dangles' = {}
  BY DEF Give, DanglesInv
<1>2. IsGraph(g)
  BY GraphsAssumption
<1> DEFINE from(de) == IF de[2] THEN g.lines[de[1]].from ELSE g.lines[de[1]].to
           ends == {from(de) : de \in (DOMAIN g.lines) \X BOOLEAN}
<1>3. g.lines \in Seq({line \in LineString : ~line.collapsed}) /\ g.lines # <<>>
  BY <1>2 DEF IsGraph
<1>4. \A n \in ends : /\ g.star[n] \in Seq((DOMAIN g.lines) \X BOOLEAN)
                      /\ ToSet(g.star[n]) = {de \in (DOMAIN g.lines) \X BOOLEAN : from(de) = n}
  BY <1>2 DEF IsGraph
<1>5. AreLines' /\ lines' # <<>> /\ \A i \in DOMAIN lines' : ~lines'[i].collapsed
  BY <1>1, <1>3 DEF AreLines
<1>6. LooseEnds'
  <2>1. AreLines' /\ (lines # <<>>)' => LooseEnds'
    BY LooseEndsAreFound, PTL
  <2> QED
    BY <1>5, <2>1
<1>7. DirEdges' = (DOMAIN g.lines) \X BOOLEAN
  BY <1>1, <1>5 DEF DirEdges, Edges
<1>8. \A n : outEdges(n)' = {de \in (DOMAIN g.lines) \X BOOLEAN : from(de) = n}
  BY <1>1, <1>7 DEF outEdges, fromNode
<1>9. Nodes' \subseteq ends
  <2>1. ASSUME NEW i \in DOMAIN g.lines
        PROVE  g.lines[i].from \in ends /\ g.lines[i].to \in ends
    <3>1. <<i, TRUE>> \in (DOMAIN g.lines) \X BOOLEAN /\ <<i, FALSE>> \in (DOMAIN g.lines) \X BOOLEAN
      OBVIOUS
    <3>2. from(<<i, TRUE>>) = g.lines[i].from /\ from(<<i, FALSE>>) = g.lines[i].to
      OBVIOUS
    <3> HIDE DEF from
    <3> QED
      BY <3>1, <3>2
  <2> HIDE DEF ends
  <2> QED
    BY <1>1, <2>1 DEF Nodes
<1>10. Drawn'
  <2> SUFFICES ASSUME NEW n \in Nodes'
               PROVE  star'[n] \in Seq(DirEdges') /\ \A de : Has(star'[n], de) <=> de \in outEdges(n)'
    BY DEF Drawn, Has
  <2> DEFINE s == g.star[n]
  <2>1. s \in Seq(DirEdges') /\ ToSet(s) = outEdges(n)'
    BY <1>4, <1>7, <1>8, <1>9
  <2> HIDE DEF s
  <2>2. DOMAIN s = 1..Len(s)
    BY <2>1
  <2>3. \A de : Has(s, de) <=> de \in ToSet(s)
    BY <2>2 DEF Has, ToSet
  <2> QED
    BY <1>1, <2>1, <2>3 DEF s
<1>11. \A n : liveEdges(n)' = outEdges(n)'
  BY <1>1 DEF liveEdges
<1>12. Peeling'
  <2>1. /\ nodeStack' \in Seq(Nodes')
        /\ \A n \in Nodes' : Has(nodeStack', n) <=> \E d : outEdges(n)' = {d}
        /\ \A i \in 1..Len(nodeStack') : \E d : outEdges(nodeStack[i])' = {d}
    BY <1>1, <1>6 DEF LooseEnds, Has
  <2>2. marked' = dangles' \X BOOLEAN
    BY <1>1
  <2> QED
    BY <1>11, <2>1, <2>2 DEF Peeling
<1> QED
  BY <1>1, <1>5, <1>10, <1>12 DEF DanglesInv, OnlyDangles

LEMMA HasFew == \A x, y : ~Has(<<>>, y) /\ (Has(<<x>>, y) <=> y = x)
<1> TAKE x, y
<1>1. ~Has(<<>>, y)
  BY DEF Has
<1>2. Len(<<x>>) = 1 /\ <<x>>[1] = x /\ 1 \in 1..1 /\ \A i \in 1..1 : i = 1
  OBVIOUS
<1>3. Has(<<x>>, y) <=> \E i \in 1..1 : <<x>>[i] = y
  BY <1>2 DEF Has
<1> QED
  BY <1>1, <1>2, <1>3

\* An edge whose end has at most one edge left is a dangle of any edges it is in.
LEMMA DeletedAreDangles ==
  ASSUME DanglesInv, Peeling, NEW n \in Nodes, \A c, d \in liveEdges(n) : c = d,
         NEW E \in SUBSET Edges, ~HasDangle(E), NEW de \in outEdges(n)
  PROVE  edge(de) \notin E
<1> SUFFICES ASSUME edge(de) \in E
             PROVE  FALSE
  OBVIOUS
<1>1. AreLines /\ E \cap dangles = {} /\ marked = dangles \X BOOLEAN
  BY DEF DanglesInv, OnlyDangles, Peeling
<1>2. de \in DirEdges /\ de = <<edge(de), getEdgeDirection(de)>> /\ getEdgeDirection(de) \in BOOLEAN
  BY <1>1, EndsOfEdges DEF outEdges
<1> DEFINE atE == {x \in E \X BOOLEAN : fromNode(x) = n}
<1>3. de \in atE
  BY <1>2 DEF outEdges
<1>4. atE \subseteq liveEdges(n)
  BY <1>1 DEF liveEdges, outEdges, DirEdges
<1>5. atE = {de}
  BY <1>3, <1>4
<1> QED
  BY <1>1, <1>5, LooseEndOf

LEMMA NodeIsDeleted ==
  ASSUME DanglesInv, DeleteAtNode
  PROVE  DanglesInv'
<1> DEFINE n == Last(nodeStack)
           out == star[n]
           deleted == marked \cup ToSet(out) \cup {getSym(de) : de \in ToSet(out)}
           ss == [i \in DOMAIN out |->
                    IF becomesDangle(toNode(out[i]), deleted) THEN <<toNode(out[i])>> ELSE <<>>]
           found == FlattenSeq(ss)
           gone == {edge(de) : de \in ToSet(out)}
<1>1. /\ stage = "dangles" /\ stage' = "dangles" /\ nodeStack # <<>>
      /\ marked' = deleted /\ nodeStack' = Front(nodeStack) \o found
      /\ dangles' = dangles \cup gone
      /\ lines' = lines /\ star' = star
  BY DEF DeleteAtNode
<1>2. AreLines /\ dangles \subseteq Edges /\ OnlyDangles /\ Drawn /\ Peeling
  BY <1>1 DEF DanglesInv
<1>3. /\ nodeStack \in Seq(Nodes) /\ Len(nodeStack) \in Nat /\ Len(nodeStack) \in 1..Len(nodeStack)
      /\ n = nodeStack[Len(nodeStack)] /\ n \in Nodes
  <2>1. nodeStack \in Seq(Nodes)
    BY <1>2 DEF Peeling
  <2> QED
    BY <1>1, <2>1 DEF Last
<1>4. \A c, d \in liveEdges(n) : c = d
  BY <1>2, <1>3 DEF Peeling
<1>5. /\ out \in Seq(DirEdges) /\ DOMAIN out = 1..Len(out) /\ Len(out) \in Nat
      /\ \A de : Has(out, de) <=> de \in outEdges(n)
  BY <1>2, <1>3 DEF Drawn
<1>6. ToSet(out) = outEdges(n)
  BY <1>5 DEF ToSet, Has
<1> HIDE DEF n
<1>7. /\ \A de : de \in deleted <=>
            de \in marked \/ de \in outEdges(n) \/ \E b \in outEdges(n) : de = getSym(b)
      /\ \A e : e \in gone <=> \E b \in outEdges(n) : e = edge(b)
  BY <1>6
<1> HIDE DEF deleted, gone, out
<1>8. gone \subseteq Edges
  BY <1>2, <1>7, EndsOfEdges DEF outEdges
<1>9. deleted = dangles' \X BOOLEAN
  <2>1. ASSUME NEW de \in deleted
        PROVE  de \in dangles' \X BOOLEAN
    <3>1. CASE de \in marked
      BY <1>1, <1>2, <3>1 DEF Peeling
    <3>2. ASSUME NEW b \in outEdges(n), de = b \/ de = getSym(b)
          PROVE  de \in dangles' \X BOOLEAN
      <4>1. b \in DirEdges /\ getSym(b) \in DirEdges /\ edge(getSym(b)) = edge(b)
        BY SymFacts DEF outEdges
      <4>2. de \in DirEdges /\ edge(de) = edge(b)
        BY <3>2, <4>1
      <4>3. de = <<edge(de), getEdgeDirection(de)>> /\ getEdgeDirection(de) \in BOOLEAN
        BY <1>2, <4>2, EndsOfEdges
      <4>4. edge(b) \in dangles'
        BY <1>1, <1>7
      <4> QED
        BY <4>2, <4>3, <4>4
    <3> QED
      BY <1>7, <3>1, <3>2
  <2>2. ASSUME NEW de \in dangles' \X BOOLEAN
        PROVE  de \in deleted
    <3>1. de[1] \in dangles' /\ de[2] \in BOOLEAN /\ de = <<de[1], de[2]>>
      OBVIOUS
    <3>2. CASE de[1] \in dangles
      BY <1>2, <1>7, <3>1, <3>2 DEF Peeling
    <3>3. CASE de[1] \in gone
      <4>1. PICK b \in outEdges(n) : de[1] = edge(b)
        BY <1>7, <3>3
      <4>2. /\ b = <<edge(b), getEdgeDirection(b)>> /\ getSym(b) = <<edge(b), ~getEdgeDirection(b)>>
            /\ getEdgeDirection(b) \in BOOLEAN
        BY <1>2, EndsOfEdges DEF outEdges
      <4>3. de[2] = getEdgeDirection(b) \/ de[2] = ~getEdgeDirection(b)
        BY <3>1, <4>2
      <4>4. de = b \/ de = getSym(b)
        BY <3>1, <4>1, <4>2, <4>3
      <4> QED
        BY <1>7, <4>4
    <3> QED
      BY <1>1, <3>1, <3>2, <3>3
  <2> QED
    BY <2>1, <2>2
<1>10. \A m : liveEdges(m)' = outEdges(m) \ deleted
  BY <1>1, SameGraph DEF liveEdges
<1>11. /\ found \in Seq(Nodes)
       /\ \A m : Has(found, m) <=> \E i \in 1..Len(out) : m = toNode(out[i]) /\ becomesDangle(m, deleted)
  <2>1. \A i \in 1..Len(out) : out[i] \in DirEdges /\ toNode(out[i]) \in Nodes
    BY <1>2, <1>5, EndsOfEdges
  <2>2. ss \in Seq(Seq(Nodes)) /\ Len(ss) = Len(out)
    <3>1. \A i \in 1..Len(out) : ss[i] \in Seq(Nodes)
      BY <1>5, <2>1
    <3> QED
      BY <1>5, <3>1
  <2>3. ASSUME NEW i \in 1..Len(ss), NEW m
        PROVE  Has(ss[i], m) <=> m = toNode(out[i]) /\ becomesDangle(m, deleted)
    <3>1. CASE becomesDangle(toNode(out[i]), deleted)
      <4>1. ss[i] = <<toNode(out[i])>>
        BY <1>5, <2>2, <3>1
      <4>2. Has(ss[i], m) <=> m = toNode(out[i])
        BY <4>1, HasFew
      <4> QED
        BY <3>1, <4>2
    <3>2. CASE ~becomesDangle(toNode(out[i]), deleted)
      <4>1. ss[i] = <<>>
        BY <1>5, <2>2, <3>2
      <4>2. ~Has(ss[i], m)
        BY <4>1, HasFew
      <4> QED
        BY <3>2, <4>2
    <3> QED
      BY <3>1, <3>2
  <2> HIDE DEF ss
  <2>4. found \in Seq(Nodes) /\ \A m : Has(found, m) <=> \E k \in 1..Len(ss) : Has(ss[k], m)
    BY <2>2, HasFlattened
  <2> HIDE DEF found
  <2> QED
    BY <2>2, <2>3, <2>4
<1> HIDE DEF ss, found
<1>12. ASSUME NEW m
       PROVE  becomesDangle(m, deleted) <=> \E d : outEdges(m) \ deleted = {d}
  <2>1. IsFiniteSet(outEdges(m) \ deleted)
    BY <1>2, OutEdgesOfNode, FS_Subset
  <2> QED
    BY <2>1, FS_Singleton DEF becomesDangle, getDegreeNonDeleted
<1> DEFINE f == Front(nodeStack)
<1>13. /\ f \in Seq(Nodes)
       /\ \A m : Has(f, m) => Has(nodeStack, m)
       /\ \A m : Has(nodeStack, m) => Has(f, m) \/ m = n
  <2>1. f = [i \in 1..(Len(nodeStack) - 1) |-> nodeStack[i]]
    BY <1>3 DEF Front
  <2>2. /\ f \in Seq(Nodes) /\ Len(f) = Len(nodeStack) - 1 /\ \A i \in 1..Len(f) : f[i] = nodeStack[i]
        /\ \A i \in 1..Len(f) : i \in 1..Len(nodeStack)
        /\ \A i \in 1..Len(nodeStack) : i \in 1..Len(f) \/ i = Len(nodeStack)
    BY <1>3, <2>1
  <2> HIDE DEF f
  <2> QED
    BY <1>3, <2>2 DEF Has
<1> HIDE DEF f
<1>14. /\ nodeStack' \in Seq(Nodes)
       /\ \A m : Has(nodeStack', m) <=> Has(f, m) \/ Has(found, m)
  BY <1>1, <1>11, <1>13, HasEither DEF f
<1>15. ASSUME NEW m, Has(nodeStack', m)
       PROVE  \A c, d \in outEdges(m) \ deleted : c = d
  <2>1. CASE Has(f, m)
    <3>1. \A c, d \in liveEdges(m) : c = d
      BY <1>2, <1>13, <2>1 DEF Has, Peeling
    <3> QED
      BY <1>7, <3>1 DEF liveEdges
  <2>2. CASE Has(found, m)
    BY <1>11, <1>12, <2>2
  <2> QED
    BY <1>14, <1>15, <2>1, <2>2
<1>16. ASSUME NEW m \in Nodes, NEW d, outEdges(m) \ deleted = {d}
       PROVE  Has(nodeStack', m)
  <2>1. m # n
    BY <1>7, <1>16
  <2>2. CASE liveEdges(m) = {d}
    BY <1>2, <1>13, <1>14, <2>1, <2>2 DEF Peeling
  <2>3. CASE liveEdges(m) # {d}
    <3>1. d \in liveEdges(m)
      BY <1>7, <1>16 DEF liveEdges
    <3>2. PICK c \in liveEdges(m) : c # d
      BY <2>3, <3>1
    <3>3. c \in outEdges(m) /\ c \notin marked /\ c \in deleted /\ fromNode(c) = m
      BY <1>16, <3>2 DEF liveEdges, outEdges
    <3>4. c \notin outEdges(n)
      BY <2>1, <3>3 DEF outEdges
    <3>5. PICK b \in outEdges(n) : c = getSym(b)
      BY <1>7, <3>3, <3>4
    <3>6. m = toNode(b)
      BY <3>3, <3>5 DEF toNode
    <3>7. PICK i \in 1..Len(out) : out[i] = b
      BY <1>5 DEF Has
    <3>8. Has(found, m)
      BY <1>11, <1>12, <1>16, <3>6, <3>7
    <3> QED
      BY <1>14, <3>8
  <2> QED
    BY <2>2, <2>3
<1>17. Peeling'
  <2>1. \A i \in 1..Len(nodeStack') : Has(nodeStack', nodeStack'[i])
    BY DEF Has
  <2>2. \A i \in 1..Len(nodeStack') : \A c, d \in liveEdges(nodeStack[i])' : c = d
    BY <1>10, <1>15, <2>1
  <2>3. \A m \in Nodes' : (\E d : liveEdges(m)' = {d}) => Has(nodeStack', m)
    BY <1>1, <1>10, <1>16, SameGraph
  <2>4. marked' = dangles' \X BOOLEAN /\ nodeStack' \in Seq(Nodes')
    BY <1>1, <1>9, <1>14, SameGraph
  <2> QED
    BY <2>2, <2>3, <2>4 DEF Peeling, Has
<1>18. OnlyDangles'
  <2> SUFFICES ASSUME NEW E \in SUBSET Edges, ~HasDangle(E)
               PROVE  E \cap dangles' = {}
    BY <1>1, SameGraph DEF OnlyDangles
  <2>1. \A b \in outEdges(n) : edge(b) \notin E
    BY <1>2, <1>3, <1>4, DeletedAreDangles
  <2>2. E \cap gone = {}
    BY <1>7, <2>1
  <2>3. E \cap dangles = {}
    BY <1>2 DEF OnlyDangles
  <2> QED
    BY <1>1, <2>2, <2>3
<1>19. Drawn'
  BY <1>1, <1>2, SameGraph DEF Drawn, Has
<1>20. AreLines' /\ dangles' \subseteq Edges'
  BY <1>1, <1>2, <1>8, SameGraph
<1> QED
  BY <1>1, <1>17, <1>18, <1>19, <1>20 DEF DanglesInv

LEMMA DanglesAreDeleted ==
  ASSUME DanglesInv, DanglesDeleted
  PROVE  DanglesInv'
<1>1. stage = "dangles" /\ stage' = "cuts" /\ nodeStack = <<>> /\ UNCHANGED <<lines, star, dangles>>
  BY DEF DanglesDeleted
<1>2. AreLines /\ dangles \subseteq Edges /\ Peeling /\ Drawn /\ OnlyDangles
  BY <1>1 DEF DanglesInv
<1>3. \A n \in Nodes : ~\E d : liveEdges(n) = {d}
  BY <1>1, <1>2, HasFew DEF Peeling
<1>4. ~HasDangle(Edges \ dangles)
  <2> DEFINE rest == Edges \ dangles
             edgesAt(n) == {de \in rest \X BOOLEAN : fromNode(de) = n}
  <2>1. \A n : edgesAt(n) = liveEdges(n)
    BY <1>2, LiveIsLeft DEF Peeling
  <2>2. HasDangle(rest) <=> \E n \in Nodes : \E d : edgesAt(n) = {d}
    BY <1>2, LooseEndOf
  <2> HIDE DEF edgesAt
  <2> QED
    BY <1>3, <2>1, <2>2
<1>5. AreLines' /\ dangles' \subseteq Edges' /\ Drawn' /\ OnlyDangles' /\ ~HasDangle(Edges \ dangles)'
  BY <1>1, <1>2, <1>4, SameGraph DEF Drawn, OnlyDangles, Has
<1> QED
  BY <1>1, <1>5 DEF DanglesInv

\* Nothing else touches the lines, or the dangles.
LEMMA DanglesStay ==
  ASSUME DanglesInv, UNCHANGED <<lines, star, dangles>>,
         stage \notin {"new", "dangles"}, stage' \notin {"new", "dangles"}
  PROVE  DanglesInv'
<1>1. AreLines /\ dangles \subseteq Edges /\ Drawn /\ OnlyDangles /\ ~HasDangle(Edges \ dangles)
  BY DEF DanglesInv
<1>2. AreLines' /\ dangles' \subseteq Edges' /\ Drawn' /\ OnlyDangles' /\ ~HasDangle(Edges \ dangles)'
  BY <1>1, SameGraph DEF Drawn, OnlyDangles, Has
<1> QED
  BY <1>2 DEF DanglesInv

LEMMA DanglesStutter ==
  ASSUME DanglesInv, UNCHANGED <<lines, star, stage, nodeStack, marked, dangles>>
  PROVE  DanglesInv'
<1>1. CASE stage \notin {"new", "dangles"}
  BY <1>1, DanglesStay
<1>2. CASE stage \in {"new", "dangles"}
  <2>1. AreLines' /\ dangles' \subseteq Edges' /\ OnlyDangles'
    BY SameGraph DEF DanglesInv, OnlyDangles
  <2>2. \A n : liveEdges(n)' = liveEdges(n)
    BY SameGraph DEF liveEdges
  <2>3. Drawn => Drawn'
    BY SameGraph DEF Drawn, Has
  <2>4. Peeling => Peeling'
    BY <2>2, SameGraph DEF Peeling, Has
  <2> QED
    BY <1>2, <2>1, <2>3, <2>4 DEF DanglesInv
<1> QED
  BY <1>1, <1>2

LEMMA GraphKeepsDangles ==
  ASSUME DanglesInv, NextOfGraph
  PROVE  DanglesInv'
<1>1. CASE stage = "new" /\ \E g \in PlanarGraphs : Give(g)
  BY <1>1, GraphIsGiven
<1>2. CASE DeleteAtNode
  BY <1>2, NodeIsDeleted
<1>3. CASE DanglesDeleted
  BY <1>3, DanglesAreDeleted
<1>4. CASE deleteCutEdges
  <2>1. UNCHANGED <<lines, star, dangles>> /\ stage = "cuts" /\ stage' = "label"
    BY <1>4 DEF deleteCutEdges
  <2> QED
    BY <2>1, DanglesStay
<1>5. CASE LabelRings
  <2>1. UNCHANGED <<lines, star, dangles>> /\ stage = "label" /\ stage' = "split"
    BY <1>5 DEF LabelRings
  <2> QED
    BY <2>1, DanglesStay
<1>6. CASE SplitRing
  <2>1. UNCHANGED <<lines, star, dangles>> /\ stage = "split" /\ stage' = "split"
    BY <1>6 DEF SplitRing
  <2> QED
    BY <2>1, DanglesStay
<1>7. CASE RingsSplit
  <2>1. UNCHANGED <<lines, star, dangles>> /\ stage = "split" /\ stage' = "find"
    BY <1>7 DEF RingsSplit
  <2> QED
    BY <2>1, DanglesStay
<1>8. CASE FindRing
  <2>1. UNCHANGED <<lines, star, dangles>> /\ stage = "find" /\ stage' = "find"
    BY <1>8 DEF FindRing
  <2> QED
    BY <2>1, DanglesStay
<1> QED
  BY <1>1, <1>2, <1>3, <1>4, <1>5, <1>6, <1>7, <1>8 DEF NextOfGraph

PolygonizerInv == DanglesInv /\ ChoiceInv

LEMMA PolygonizerStarts == lines = <<>> /\ NoGraph /\ NoRings => PolygonizerInv
<1> SUFFICES ASSUME lines = <<>>, NoGraph, NoRings
             PROVE  PolygonizerInv
  OBVIOUS
<1>1. /\ stage = "new" /\ marked = {} /\ dangles = {} /\ rings = <<>>
      /\ included = {} /\ includedSet = {} /\ stack = <<>> /\ entered = {}
  BY DEF NoGraph, NoRings
<1>2. AreLines
  BY DEF AreLines
<1>3. DanglesInv
  BY <1>1, <1>2 DEF DanglesInv, OnlyDangles
<1>4. RingsAreLists
  <2>1. rings \in Seq({})
    BY <1>1
  <2> QED
    BY <2>1 DEF RingsAreLists
<1> QED
  BY <1>1, <1>3, <1>4 DEF PolygonizerInv, ChoiceInv

LEMMA PolygonizerKeeps ==
  PolygonizerInv /\ [NextOfPolygonizer]_polygonizerVars => PolygonizerInv'
<1> SUFFICES ASSUME DanglesInv, ChoiceInv, [NextOfPolygonizer]_polygonizerVars
             PROVE  DanglesInv' /\ ChoiceInv'
  BY DEF PolygonizerInv
<1>1. CASE NextOfGraph /\ UNCHANGED ringVars
  BY <1>1, GraphKeepsDangles, GraphKeepsChoice DEF DanglesInv
<1>2. CASE FindShellsAndHoles
  <2>1. UNCHANGED <<lines, star, dangles>> /\ stage = "find" /\ stage' = "outer"
    BY <1>2 DEF FindShellsAndHoles, RingsFound
  <2> QED
    BY <1>2, <2>1, DanglesStay, HolesKeepChoice
<1>3. CASE findOuterShells
  <2>1. UNCHANGED <<lines, star, dangles>> /\ stage = "outer" /\ stage' = "include"
    BY <1>3 DEF findOuterShells
  <2> QED
    BY <1>3, <2>1, DanglesStay, OuterShellsFound
<1>4. CASE UpdateShell
  <2>1. UNCHANGED <<lines, star, stage, nodeStack, marked, dangles>>
    BY <1>4 DEF UpdateShell, graphVars
  <2> QED
    BY <1>4, <2>1, DanglesStutter, ShellUpdated
<1>5. CASE Enter
  <2>1. UNCHANGED <<lines, star, stage, nodeStack, marked, dangles>>
    BY <1>5 DEF Enter, graphVars
  <2> QED
    BY <1>5, <2>1, DanglesStutter, ShellEntered
<1>6. CASE Settle
  <2>1. UNCHANGED <<lines, star, stage, nodeStack, marked, dangles>>
    BY <1>6 DEF Settle, graphVars
  <2> QED
    BY <1>6, <2>1, DanglesStutter, ShellSettled
<1>7. CASE extractPolygons
  <2>1. UNCHANGED <<lines, star, dangles>> /\ stage = "include" /\ stage' = "done"
    BY <1>7 DEF extractPolygons
  <2> QED
    BY <1>7, <2>1, DanglesStay, ExtractingKeepsChoice
<1>8. CASE UNCHANGED polygonizerVars
  <2>1. UNCHANGED <<lines, star, stage, nodeStack, marked, dangles>>
    BY <1>8 DEF polygonizerVars, graphVars
  <2> QED
    BY <1>8, <2>1, DanglesStutter, ChoiceStutters
<1> QED
  BY <1>1, <1>2, <1>3, <1>4, <1>5, <1>6, <1>7, <1>8 DEF NextOfPolygonizer

\* Dangles and chosen polygons are as said above at every step of Polygonizer.
THEOREM PolygonizerInvariance == PolygonizerSpec => []PolygonizerInv
<1> QED
  BY PolygonizerStarts, PolygonizerKeeps, PTL DEF PolygonizerSpec

\* deleteDangles: what is left has no loose end, and nothing was deleted that belongs
\* to edges without loose ends; for any lines.
THEOREM DanglesAreAlwaysAll == PolygonizerSpec => []DanglesAreAll
<1>1. PolygonizerInv => DanglesAreAll
  BY InvGivesDangles DEF PolygonizerInv
<1> QED
  BY <1>1, PolygonizerInvariance, PTL

\* extractPolygons: only polygons that an odd number of edges separates from the outside,
\* and of a polygonal geometry no two that share an edge; whatever faces are outer and
\* wherever the parts of the graph lie.
THEOREM OnlyOddShellsAreExtracted == PolygonizerSpec => []NothingElseIsExtracted
<1>1. PolygonizerInv => NothingElseIsExtracted
  BY ChoiceGivesProperty DEF PolygonizerInv
<1> QED
  BY <1>1, PolygonizerInvariance, PTL
=================================================================================
