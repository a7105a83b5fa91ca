------------------------------- MODULE Polygonizer -------------------------------
(***************************************************************************)
(* Polygonizer with extractOnlyPolygonal: of the polygons that the rings   *)
(* form those are extracted that make up one valid polygonal geometry,     *)
(* every other one counted from the outside.                               *)
(*                                                                         *)
(* Which face of a connected part is the outer one and what the part lies  *)
(* in is chosen from outside; from there on it follows which rings are     *)
(* holes, and whose (computeHole, HoleAssigner).                           *)
(***************************************************************************)
EXTENDS PolygonizeGraph

VARIABLES
  hole,       \* rings that are holes
  shell,      \* per hole, the shell it is assigned to, or 0
  includedSet, \* rings of which it is known whether they are included
  included,   \* rings that are
  entered,    \* visitedByUpdateIncludedRecursive
  stack,      \* shells updateIncludedRecursive is in
  toUpdate    \* shells findDisjointShells has not come to

ringVars == <<hole, shell, includedSet, included, entered, stack, toUpdate>>

NoRings == hole = {} /\ shell = <<>> /\ includedSet = {} /\ included = {} /\ entered = {} /\ stack = <<>> /\ toUpdate = {}

Rings == DOMAIN rings
ringOf(de) == CHOOSE k \in Rings : \E i \in DOMAIN rings[k] : rings[k][i] = de
face(k) == label[rings[k][1]]
Parts == {Connected(sidesOf(k), {edge(de) : de \in Live}) : k \in Rings}
ringsOf(sides) == {k \in Rings : sidesOf(k) \subseteq sides}

\* A ring that shares a face with a shell is a hole in it, and all rings of a
\* block but the hole are shells.
HolesFrom(outer, blocks) ==
  LET shellsOf(H) == UNION {ringsOf(b) : b \in {c \in blocks : ringsOf(c) \cap H # {}}} \ H
      holesIn(S) == {k \in Rings \ S : face(k) \in {face(s) : s \in S}}
      more(H) == H \cup holesIn(shellsOf(H))
      found[n \in Nat] == IF n = 0 THEN {k \in Rings : face(k) \in outer}
                          ELSE more(found[n - 1])
  IN  found[Len(rings)]

\* For each part one of its faces.
OuterFaces(parts) ==
  {outer \in SUBSET {face(k) : k \in Rings} :
     \A p \in parts : Cardinality({face(k) : k \in ringsOf(p)} \cap outer) = 1}

\* What each part lies in: nothing, or a shell of a part that is further out.
Placements(shells, parts) ==
  {inside \in [parts -> {0} \cup shells] :
     \E depth \in [parts -> 1..Cardinality(parts)] :
       \A p, q \in parts : inside[p] \in ringsOf(q) => depth[q] < depth[p]}

FindShellsAndHoles ==
  /\ RingsFound /\ stage' = "outer"
  /\ \E outer \in OuterFaces(Parts) :
       /\ hole' = HolesFrom(outer, Blocks)
       /\ \E inside \in Placements(Rings \ hole', Parts) :
            shell' = [h \in hole' |->
                        IF face(h) \in outer THEN inside[CHOOSE p \in Parts : h \in ringsOf(p)]
                        ELSE CHOOSE s \in Rings \ hole' : face(s) = face(h)]
  /\ UNCHANGED <<includedSet, included, entered, stack, toUpdate, lines, star, nodeStack, marked, dangles, cutEdges, next, label, toSplit, rings>>

------------------------------------------------------------------------------
shellList == Rings \ hole   \* in the order of rings
isIncludedSet(k) == k \in includedSet
adjacentRings(k) == [i \in DOMAIN rings[k] |-> ringOf(getSym(rings[k][i]))]
getShell(k) == IF k \in hole THEN shell[k] ELSE k

\* The shells on the other side of the edges of shell k; 0 is outside all.
adjacentShells(k) == [i \in DOMAIN rings[k] |-> getShell(adjacentRings(k)[i])]

isOuterHole(k) == k \in hole /\ shell[k] = 0
atOuterHole(k) == {i \in DOMAIN rings[k] : isOuterHole(adjacentRings(k)[i])}
getOuterHole(k) == adjacentRings(k)[First(atOuterHole(k))]

\* findOuterShells: the first shell at each outer hole is included.
isFirstAtItsHole(k) ==
  /\ atOuterHole(k) # {}
  /\ \A j \in shellList : j < k /\ atOuterHole(j) # {} => getOuterHole(j) # getOuterHole(k)

findOuterShells ==
  /\ stage = "outer" /\ stage' = "include"
  /\ included' = {k \in shellList : isFirstAtItsHole(k)} /\ includedSet' = included'
  /\ toUpdate' = shellList
  /\ UNCHANGED <<lines, star, nodeStack, marked, dangles, cutEdges, next, label, toSplit, rings,
                 hole, shell, entered, stack>>

\* findDisjointShells: the next shell of the list, if it is not set by now
UpdateShell ==
  /\ stage = "include" /\ stack = <<>> /\ toUpdate # {}
  /\ LET k == First(toUpdate)
     IN  /\ toUpdate' = toUpdate \ {k}
         /\ IF isIncludedSet(k) THEN UNCHANGED <<stack, entered>>
            ELSE stack' = <<k>> /\ entered' = entered \cup {k}
  /\ UNCHANGED <<graphVars, hole, shell, includedSet, included>>

\* updateIncludedRecursive: first it enters adjacent shells that are not set ...
toEnter(k) == {i \in DOMAIN rings[k] :
                 LET s == adjacentShells(k)[i] IN s \in shellList /\ ~isIncludedSet(s) /\ s \notin entered}

Enter ==
  /\ stage = "include" /\ stack # <<>> /\ toEnter(Last(stack)) # {}
  /\ LET k == Last(stack)
         s == adjacentShells(k)[First(toEnter(k))]
     IN  stack' = Append(stack, s) /\ entered' = entered \cup {s}
  /\ UNCHANGED <<graphVars, hole, shell, includedSet, included, toUpdate>>

\* mutated form of opposite: as the adjacent shell
oppositeOfNone(s) == s \in included

opposite(s) == s \notin included

known(k) == {i \in DOMAIN rings[k] :
               LET s == adjacentShells(k)[i] IN s \in shellList /\ isIncludedSet(s)}

\* ... then it becomes the opposite of the first one that is.
Settle ==
  /\ stage = "include" /\ stack # <<>> /\ toEnter(Last(stack)) = {}
  /\ LET k == Last(stack)
     IN  IF known(k) = {} THEN UNCHANGED <<includedSet, included>>
         ELSE /\ includedSet' = includedSet \cup {k}
              /\ included' = IF opposite(adjacentShells(k)[First(known(k))])
                             THEN included \cup {k} ELSE included
  /\ stack' = Front(stack)
  /\ UNCHANGED <<graphVars, hole, shell, entered, toUpdate>>

extractPolygons ==
  /\ stage = "include" /\ stack = <<>> /\ toUpdate = {} /\ stage' = "done"
  /\ UNCHANGED <<lines, star, nodeStack, marked, dangles, cutEdges, next, label, toSplit, rings, ringVars>>

NextOfPolygonizer ==
  \/ NextOfGraph /\ UNCHANGED ringVars
  \/ FindShellsAndHoles \/ findOuterShells \/ UpdateShell \/ Enter \/ Settle \/ extractPolygons

polygonizerVars == <<graphVars, ringVars>>
PolygonizerSpec == lines = <<>> /\ NoGraph /\ NoRings /\ [][NextOfPolygonizer]_polygonizerVars
------------------------------------------------------------------------------
extracted == included \ hole

\* Two polygons that meet in an edge, of their shells or a hole.
EdgeAdjacent(j, k) == j # k /\ (k \in ToSet(adjacentShells(j)) \/ j \in ToSet(adjacentShells(k)))

\* The shells that an odd number of steps across edges leads to from outside, and
\* those that an even number does.
OutermostShells == {k \in shellList : \E i \in DOMAIN rings[k] : adjacentShells(k)[i] = 0}
Beside(S) == {j \in shellList : \E k \in S : EdgeAdjacent(j, k)}
OddShells ==
  LET first == OutermostShells
      beside == [k \in shellList |-> Beside({k})]
      closed == {S \in SUBSET shellList :
                   first \subseteq S /\ \A k \in S : \A j \in beside[k] : beside[j] \subseteq S}
  IN  {k \in shellList : \A S \in closed : k \in S}
EvenShells == Beside(OddShells)

\* The lines are those of a valid polygonal geometry.
IsPolygonal == OddShells \cap EvenShells = {}

(***************************************************************************)
(* Only polygons are extracted that an odd number of edges separates from  *)
(* the outside.  So of lines that form a valid polygonal geometry only     *)
(* polygons of that geometry are extracted, and no two share an edge.      *)
(***************************************************************************)
NothingElseIsExtracted ==
  stage = "done" => /\ extracted \subseteq OddShells
                    /\ IsPolygonal => \A j, k \in extracted : ~EdgeAdjacent(j, k)

(***************************************************************************)
(* Polygonizer.h: the set of extracted polygons is guaranteed to be edge-  *)
(* disjoint, and lines known to form a valid polygonal geometry give it    *)
(* back.  Neither is so: a shell whose neighbours are being looked at      *)
(* already may be left unset for good, or be set from the first neighbour  *)
(* that is set without a look at the others.                               *)
(***************************************************************************)
ExtractedAsPromised ==
  stage = "done" =>
    /\ \A j, k \in extracted : ~EdgeAdjacent(j, k)
    /\ IsPolygonal => extracted = OddShells
==================================================================================
