--------------------------- MODULE PreparedGeometry ---------------------------
(***************************************************************************)
(* PreparedPolygon, PreparedLineString and PreparedPoint: predicates that  *)
(* answer from a few points and from whether segments meet, and the caches *)
(* that their const methods fill on the way.                               *)
(*                                                                         *)
(* A call may throw wherever it allocates a cache; what it has filled so   *)
(* far stays for the next call.  Geometries are those of RelateGeometry,   *)
(* with one thing added that decides whether a crossing is proper: at some *)
(* vertices of the subdivision a segment may pass without ending there.    *)
(*                                                                         *)
(* Left to others: coveredBy, within, crosses, touches, overlaps, disjoint *)
(* and relate, and for lines and points the predicates not named below,    *)
(* ask RelateNG; rectangles have algorithms of their own.                  *)
(***************************************************************************)
EXTENDS RelateGeometry

CONSTANTS
  Target,       \* the geometries that are prepared
  Test,         \* the geometries they are tested against
  Collections,  \* of these, the ones that are a GeometryCollection
  MaxFailures   \* bound: exceptions

ASSUME PreparedAssumption ==
  Target \subseteq Geometry /\ Test \subseteq Geometry /\ Collections \subseteq Test
    /\ MaxFailures \in Nat

VARIABLES
  baseGeom, passed,       \* the base geometry, and where its segments pass a vertex
  ptOnGeomLoc,          \* there is a SimplePointInAreaLocator
  indexedPtOnGeomLoc,   \* there is an IndexedPointInAreaLocator ...
  index,                \* ... that has its index, of trees ...
  treesBuilt,           \* ... that have their root
  segIntFinder,         \* there is a finder; its base segments are whole
  indexBuilt, inserted, \* its tree: said to be complete, and what is in it
  round,                \* parity of the times process() replaced segInt and monoChains
  indexedDistance,      \* there is an IndexedFacetDistance
  failures,             \* exceptions so far
  pc, call, answer

locatorVars == <<ptOnGeomLoc, indexedPtOnGeomLoc, index, treesBuilt>>
finderVars == <<segIntFinder, indexBuilt, inserted, round>>
cacheVars == <<locatorVars, finderVars, indexedDistance>>
preparedVars == <<baseGeom, passed, cacheVars, failures, pc, call, answer>>

------------------------------------------------------------------------------
(***************************************************************************)
(* Where segments meet.  A vertex can be passed if it starts no part and   *)
(* every part that reaches it goes straight on.                            *)
(***************************************************************************)
Rings(g) == UNION {{polygon.rings[i] : i \in DOMAIN polygon.rings} : polygon \in Shape[g].polygons}
Parts(g) == Shape[g].lines \cup {ring \o <<ring[1]>> : ring \in Rings(g)}

Straight(u, v, w) ==
  LET x(p) == Coordinate[p][1] y(p) == Coordinate[p][2]
  IN  (x(v) - x(u)) * (y(w) - y(v)) = (y(v) - y(u)) * (x(w) - x(v))

GoesOn(part, i) == i \in 2..(Len(part) - 1) /\ Straight(part[i - 1], part[i], part[i + 1])
Passable(g) ==
  {v \in UNION LinearEdges(g) :
     \A part \in Parts(g) : \A i \in DOMAIN part : part[i] = v => GoesOn(part, i)}

\* The pairs of edges that form one segment at v.
Passing(g, v) ==
  UNION {{{{part[i - 1], v}, {v, part[i + 1]}} :
            i \in {j \in 2..(Len(part) - 1) : part[j] = v}} : part \in Parts(g)}

(***************************************************************************)
(* What SegmentIntersectionDetector finds: an intersection is proper when  *)
(* it is inside both segments and these are not on one line.               *)
(***************************************************************************)
hasProper(g, gPassed, h, hPassed) ==
  \E v \in gPassed \cap hPassed : \E x \in Passing(g, v), y \in Passing(h, v) : x # y
hasNonProper(g, gPassed, h, hPassed) ==
  \/ LinearEdges(g) \cap LinearEdges(h) # {}
  \/ (UNION LinearEdges(g) \cap UNION LinearEdges(h)) \ (gPassed \cap hPassed) # {}

Detected(g, gPassed, h, hPassed) ==
  {k \in {"proper", "nonProper"} :
     IF k = "proper" THEN hasProper(g, gPassed, h, hPassed)
                     ELSE hasNonProper(g, gPassed, h, hPassed)}

------------------------------------------------------------------------------
(***************************************************************************)
(* The points a geometry is represented by: one of each component.         *)
(***************************************************************************)
FirstPoints(g) == Shape[g].points \cup {part[1] : part \in Parts(g)}
Located(g) == {locate(baseGeom, v) : v \in FirstPoints(g)}
outermost(g) == IF "E" \in Located(g) THEN "E" ELSE IF "B" \in Located(g) THEN "B" ELSE "I"

\* Is a component of the target in the test geometry?
isAnyTargetComponentInTest(g) == \E v \in FirstPoints(baseGeom) : locate(g, v) # "E"

isPolygonal(g) == hasDimension(g, A) /\ g \notin Collections
isSingleShell(g) == Cardinality(Shape[g].polygons) = 1 /\ Cardinality(Rings(g)) = 1

Bool(b) == IF b THEN "true" ELSE "false"
AskedOf(g) ==
  IF Shape[g].type = A THEN {"contains", "covers", "containsProperly", "intersects", "distance"}
  ELSE IF Shape[g].type = L THEN {"intersects", "distance"} ELSE {"intersects"}

NoCall == [op |-> "none"]
Nothing == "none"

PreparedInit ==
  /\ baseGeom \in Target /\ passed \in SUBSET Passable(baseGeom)
  /\ ptOnGeomLoc = FALSE /\ indexedPtOnGeomLoc = FALSE /\ index = FALSE /\ treesBuilt = FALSE
  /\ segIntFinder = FALSE /\ indexBuilt = FALSE /\ inserted = "none" /\ round = 0
  /\ indexedDistance = FALSE
  /\ failures = 0 /\ pc = "idle" /\ call = NoCall /\ answer = Nothing

Goto(step) == pc' = step /\ UNCHANGED <<call, answer>>
Return(result) == pc' = "done" /\ answer' = result /\ UNCHANGED call
\* An exception leaves the call; what it has filled is left to its action.
Throw == failures < MaxFailures /\ failures' = failures + 1 /\ Return("exception")

(***************************************************************************)
(* A call and its test of the envelopes (of emptiness for distances).      *)
(***************************************************************************)
EnvelopesAllow(op, g) ==
  CASE op = "distance" -> ~isEmpty(baseGeom) /\ ~isEmpty(g)
    [] op = "intersects" -> EnvelopesIntersect(Envelope[baseGeom], Envelope[g])
    [] op \in {"contains", "covers", "containsProperly"} -> EnvelopeCovers(Envelope[baseGeom], Envelope[g])

FirstStep(op) ==
  CASE Shape[baseGeom].type = A -> "locator"
    [] Shape[baseGeom].type = L -> IF op = "intersects" THEN "finder" ELSE "facets"
    [] Shape[baseGeom].type = P -> "points"

Call(op, g, gPassed) ==
  /\ pc = "idle"
  /\ call' = [op |-> op, test |-> g, passed |-> gPassed]
  /\ IF EnvelopesAllow(op, g) THEN pc' = FirstStep(op) /\ UNCHANGED answer
     ELSE pc' = "done" /\ answer' = IF op = "distance" THEN "infinity" ELSE "false"
  /\ UNCHANGED <<baseGeom, passed, cacheVars, failures>>

Forget == /\ pc = "done"
          /\ pc' = "idle" /\ call' = NoCall /\ answer' = Nothing
          /\ UNCHANGED <<baseGeom, passed, cacheVars, failures>>

------------------------------------------------------------------------------
(***************************************************************************)
(* getPointLocator: a simple locator for the first use, an indexed one for *)
(* the second and all later ones.                                          *)
(***************************************************************************)
AfterLocator == IF pc = "locator" THEN "locate" ELSE "interior"

getPointLocator ==
  /\ pc \in {"locator", "relocate"}
  /\ \/ /\ ptOnGeomLoc' = TRUE
        /\ indexedPtOnGeomLoc' = ptOnGeomLoc
        \* the simple locator needs no index
        /\ Goto(IF ptOnGeomLoc THEN AfterLocator
                ELSE IF pc = "locator" THEN "located" ELSE "interiorFound")
        /\ UNCHANGED failures
     \/ /\ ~indexedPtOnGeomLoc
        /\ Throw /\ UNCHANGED <<ptOnGeomLoc, indexedPtOnGeomLoc>>
  /\ UNCHANGED <<baseGeom, passed, index, treesBuilt, finderVars, indexedDistance>>

(***************************************************************************)
(* IndexedPointInAreaLocator::locate sets index when all edges are in it;  *)
(* then the query builds its STR-trees, each when it is first asked.  What *)
(* the query needs memory for may fail when index is set already.          *)
(***************************************************************************)
locateIndexed ==
  /\ pc \in {"locate", "interior"}
  /\ \/ /\ index' = TRUE /\ treesBuilt' = TRUE
        /\ Goto(IF pc = "locate" THEN "located" ELSE "interiorFound")
        /\ UNCHANGED failures
     \/ /\ ~index
        /\ Throw /\ UNCHANGED <<index, treesBuilt>>
     \/ /\ ~treesBuilt
        /\ index' = TRUE /\ Throw /\ UNCHANGED treesBuilt
  /\ UNCHANGED <<baseGeom, passed, ptOnGeomLoc, indexedPtOnGeomLoc, finderVars, indexedDistance>>

\* mutated form of ByPoints: intersects goes on to the segments of points
ByPointsWithoutShortcut ==
  LET g == call.test
  IN  CASE call.op = "intersects" ->
             IF Located(g) # {"E"} THEN Return("true") ELSE Goto("finder")
        [] call.op = "containsProperly" ->
             IF Located(g) # {"I"} THEN Return("false") ELSE Goto("finder")
        [] call.op = "distance" ->
             IF Located(g) # {"E"} THEN Return("zero") ELSE Goto("facets")
        [] call.op \in {"contains", "covers"} ->
             IF outermost(g) = "E" THEN Return("false")
             ELSE IF ~hasDimension(g, P) THEN Goto("finder")
             ELSE IF call.op = "covers" \/ outermost(g) = "I" THEN Return("true")
             ELSE IF Cardinality(Shape[g].points) <= 1 THEN Return("false") ELSE Goto("relocate")

(***************************************************************************)
(* What the points of the test geometry decide.                            *)
(***************************************************************************)
ByPoints ==
  LET g == call.test
  IN  CASE call.op = "intersects" ->
             IF Located(g) # {"E"} THEN Return("true")
             ELSE IF hasDimension(g, P) /\ g \notin Collections THEN Return("false") ELSE Goto("finder")
        [] call.op = "containsProperly" ->
             IF Located(g) # {"I"} THEN Return("false") ELSE Goto("finder")
        [] call.op = "distance" ->
             IF Located(g) # {"E"} THEN Return("zero") ELSE Goto("facets")
        [] call.op \in {"contains", "covers"} ->
             IF outermost(g) = "E" THEN Return("false")
             ELSE IF ~hasDimension(g, P) THEN Goto("finder")
             ELSE IF call.op = "covers" \/ outermost(g) = "I" THEN Return("true")
             ELSE IF Cardinality(Shape[g].points) <= 1 THEN Return("false") ELSE Goto("relocate")

DecideByPoints ==
  /\ pc = "located" /\ ByPoints
  /\ UNCHANGED <<baseGeom, passed, cacheVars, failures>>

\* contains, several points of which one is on the boundary
DecideByInterior ==
  /\ pc = "interiorFound" /\ Return(Bool("I" \in Located(call.test)))
  /\ UNCHANGED <<baseGeom, passed, cacheVars, failures>>

(***************************************************************************)
(* getIntersectionFinder: an exception leaves strings in segStrings, which *)
(* the next call extracts again; the finder is set when it has all chains. *)
(***************************************************************************)
getIntersectionFinder ==
  /\ pc = "finder"
  /\ \/ segIntFinder' = TRUE /\ Goto("process") /\ UNCHANGED failures
     \/ ~segIntFinder /\ Throw /\ UNCHANGED segIntFinder
  /\ UNCHANGED <<baseGeom, passed, locatorVars, indexBuilt, inserted, round, indexedDistance>>

\* mutated form of fillIndex: indexBuilt is set before the loop
fillIndexMarkedFirst ==
  \/ /\ inserted' = IF indexBuilt THEN inserted ELSE "whole"
     /\ indexBuilt' = TRUE
     /\ \/ Goto("detect") /\ UNCHANGED failures
        \/ Throw
  \/ /\ ~indexBuilt /\ indexBuilt' = TRUE
     /\ inserted' \in {inserted, "part"}
     /\ Throw

(***************************************************************************)
(* MCIndexSegmentSetMutualIntersector::process.  An exception may leave a  *)
(* part of the chains in the tree; the next call inserts all of them.      *)
(***************************************************************************)
fillIndex ==
  \/ /\ inserted' = IF indexBuilt THEN inserted ELSE "whole"
     /\ indexBuilt' = TRUE
     /\ \/ Goto("detect") /\ UNCHANGED failures
        \/ Throw
  \/ /\ ~indexBuilt /\ UNCHANGED indexBuilt
     /\ inserted' \in {inserted, "part"}
     /\ Throw

process ==
  /\ pc = "process" /\ fillIndex
  /\ round' = 1 - round
  /\ UNCHANGED <<baseGeom, passed, locatorVars, segIntFinder, indexedDistance>>

\* What a query of the tree may find: with a part of the chains, anything less.
Findings ==
  LET all == Detected(baseGeom, passed, call.test, call.passed)
  IN  IF inserted = "whole" THEN {all} ELSE SUBSET all

\* mutated form of contained: a ring of the target inside the test is not looked for
containedBySegments(found) ==
  LET g == call.test
  IN  IF "proper" \in found /\ (isPolygonal(g) \/ isSingleShell(baseGeom)) THEN FALSE
      ELSE IF found = {"proper"} THEN FALSE
      ELSE IF found # {} THEN
             IF call.op = "contains" THEN isContains(Truth[<<baseGeom, g>>])
                                     ELSE isCovers(Truth[<<baseGeom, g>>])
      ELSE TRUE

(***************************************************************************)
(* What segment intersections and then points of the target decide.        *)
(***************************************************************************)
contained(found) ==
  LET g == call.test
  IN  IF "proper" \in found /\ (isPolygonal(g) \/ isSingleShell(baseGeom)) THEN FALSE
      ELSE IF found = {"proper"} THEN FALSE
      ELSE IF found # {} THEN   \* the full topological predicate
             IF call.op = "contains" THEN isContains(Truth[<<baseGeom, g>>])
                                     ELSE isCovers(Truth[<<baseGeom, g>>])
      ELSE ~(isPolygonal(g) /\ isAnyTargetComponentInTest(g))

properlyContained(found) ==
  found = {} /\ ~(isPolygonal(call.test) /\ isAnyTargetComponentInTest(call.test))

intersected(found) ==
  \/ found # {}
  \/ hasDimension(call.test, A) /\ isAnyTargetComponentInTest(call.test)
  \/ /\ Shape[baseGeom].type = L /\ hasDimension(call.test, P)
     /\ \E v \in FirstPoints(call.test) : locate(baseGeom, v) # "E"

DecideBySegments ==
  /\ pc = "detect"
  /\ \E found \in Findings :
       Return(Bool(CASE call.op = "intersects" -> intersected(found)
                     [] call.op = "containsProperly" -> properlyContained(found)
                     [] call.op \in {"contains", "covers"} -> contained(found)))
  /\ UNCHANGED <<baseGeom, passed, cacheVars, failures>>

(***************************************************************************)
(* The distance of facets: only whether it is zero is modelled.            *)
(***************************************************************************)
getIndexedFacetDistance ==
  /\ pc = "facets"
  /\ \/ indexedDistance' = TRUE /\ Goto("measure") /\ UNCHANGED failures
     \/ ~indexedDistance /\ Throw /\ UNCHANGED indexedDistance
  /\ UNCHANGED <<baseGeom, passed, locatorVars, finderVars>>

FacetsMeet(g, h) == VerticesOf(g) \cap VerticesOf(h) # {}

Measure ==
  /\ pc = "measure"
  /\ Return(IF \/ FacetsMeet(baseGeom, call.test)
               \/ hasDimension(call.test, A) /\ isAnyTargetComponentInTest(call.test)
            THEN "zero" ELSE "positive")
  /\ UNCHANGED <<baseGeom, passed, cacheVars, failures>>

\* PreparedPoint::intersects
DecideForPoints ==
  /\ pc = "points" /\ Return(Bool(isAnyTargetComponentInTest(call.test)))
  /\ UNCHANGED <<baseGeom, passed, cacheVars, failures>>

Step == \/ getPointLocator \/ locateIndexed \/ DecideByPoints \/ DecideByInterior
        \/ getIntersectionFinder \/ process \/ DecideBySegments
        \/ getIndexedFacetDistance \/ Measure \/ DecideForPoints

PreparedNext ==
  \/ \E op \in AskedOf(baseGeom), g \in Test :
       \E gPassed \in SUBSET Passable(g) : Call(op, g, gPassed)
  \/ Step \/ Forget

PreparedSpec == PreparedInit /\ [][PreparedNext]_preparedVars
------------------------------------------------------------------------------
Steps == {"idle", "locator", "locate", "located", "relocate", "interior", "interiorFound",
          "finder", "process", "detect", "facets", "measure", "points", "done"}

\* Types; a call in progress is one the base geometry answers itself.
PreparedTypeOK ==
  /\ baseGeom \in Target /\ passed \subseteq Vertex
  /\ {ptOnGeomLoc, indexedPtOnGeomLoc, index, treesBuilt, segIntFinder, indexBuilt, indexedDistance}
       \subseteq BOOLEAN
  /\ inserted \in {"none", "part", "whole"} /\ round \in {0, 1}
  /\ failures \in 0..MaxFailures
  /\ pc \in Steps
  /\ pc = "idle" <=> call = NoCall
  /\ pc # "idle" => call.op \in AskedOf(baseGeom) /\ call.test \in Test
  /\ answer \in {Nothing, "true", "false", "zero", "positive", "infinity", "exception"}
  /\ answer # Nothing <=> pc = "done"

(***************************************************************************)
(* Whatever earlier calls have cached, half cached or failed to cache, a   *)
(* prepared geometry answers as the geometry itself does: with the few     *)
(* points and segment intersections that were looked at the predicate of   *)
(* the complete matrix is decided.                                         *)
(***************************************************************************)
ProperlyContains == PatternOf(<<"T", "*", "*", "F", "F", "*", "F", "F", "*">>)
Documented(op, m) ==
  CASE op = "contains" -> Bool(isContains(m))
    [] op = "covers" -> Bool(isCovers(m))
    [] op = "containsProperly" -> Bool(matches(m, ProperlyContains))
    [] op = "intersects" -> Bool(isIntersects(m))
    [] op = "distance" -> IF isIntersects(m) THEN "zero" ELSE "positive"

AnswerIsTruth ==
  answer \notin {Nothing, "exception", "infinity"} =>
    answer = Documented(call.op, Truth[<<baseGeom, call.test>>])

(***************************************************************************)
(* There is no lock.  Which calls may two threads make at a time?  Those   *)
(* that only read: tests of points once two calls have been through the    *)
(* points without an exception.  That there is an index is not enough, as  *)
(* its trees may be unbuilt; and containsProperly always asks for segments *)
(* and with them replaces segInt and monoChains (so does every other call  *)
(* that queries the segments' tree, which may be the one that builds it).  *)
(***************************************************************************)
Warm == index /\ treesBuilt
OnlyLocates(op, g) == /\ op \in {"contains", "covers", "intersects"}
                      /\ hasDimension(g, P) /\ g \notin Collections

WarmCallsOnlyRead ==
  [][Warm /\ Shape[baseGeom].type = A /\ call # NoCall /\ OnlyLocates(call.op, call.test)
       => UNCHANGED cacheVars]_preparedVars

(***************************************************************************)
(* A tree that is said to be complete is: no exception leaves one that     *)
(* later calls would query although chains are missing.                    *)
(***************************************************************************)
BuiltIndexIsWhole == indexBuilt => segIntFinder /\ inserted = "whole"
==============================================================================
