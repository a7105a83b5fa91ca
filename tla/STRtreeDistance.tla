--------------------------- MODULE STRtreeDistance ----------------------------
(***************************************************************************)
(* The best-first searches of TemplateSTRtreeDistance: the nearest pair of *)
(* items of two trees, and whether two items are within a distance.  A     *)
(* queue of pairs of nodes is popped by distance; a pair with a branch is  *)
(* replaced by the pairs of that branch's children.                        *)
(*                                                                         *)
(* The trees are those a build leaves: Children and the distances between  *)
(* bounds are given, the caller's item distance is any of Metrics.  The    *)
(* two roots may be the same tree, and the second may be the single node   *)
(* that nearestNeighbour(env, item) makes of its item.                     *)
(***************************************************************************)
EXTENDS Naturals, FiniteSets

CONSTANTS Node,
          Root,            \* the roots of the trees; Null for an empty tree
          Null,
          Children,        \* Children[n]: the nodes below n, {} for a leaf
          Items,           \* Items[n]: the leaves below n, n itself for a leaf
          BoundsDistance,  \* BoundsDistance[m, n] = BoundsTraits::distance
          BoundsMaximum,   \* BoundsMaximum[m, n] = BoundsTraits::maxDistance
          Size,            \* Size[n] = BoundsTraits::size
          Metrics,         \* the caller's distances of two leaves
          Ranges,          \* the maxDistance a caller of isWithinDistance gives
          Infinity         \* DoubleInfinity, more than any distance

Leaf == {n \in Node : Children[n] = {}}

(***************************************************************************)
(* Every node has items below it, those of its children.                   *)
(***************************************************************************)
ASSUME TreeAssumption ==
  /\ Root \subseteq Node \cup {Null} /\ Null \notin Node
  /\ Children \in [Node -> SUBSET Node]
  /\ Items \in [Node -> SUBSET Leaf] /\ \A n \in Node : Items[n] # {}
  /\ \A n \in Leaf : Items[n] = {n}
  /\ \A n \in Node \ Leaf : Items[n] = UNION {Items[c] : c \in Children[n]}

ASSUME DistanceAssumption ==
  /\ BoundsDistance \in [Node \X Node -> Nat]
  /\ BoundsMaximum \in [Node \X Node -> Nat]
  /\ Size \in [Node -> Nat]
  /\ Metrics \subseteq [Leaf \X Leaf -> Nat]
  /\ Ranges \subseteq Nat /\ Infinity \in Nat \ (Ranges \cup {0})

VARIABLES root1, root2, itemDistance,  \* the call: two trees and a metric
          maxDistance,                 \* of isWithinDistance; Infinity in a
                                       \* search for the nearest pair
          priQ,                        \* the queue, without its order
          minPair, lowerBound,         \* the best pair so far
          result                       \* what the call returns

callVars == << root1, root2, itemDistance, maxDistance >>
searchVars == << callVars, priQ, minPair, lowerBound, result >>

Pair == Node \X Node
None == << >>
Running == [kind |-> "running"]
NoItems == [kind |-> "nullptr"]
Error == [kind |-> "exception"]
Nearest(p) == [kind |-> "pair", pair |-> p]
Answer(b) == [kind |-> "answer", within |-> b]

-------------------------------------------------------------------------------
\* NodePair
isLeaves(p) == p[1] \in Leaf /\ p[2] \in Leaf

\* mutated form of distance: the bounds' distance for leaves as well
distanceOfBounds(p) == BoundsDistance[p]

distance(p) == IF isLeaves(p) THEN itemDistance[p] ELSE BoundsDistance[p]

\* mutated form of maximumDistance: the gap, not the reach
maximumDistanceAsGap(p) == BoundsDistance[p]

maximumDistance(p) == BoundsMaximum[p]

\* PairQueueCompare: the top of the queue, any of those with the least distance
IsTop(p) == p \in priQ /\ \A q \in priQ : distance(p) <= distance(q)

\* mutated form of ExpandsFirst: the larger node is expanded, leaf or not
ExpandsLarger(p) == Size[p[1]] > Size[p[2]]

\* expandToQueue: the larger branch, or the only one
ExpandsFirst(p) == /\ p[1] \notin Leaf
                   /\ p[2] \notin Leaf => Size[p[1]] > Size[p[2]]

Expansion(p) == IF ExpandsFirst(p) THEN {<< c, p[2] >> : c \in Children[p[1]]}
                                   ELSE {<< p[1], c >> : c \in Children[p[2]]}

\* expand: only pairs that may beat the bound enter the queue
Promising(p, bound) == bound = Infinity \/ distance(p) < bound

\* mutated form of expandToQueue: the pair stays in the queue
expandWithoutPop(p, bound) ==
  priQ \cup {q \in Expansion(p) : Promising(q, bound)}

expandToQueue(p, bound) ==
  (priQ \ {p}) \cup {q \in Expansion(p) : Promising(q, bound)}

-------------------------------------------------------------------------------
SearchInit == /\ root1 \in Root /\ root2 \in Root
              /\ itemDistance \in Metrics
              /\ maxDistance \in Ranges \cup {Infinity}
              /\ priQ = IF Null \in {root1, root2} THEN {} ELSE {<< root1, root2 >>}
              /\ minPair = None /\ lowerBound = Infinity
              /\ result = Running

searching == result = Running /\ maxDistance = Infinity
asking == result = Running /\ maxDistance # Infinity

\* An empty tree has no neighbours.
NoTree == /\ result = Running /\ Null \in {root1, root2}
          /\ result' = IF maxDistance = Infinity THEN NoItems ELSE Answer(FALSE)
          /\ UNCHANGED << callVars, priQ, minPair, lowerBound >>

\* The loop ends: nothing is queued, or nothing queued can be nearer.
Done == \/ priQ = {} \/ lowerBound = 0
        \/ /\ minPair # None
           /\ \E p \in priQ : IsTop(p) /\ distance(p) >= lowerBound

ReturnNearest == /\ searching /\ Null \notin {root1, root2} /\ Done
                 /\ result' = IF minPair = None THEN Error ELSE Nearest(minPair)
                 /\ UNCHANGED << callVars, priQ, minPair, lowerBound >>

VisitPair(p) == /\ searching /\ ~Done /\ IsTop(p)
                /\ IF isLeaves(p)
                   THEN /\ lowerBound' = distance(p) /\ minPair' = p
                        /\ priQ' = priQ \ {p}
                   ELSE /\ priQ' = expandToQueue(p, lowerBound)
                        /\ UNCHANGED << minPair, lowerBound >>
                /\ UNCHANGED << callVars, result >>

\* isWithinDistance: the queue is exhausted, or too far from its top on.
ReturnBeyond ==
  /\ asking /\ Null \notin {root1, root2}
  /\ priQ = {} \/ \E p \in priQ : IsTop(p) /\ distance(p) > maxDistance
  /\ result' = Answer(FALSE)
  /\ UNCHANGED << callVars, priQ, minPair, lowerBound >>

AskPair(p) ==
  /\ asking /\ IsTop(p) /\ distance(p) <= maxDistance
  /\ IF maximumDistance(p) <= maxDistance \/ isLeaves(p)
     THEN /\ result' = Answer(TRUE)
          /\ priQ' = priQ \ {p}
     ELSE /\ priQ' = expandToQueue(p, Infinity)
          /\ UNCHANGED result
  /\ UNCHANGED << callVars, minPair, lowerBound >>

SearchNext == \/ NoTree \/ ReturnNearest \/ ReturnBeyond
              \/ \E p \in priQ : VisitPair(p) \/ AskPair(p)

SearchSpec == SearchInit /\ [][SearchNext]_searchVars

-------------------------------------------------------------------------------
\* The pairs of items the call is about.
Candidates == Items[root1] \X Items[root2]
Below(p) == Items[p[1]] \X Items[p[2]]

(***************************************************************************)
(* What the searches need of the item distance: no items are nearer than   *)
(* the bounds above them, or farther apart than these reach.               *)
(***************************************************************************)
WithinBounds ==
  \A m \in Metrics, p \in Pair : \A l \in Below(p) :
    /\ ~isLeaves(p) => BoundsDistance[p] <= m[l]
    /\ m[l] <= BoundsMaximum[p]

\* Types, and the bound belongs to the best pair so far.
SearchTypeOK ==
  /\ root1 \in Root /\ root2 \in Root /\ itemDistance \in Metrics
  /\ maxDistance \in Ranges \cup {Infinity}
  /\ priQ \subseteq Pair /\ lowerBound \in Nat
  /\ \/ minPair = None /\ lowerBound = Infinity
     \/ minPair \in Leaf \X Leaf /\ lowerBound = itemDistance[minPair]
  /\ result \in {Running, NoItems, Error} \cup [kind : {"pair"}, pair : Leaf \X Leaf]
                 \cup [kind : {"answer"}, within : BOOLEAN]

(***************************************************************************)
(* A pair of items that is neither queued under some pair of nodes nor     *)
(* beaten by the best pair so far is lost: pruning never loses one.        *)
(***************************************************************************)
NothingIsLost ==
  searching /\ Null \notin {root1, root2} =>
    \A l \in Candidates : \/ \E p \in priQ : l \in Below(p)
                          \/ minPair # None /\ lowerBound <= itemDistance[l]

(***************************************************************************)
(* The pair returned is one of the two trees' and no other is nearer, and  *)
(* the search of two trees that are not empty never throws.                *)
(***************************************************************************)
NearestIsNearest ==
  /\ result.kind = "pair" =>
       /\ result.pair \in Candidates
       /\ \A l \in Candidates : itemDistance[result.pair] <= itemDistance[l]
  /\ result.kind # "exception"

\* isWithinDistance is true if and only if two items are within the distance.
WithinIsExact ==
  result.kind = "answer" =>
    /\ result.within => \E l \in Candidates : itemDistance[l] <= maxDistance
    /\ ~result.within => Null \in {root1, root2}
                         \/ \A l \in Candidates : itemDistance[l] > maxDistance

\* Every search returns.
SearchEnds == <>(result # Running)
===============================================================================
