----------------------------- MODULE ClusterFinder -----------------------------
(***************************************************************************)
(* AbstractClusterFinder::cluster with its two ways to process(): joining  *)
(* every pair that should be joined, and DBSCAN.                           *)
(*                                                                         *)
(* Components are numbers, as in the code.  What is computed from their    *)
(* shapes comes with the input: who is near whom (within eps, or as        *)
(* shouldJoin() says), which envelopes a query finds, who is empty and     *)
(* therefore not in the tree and near nobody else, who has how many        *)
(* points, and whose turn comes first in what the tree, or the sort by     *)
(* area, presents.                                                         *)
(***************************************************************************)
EXTENDS UnionFind, Sequences

CONSTANTS
  components,   \* how many there are
  Input         \* the inputs of a call

Component == 0..(components - 1)

ASSUME InputAssumption ==
  /\ components \in Nat
  /\ \A in \in Input :
       /\ in.finder \in {"join", "dbscan"} /\ in.minPoints \in Nat
       /\ in.near \subseteq Component \X Component
       /\ \A i \in Component : <<i, i>> \in in.near
       /\ \A i, j \in Component : <<i, j>> \in in.near => <<j, i>> \in in.near /\ {i, j} \in in.found
       /\ \A i, j \in Component : <<i, j>> \in in.near /\ i \in in.empty => i = j
       /\ in.turn \in [Component -> Nat] /\ in.points \in [Component -> Nat]

VARIABLES
  input, pc,          \* the call, and "idle", "process" or "done"
  uf,
  p, hits,            \* components taken, and what is left to visit of the last query
  neighbors,          \* found near it, as long as it may be no core
  in_a_cluster, is_in_core,
  ids                 \* getClusterIds()

vars == <<input, pc, uf, p, hits, neighbors, in_a_cluster, is_in_core, ids>>

NoInput == [finder |-> "none"]
noCluster == -1
Nobody == [i \in Component |-> FALSE]
Everybody == [i \in Component |-> TRUE]

current == p - 1

\* distance() <= eps, or shouldJoin()
Near(i, j) == <<i, j>> \in input.near
Hits(i) == {j \in Component : {i, j} \cap input.empty = {} /\ {i, j} \in input.found}
NextHit == CHOOSE j \in hits : \A k \in hits : input.turn[j] <= input.turn[k]

Init == /\ input = NoInput /\ pc = "idle"
        /\ uf = Forest(components) /\ p = 0 /\ hits = {} /\ neighbors = <<>>
        /\ in_a_cluster = Nobody /\ is_in_core = Nobody
        /\ ids = [i \in Component |-> noCluster]

allInputsInCluster(in) == in.finder = "dbscan" /\ in.minPoints <= 1

Call ==
  /\ pc = "idle" /\ pc' = "process" /\ input' \in Input
  /\ in_a_cluster' = IF allInputsInCluster(input') THEN Everybody ELSE Nobody
  /\ is_in_core' = IF allInputsInCluster(input') THEN Everybody ELSE Nobody
  /\ UNCHANGED <<uf, p, hits, neighbors, ids>>

\* The next component; one with too few hits cannot be a core.
TakeComponent ==
  /\ pc = "process" /\ hits = {} /\ p < components
  /\ p' = p + 1
  /\ hits' = IF input.finder = "dbscan" /\ Cardinality(Hits(p)) < input.minPoints THEN {} ELSE Hits(p)
  /\ neighbors' = <<>>
  /\ UNCHANGED <<input, pc, uf, in_a_cluster, is_in_core, ids>>

(***************************************************************************)
(* AbstractClusterFinder::process: the one with more points is prepared.   *)
(***************************************************************************)
VisitToJoin ==
  LET q == NextHit
  IN  /\ pc = "process" /\ input.finder = "join" /\ hits # {}
      /\ hits' = hits \ {q}
      /\ uf' = IF /\ ~same(uf, current, q)
                  /\ input.points[current] >= input.points[q] /\ Near(current, q)
               THEN join(uf, current, q) ELSE Asked(uf, current, q)
      /\ UNCHANGED <<input, pc, p, neighbors, in_a_cluster, is_in_core, ids>>

------------------------------------------------------------------------------
(***************************************************************************)
(* DBSCANClusterFinder::process.                                           *)
(***************************************************************************)
\* mutated form of unionIfAvailable: a border component may be shared
unionAlways(state, q, core) ==
  [forest |-> join(state.forest, current, q), taken |-> [state.taken EXCEPT ![q] = TRUE]]

unionIfAvailable(state, q, core) ==
  IF state.taken[q] /\ ~core[q] THEN state
  ELSE [forest |-> join(state.forest, current, q), taken |-> [state.taken EXCEPT ![q] = TRUE]]

Union(qs, taken, core) ==
  LET after[n \in 0..Len(qs)] ==
        IF n = 0 THEN [forest |-> uf, taken |-> taken]
        ELSE unionIfAvailable(after[n - 1], qs[n], core)
  IN  uf' = after[Len(qs)].forest /\ in_a_cluster' = after[Len(qs)].taken

KnownCore == Len(neighbors) >= input.minPoints

NothingToLearn(q) ==
  KnownCore /\ (same(uf, current, q) \/ (in_a_cluster[q] /\ ~is_in_core[q]))

Dbscan == pc = "process" /\ input.finder = "dbscan" /\ hits # {}

\* same() is asked only of a core, and may shorten paths.
SkipHit ==
  LET q == NextHit
  IN  /\ Dbscan /\ (NothingToLearn(q) \/ ~Near(current, q))
      /\ hits' = hits \ {q}
      /\ uf' = IF KnownCore THEN Asked(uf, current, q) ELSE uf
      /\ UNCHANGED <<input, pc, p, neighbors, in_a_cluster, is_in_core, ids>>

KeepNeighbor ==
  LET q == NextHit
  IN  /\ Dbscan /\ ~NothingToLearn(q) /\ Near(current, q) /\ ~KnownCore
      /\ hits' = hits \ {q} /\ neighbors' = Append(neighbors, q)
      /\ IF Len(neighbors') = input.minPoints
         THEN LET core == [is_in_core EXCEPT ![current] = TRUE]
              IN  /\ is_in_core' = core
                  /\ Union(neighbors', [in_a_cluster EXCEPT ![current] = TRUE], core)
         ELSE UNCHANGED <<uf, in_a_cluster, is_in_core>>
      /\ UNCHANGED <<input, pc, p, ids>>

UnionNeighbor ==
  LET q == NextHit
  IN  /\ Dbscan /\ ~NothingToLearn(q) /\ Near(current, q) /\ KnownCore
      /\ hits' = hits \ {q} /\ Union(<<q>>, in_a_cluster, is_in_core)
      /\ UNCHANGED <<input, pc, p, neighbors, is_in_core, ids>>

------------------------------------------------------------------------------
included == IF input.finder = "join" THEN Component ELSE {i \in Component : in_a_cluster[i]}

\* mutated form of getClusterIds: a cluster is known by the parent, not by the root
getClusterIdsByParent ==
  LET tops == {uf.clusters[i] : i \in included}
  IN  [i \in Component |->
         IF i \in included THEN Cardinality({r \in tops : r < uf.clusters[i]}) ELSE noCluster]

\* Clusters and getClusterIds: included elements sorted by root, a cluster begins
\* where the root changes.
getClusterIds ==
  LET tops == {root(uf.clusters, i) : i \in included}
  IN  [i \in Component |->
         IF i \in included THEN Cardinality({r \in tops : r < root(uf.clusters, i)}) ELSE noCluster]

\* The paths that sorting shortens no longer matter.
GetClusters ==
  /\ pc = "process" /\ hits = {} /\ p = components
  /\ pc' = "done" /\ ids' = getClusterIds
  /\ UNCHANGED <<input, uf, p, hits, neighbors, in_a_cluster, is_in_core>>

\* The finder keeps nothing of a clustering.
Return == /\ pc = "done" /\ pc' = "idle" /\ input' = NoInput
          /\ uf' = Forest(components) /\ p' = 0 /\ neighbors' = <<>>
          /\ in_a_cluster' = Nobody /\ is_in_core' = Nobody
          /\ ids' = [i \in Component |-> noCluster]
          /\ UNCHANGED hits

Next == \/ Call \/ TakeComponent \/ VisitToJoin \/ SkipHit \/ KeepNeighbor \/ UnionNeighbor
        \/ GetClusters \/ Return

Spec == Init /\ [][Next]_vars
------------------------------------------------------------------------------
(***************************************************************************)
(* Whatever is skipped, in whatever order components and hits come: every  *)
(* step takes near components into the cluster of a core, none is taken    *)
(* twice unless it is a core, and the call returns when nothing is left.   *)
(***************************************************************************)
Neighborhood(i) == {j \in Component : Near(i, j)}
Cores == IF pc = "idle" THEN {}
         ELSE {i \in Component : input.finder = "join" \/ Cardinality(Neighborhood(i)) >= input.minPoints}
Phase == CASE pc = "idle" -> "idle" [] pc = "process" -> "growing" [] pc = "done" -> "done"

Promise == INSTANCE DensityClusters WITH
  near <- IF pc = "idle" THEN {} ELSE input.near,
  cores <- Cores,
  cluster <- ClusterOf(uf),
  member <- IF pc = "idle" THEN {} ELSE included,
  phase <- Phase

ClustersGrowAsPromised == Promise!Spec

(***************************************************************************)
(* getClusterIds: two cores have the same number exactly when a chain of   *)
(* near cores joins them, any other component has the number of a core     *)
(* near it or none if there is none; numbers are 0, 1, 2 and so on.        *)
(***************************************************************************)
Reached(i) == {j \in Cores : \A S \in SUBSET Component : Promise!Closed(S) /\ i \in S => j \in S}

IdsAreClusters ==
  pc = "done" =>
    /\ \A i \in Cores : {j \in Cores : ids[j] = ids[i]} = Reached(i)
    /\ \A i \in Component \ Cores :
         LET near == {ids[j] : j \in {c \in Cores : i \in Neighborhood(c)}}
         IN  IF near = {} THEN ids[i] = noCluster ELSE ids[i] \in near
    /\ LET numbers == {ids[i] : i \in Component} \ {noCluster}
       IN  numbers = 0..(Cardinality(numbers) - 1)
===============================================================================
