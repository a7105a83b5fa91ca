------------------------------- MODULE UnionFind -------------------------------
(***************************************************************************)
(* operation/cluster/UnionFind: a forest in an array, whose paths are made *)
(* shorter by every find(), also by one that only asks.                    *)
(***************************************************************************)
EXTENDS Integers, FiniteSets

Forest(n) == [clusters |-> [i \in 0..(n - 1) |-> i],
              sizes |-> [i \in 0..(n - 1) |-> 1],
              num_clusters |-> n]

root(clusters, i) ==
  LET up[k \in DOMAIN clusters] == IF clusters[k] = k THEN k ELSE up[clusters[k]]
  IN  up[i]

\* The array after find(i): what is on the way to the root points to it.
find(clusters, i) ==
  LET way[k \in DOMAIN clusters] ==
        IF clusters[k] = k THEN {} ELSE {k} \cup way[clusters[k]]
      top == root(clusters, i)
  IN  [k \in DOMAIN clusters |-> IF k \in way[i] THEN top ELSE clusters[k]]

same(uf, i, j) == i = j \/ root(uf.clusters, i) = root(uf.clusters, j)

\* The forest after same(i, j).
Asked(uf, i, j) ==
  IF i = j THEN uf ELSE [uf EXCEPT !.clusters = find(find(@, i), j)]

join(uf, i, j) ==
  LET found == Asked(uf, i, j)
      x == root(uf.clusters, i)
      y == root(uf.clusters, j)
      swap == uf.sizes[y] > uf.sizes[x] \/ (uf.sizes[x] = uf.sizes[y] /\ y <= x)
      a == IF swap THEN y ELSE x
      b == IF swap THEN x ELSE y
  IN  IF x = y THEN found
      ELSE [clusters |-> [found.clusters EXCEPT ![a] = b],
            sizes |-> [uf.sizes EXCEPT ![b] = @ + uf.sizes[a], ![a] = 0],
            num_clusters |-> uf.num_clusters - 1]

Roots(uf) == {i \in DOMAIN uf.clusters : uf.clusters[i] = i}
ClusterOf(uf) == [i \in DOMAIN uf.clusters |-> root(uf.clusters, i)]
===============================================================================
