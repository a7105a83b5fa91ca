-------------------------- MODULE MCTemplateSTRtree ---------------------------
(***************************************************************************)
(* Envelopes on a small grid: a point, a bar through it, and a point away  *)
(* from both; the last two for the taller tree.                            *)
(***************************************************************************)
EXTENDS TemplateSTRtree

CONSTANT Null

Box(x, y, width, height) ==
  [minx |-> x, maxx |-> x + width, miny |-> y, maxy |-> y + height]

PointBarPoint == {Box(0, 0, 0, 0), Box(0, 0, 1, 0), Box(0, 1, 0, 0), Null}
BarAndPoint == {Box(0, 0, 1, 0), Box(0, 1, 0, 0), Null}

(***************************************************************************)
(* Bound: a tree of more than three leaves may have four levels; it holds  *)
(* one item at the bar and the point above it, is asked about these, and   *)
(* loses at most one leaf.                                                 *)
(***************************************************************************)
TallTreesAreSimple ==
  Cardinality(Leaves) > 3 =>
    /\ \A p, q \in Leaves : nodes[p].item = nodes[q].item
    /\ \A p \in Leaves : nodes[p].bounds \in BarAndPoint
    /\ call.op \in {"query", "remove"} => call.env \in BarAndPoint
    /\ call.op = "remove" => \E p \in Leaves : nodes[p].item = call.item
    /\ Cardinality({p \in Leaves : nodes[p].deleted}) <= 1

ItemSymmetry == Permutations(Item)
===============================================================================
