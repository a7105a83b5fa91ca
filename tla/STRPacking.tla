------------------------------ MODULE STRPacking ------------------------------
(***************************************************************************)
(* The arithmetic with which TemplateSTRtree packs n sibling nodes into    *)
(* parents: how many vertical slices a level is cut into, how many nodes a *)
(* slice holds, how many parents it gets, and the size of the whole tree   *)
(* that build() reserves before it creates the first parent.               *)
(*                                                                         *)
(* The code computes the ceilings in double arithmetic; for the node       *)
(* counts a tree can hold (far below 2^53) they are the integer ceilings   *)
(* below.                                                                  *)
(***************************************************************************)
EXTENDS Naturals

CONSTANT nodeCapacity  \* maximum number of children of a node

\* The constructors throw IllegalArgumentException for a smaller capacity.
ASSUME NodeCapacityAssumption == nodeCapacity \in Nat /\ nodeCapacity >= 2

CeilDiv(a, b) == (a + b - 1) \div b

\* The least k with k * k >= n.
CeilSqrt(n) == CHOOSE k \in 0 .. n : /\ k * k >= n
                                     /\ \A j \in 0 .. n : j * j >= n => k <= j

Least(a, b) == IF a <= b THEN a ELSE b

sliceCount(n) == CeilSqrt(CeilDiv(n, nodeCapacity))

\* mutated form of sliceCapacity: rounded down
sliceCapacityFloor(n, slices) == n \div slices

sliceCapacity(n, slices) == CeilDiv(n, slices)

\* The parents a slice of n nodes gets.
ParentsOfSlice(n) == CeilDiv(n, nodeCapacity)

\* mutated form of ParentsAdded: the level is counted as if it were one slice
ParentsAddedUnsliced(n) == CeilDiv(n, nodeCapacity)

(***************************************************************************)
(* treeSize() counts the parents of one level with a loop of its own, not  *)
(* with the code that creates them: left is what the previous slices have  *)
(* not taken.                                                              *)
(***************************************************************************)
ParentsAdded(n) ==
  LET slices == sliceCount(n)
      after[j \in 0 .. slices] ==
        IF j = 0 THEN [left |-> n, added |-> 0]
        ELSE LET before == after[j - 1]
                 inSlice == Least(before.left, sliceCapacity(n, slices))
             IN  [left  |-> before.left - inSlice,
                  added |-> before.added + ParentsOfSlice(inSlice)]
  IN  after[slices].added

treeSize(numLeafNodes) ==
  LET above[n \in 0 .. numLeafNodes] ==
        IF n <= 1 THEN 0 ELSE LET p == ParentsAdded(n) IN p + above[p]
  IN  numLeafNodes + above[numLeafNodes]
===============================================================================
