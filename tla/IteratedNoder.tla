----------------------------- MODULE IteratedNoder -----------------------------
(***************************************************************************)
(* IteratedNoder::computeNodes: linework is noded again and again, because *)
(* rounding the nodes may make lines cross that did not before.  How many  *)
(* nodes a pass creates is up to the linework.                             *)
(***************************************************************************)
EXTENDS Integers

CONSTANTS
  MaxIters,   \* what setMaximumIterations() is called with
  MaxNodes    \* bound: nodes that one pass creates

\* setMaximumIterations() takes any int.
ASSUME CountsAssumption == MaxIters \subseteq Int /\ MaxNodes \in Nat

VARIABLES
  maxIter, noding,        \* the call, and "idle", "pass", "noded" or "thrown"
  nodingIterationCount, lastNodesCreated

noderVars == <<maxIter, noding, nodingIterationCount, lastNodesCreated>>

NotNoding == /\ noding = "idle" /\ maxIter = 0
             /\ nodingIterationCount = 0 /\ lastNodesCreated = -1

StartNoding == /\ noding = "idle" /\ noding' = "pass" /\ maxIter' \in MaxIters
               /\ UNCHANGED <<nodingIterationCount, lastNodesCreated>>

\* mutated form of notDeclining: as many nodes as before are few enough
notDecliningAtAll(nodesCreated) ==
  /\ lastNodesCreated > 0 /\ nodesCreated > lastNodesCreated
  /\ nodingIterationCount' > maxIter

notDeclining(nodesCreated) ==
  /\ lastNodesCreated > 0 /\ nodesCreated >= lastNodesCreated
  /\ nodingIterationCount' > maxIter

Pass(nodesCreated) ==
  /\ noding = "pass" /\ nodingIterationCount' = nodingIterationCount + 1
  /\ IF notDeclining(nodesCreated)
     THEN noding' = "thrown" /\ UNCHANGED lastNodesCreated
     ELSE /\ lastNodesCreated' = nodesCreated
          /\ noding' = IF nodesCreated > 0 THEN "pass" ELSE "noded"
  /\ UNCHANGED maxIter

\* An exception in the pass itself.
PassThrows == /\ noding = "pass" /\ noding' = "thrown"
              /\ UNCHANGED <<maxIter, nodingIterationCount, lastNodesCreated>>

LeaveNoder == /\ noding \in {"noded", "thrown"} /\ noding' = "idle" /\ maxIter' = 0
              /\ nodingIterationCount' = 0 /\ lastNodesCreated' = -1

NextOfNoder == \/ StartNoding \/ PassThrows \/ LeaveNoder
               \/ \E nodesCreated \in 0..MaxNodes : Pass(nodesCreated)

NoderSpec == NotNoding /\ [][NextOfNoder]_noderVars
------------------------------------------------------------------------------
(***************************************************************************)
(* computeNodes() ends, whatever the passes do: from pass maxIter on every *)
(* pass but the last creates fewer nodes than the one before.              *)
(***************************************************************************)
Larger(a, b) == IF a > b THEN a ELSE b
PassesAreBounded ==
  noding = "pass" /\ nodingIterationCount > 0 =>
    nodingIterationCount + lastNodesCreated <= Larger(maxIter, 1) + MaxNodes

(***************************************************************************)
(* IteratedNoder.h of setMaximumIterations(): the maximum number of        *)
(* iterations performed before the noding is aborted.  Not so: passes go   *)
(* on beyond it as long as each creates fewer nodes than the one before.   *)
(***************************************************************************)
StopsAtMaxIter == noding = "pass" => nodingIterationCount <= maxIter
===============================================================================
