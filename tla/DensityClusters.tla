---------------------------- MODULE DensityClusters ----------------------------
(***************************************************************************)
(* What a clustering promises, whatever it looks at and in which order.    *)
(*                                                                         *)
(* Some components are cores.  A core takes components near it into its    *)
(* cluster, other cores with all of theirs; a component that is no core is *)
(* taken once.  The clustering is finished when no core can take more.     *)
(* When components are joined whenever they meet, all of them are cores.   *)
(***************************************************************************)
CONSTANT Component

VARIABLES
  near,     \* pairs of components that are close to each other
  cores,
  cluster,  \* a representative of the cluster of each component
  member,   \* the components that are in a cluster
  phase     \* "idle", "growing" or "done"

vars == <<near, cores, cluster, member, phase>>

Near(p, q) == <<p, q>> \in near

Init ==
  /\ near = {} /\ cores = {} /\ member = {} /\ cluster = [c \in Component |-> c]
  /\ phase = "idle"

\* Cores may be in clusters of their own from the start.
Start ==
  /\ phase = "idle" /\ phase' = "growing"
  /\ near' \in SUBSET (Component \X Component)
  /\ \A p, q \in Component : <<p, q>> \in near' => <<q, p>> \in near'
  /\ cores' \in SUBSET Component /\ member' \in SUBSET cores'
  /\ cluster' = [c \in Component |-> c]

Available(q) == q \in cores \/ q \notin member

\* The clusters of all q in Q become one.
Joined(Q, r) ==
  [c \in Component |-> IF \E q \in Q : cluster[c] = cluster[q] THEN r ELSE cluster[c]]

Takes(p) == {q \in Component : Near(p, q) /\ Available(q)}

Grow(p, Q) ==
  /\ phase = "growing"
  /\ \E r \in {p} \cup Q : cluster' = Joined({p} \cup Q, cluster[r])
  /\ member' = member \cup {p} \cup Q
  /\ UNCHANGED <<near, cores, phase>>

Complete ==
  \A p \in cores :
    /\ p \in member
    /\ \A q \in Component : Near(p, q) =>
         q \in member /\ (q \in cores => cluster[p] = cluster[q])

Finish == /\ phase = "growing" /\ Complete /\ phase' = "done"
          /\ UNCHANGED <<near, cores, cluster, member>>

Return == /\ phase = "done" /\ phase' = "idle"
          /\ near' = {} /\ cores' = {} /\ member' = {} /\ cluster' = [c \in Component |-> c]

Next == \/ Start \/ Finish \/ Return
        \/ \E p \in cores : \E Q \in SUBSET Takes(p) : Grow(p, Q)

Spec == Init /\ [][Next]_vars
------------------------------------------------------------------------------
\* A set that no chain of near cores leaves.
Closed(S) == \A p \in S \cap cores : \A q \in cores : Near(p, q) => q \in S

(***************************************************************************)
(* Cores share a cluster if, and only if, a chain of near cores leads from *)
(* one to the other; a member that is no core is in the cluster of a core  *)
(* near it; who is near no core is in no cluster.                          *)
(***************************************************************************)
ChainsOnly ==
  \A S \in SUBSET Component : Closed(S) =>
    \A p, q \in cores : cluster[p] = cluster[q] => (p \in S <=> q \in S)
BordersBelong ==
  \A x \in member \ cores :
    \E p \in cores : Near(p, x) /\ cluster[p] = cluster[x]
OthersAlone ==
  \A x \in Component \ (member \cup cores) :
    \A y \in Component : cluster[x] = cluster[y] => x = y

Correct == phase = "done" => Complete /\ ChainsOnly /\ BordersBelong /\ OthersAlone
===============================================================================
