------------------------- MODULE DensityClustersProofs -------------------------
(***************************************************************************)
(* Any clustering that grows as DensityClusters says is right when it is   *)
(* finished, for any set of components, finite or not.                     *)
(***************************************************************************)
EXTENDS DensityClusters, TLAPS

Phases == {"idle", "growing", "done"}

TypeOK ==
  /\ near \subseteq Component \X Component
  /\ cores \subseteq Component /\ member \subseteq Component
  /\ cluster \in [Component -> Component]
  /\ phase \in Phases

Symmetric == \A p, q \in Component : Near(p, q) => Near(q, p)

\* The three promises hold while clusters grow, and only together.
IInv ==
  /\ TypeOK /\ Symmetric
  /\ ChainsOnly /\ BordersBelong /\ OthersAlone
  /\ phase = "done" => Complete

------------------------------------------------------------------------------
\* What a core takes shares its class with the core or was alone, so that the
\* cores of a class that becomes part of the new one are on the core's side of S.
LEMMA CoresOfTaken ==
  ASSUME IInv, NEW p \in cores, NEW z \in {p} \cup Takes(p),
         NEW S \in SUBSET Component, Closed(S),
         NEW c \in cores, cluster[c] = cluster[z]
  PROVE  c \in S <=> p \in S
<1> USE DEF IInv, TypeOK
<1>1. CASE z \in cores
  <2>1. c \in S <=> z \in S  BY <1>1 DEF ChainsOnly
  <2>2. z = p \/ (Near(p, z) /\ Near(z, p))  BY <1>1 DEF Takes, Symmetric
  <2>3. z \in S <=> p \in S  BY <1>1, <2>2 DEF Closed
  <2> QED  BY <2>1, <2>3
<1>2. CASE z \notin cores
  <2>1. z \in Component \ (member \cup cores)  BY <1>2 DEF Takes, Available
  <2>2. z = c  BY <2>1 DEF OthersAlone
  <2> QED  BY <1>2, <2>2
<1> QED  BY <1>1, <1>2

LEMMA GrowKeeps ==
  ASSUME IInv, NEW p \in cores, NEW Q \in SUBSET Takes(p), Grow(p, Q)
  PROVE  IInv'
<1> USE DEF IInv, TypeOK
<1> DEFINE T == {p} \cup Q
           Taken(c) == \E q \in T : cluster[c] = cluster[q]
<1>1. PICK r \in T : cluster' = Joined(T, cluster[r])  BY DEF Grow
<1>2. /\ T \subseteq Component /\ T \subseteq {p} \cup Takes(p)
      /\ member' = member \cup T
      /\ UNCHANGED <<near, cores, phase>> /\ phase = "growing"
  BY DEF Grow, Takes
<1>3. \A c \in Component : cluster'[c] = IF Taken(c) THEN cluster[r] ELSE cluster[c]
  BY <1>1 DEF Joined
<1>4. Taken(r)  BY <1>1
<1> HIDE DEF T
<1>5. TypeOK' /\ Symmetric'
  <2>1. cluster' \in [Component -> Component]
    BY <1>1, <1>2 DEF Joined
  <2> QED  BY <1>2, <2>1 DEF Symmetric, Near
\* Classes only grow.
<1>6. \A c, d \in Component : cluster[c] = cluster[d] => cluster'[c] = cluster'[d]
  BY <1>3
<1>7. \A c, d \in Component :
        cluster'[c] = cluster'[d] => cluster[c] = cluster[d] \/ (Taken(c) /\ Taken(d))
  BY <1>1, <1>3, <1>4
<1>8. ChainsOnly'
  <2> SUFFICES ASSUME NEW S \in SUBSET Component, Closed(S)',
                      NEW c \in cores, NEW d \in cores, cluster'[c] = cluster'[d]
               PROVE  c \in S <=> d \in S
    BY <1>2 DEF ChainsOnly
  <2>1. Closed(S)  BY <1>2 DEF Closed, Near
  <2>2. CASE cluster[c] = cluster[d]  BY <2>1, <2>2 DEF ChainsOnly
  <2>3. CASE Taken(c) /\ Taken(d)
    <3>1. PICK y \in T : cluster[c] = cluster[y]  BY <2>3
    <3>2. PICK z \in T : cluster[d] = cluster[z]  BY <2>3
    <3>3. c \in S <=> p \in S  BY <1>2, <2>1, <3>1, CoresOfTaken
    <3>4. d \in S <=> p \in S  BY <1>2, <2>1, <3>2, CoresOfTaken
    <3> QED  BY <3>3, <3>4
  <2> QED  BY <1>7, <2>2, <2>3
<1>9. BordersBelong'
  <2> SUFFICES ASSUME NEW x \in member \cup T, x \notin cores
               PROVE  \E c \in cores : Near(c, x) /\ cluster'[c] = cluster'[x]
    BY <1>2 DEF BordersBelong, Near
  <2>1. CASE x \in member
    <3>1. PICK c \in cores : Near(c, x) /\ cluster[c] = cluster[x]
      BY <2>1 DEF BordersBelong
    <3> QED  BY <1>6, <2>1, <3>1
  <2>2. CASE x \in T
    <3>1. x \in Component /\ p \in Component /\ Near(p, x)  BY <1>2, <2>2 DEF Takes
    <3>2. Taken(x) /\ Taken(p)  BY <2>2 DEF T
    <3>3. cluster'[p] = cluster'[x]  BY <1>3, <3>1, <3>2
    <3> QED  BY <3>1, <3>3
  <2> QED  BY <2>1, <2>2
<1>10. OthersAlone'
  <2> SUFFICES ASSUME NEW x \in Component, x \notin member \cup T, x \notin cores,
                      NEW y \in Component, cluster'[x] = cluster'[y]
               PROVE  x = y
    BY <1>2 DEF OthersAlone
  <2>1. \A z \in Component : cluster[x] = cluster[z] => x = z  BY DEF OthersAlone
  <2>2. ~Taken(x)  BY <1>2, <2>1
  <2>3. cluster[x] = cluster[y]  BY <1>7, <2>2
  <2> QED  BY <2>1, <2>3
<1> QED  BY <1>2, <1>5, <1>8, <1>9, <1>10

(***************************************************************************)
(* The inductive invariant: whatever core grows next, and by whichever     *)
(* neighbours it may take, the three promises hold after the step.         *)
(***************************************************************************)
LEMMA InitHolds == Init => IInv
<1> SUFFICES ASSUME Init PROVE IInv  OBVIOUS
<1> USE DEF Init
<1>1. TypeOK  BY DEF TypeOK, Phases
<1>2. Symmetric /\ ChainsOnly /\ BordersBelong /\ OthersAlone
  BY DEF Symmetric, Near, ChainsOnly, BordersBelong, OthersAlone
<1> QED  BY <1>1, <1>2 DEF IInv

LEMMA NextKeeps == IInv /\ [Next]_vars => IInv'
<1> SUFFICES ASSUME IInv, [Next]_vars PROVE IInv'  OBVIOUS
<1>1. CASE Start
  <2> USE <1>1 DEF Start
  <2>1. TypeOK'  BY DEF IInv, TypeOK, Phases
  <2>2. Symmetric'  BY DEF Symmetric, Near
  <2>3. (ChainsOnly /\ BordersBelong /\ OthersAlone)'
    BY DEF IInv, TypeOK, ChainsOnly, BordersBelong, OthersAlone
  <2> QED  BY <2>1, <2>2, <2>3 DEF IInv
<1>2. CASE Finish
  BY <1>2 DEF Finish, IInv, TypeOK, Phases, Symmetric, Near, ChainsOnly, Closed,
              BordersBelong, OthersAlone, Complete
<1>3. CASE Return
  <2> USE <1>3 DEF Return
  <2>1. TypeOK'  BY DEF TypeOK, Phases
  <2>2. (Symmetric /\ ChainsOnly /\ BordersBelong /\ OthersAlone)'
    BY DEF Symmetric, Near, ChainsOnly, BordersBelong, OthersAlone
  <2> QED  BY <2>1, <2>2 DEF IInv
<1>4. CASE \E p \in cores : \E Q \in SUBSET Takes(p) : Grow(p, Q)
  BY <1>4, GrowKeeps
<1>5. CASE UNCHANGED vars
  BY <1>5 DEF vars, IInv, TypeOK, Phases, Symmetric, Near, ChainsOnly, Closed,
              BordersBelong, OthersAlone, Complete
<1> QED  BY <1>1, <1>2, <1>3, <1>4, <1>5 DEF Next

(***************************************************************************)
(* A finished clustering is right: clusters are the chains of near cores   *)
(* with border components each of which is near a core of its cluster.     *)
(* ClusterFinder, which models the code, is checked to be one.             *)
(***************************************************************************)
THEOREM ClusteringIsCorrect == Spec => []Correct
<1>1. IInv => Correct  BY DEF IInv, Correct
<1> QED  BY <1>1, InitHolds, NextKeeps, PTL DEF Spec
===============================================================================
