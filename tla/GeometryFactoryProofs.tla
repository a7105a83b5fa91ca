------------------------- MODULE GeometryFactoryProofs ------------------------
(***************************************************************************)
(* When a factory is deleted, for any number of threads and geometries and *)
(* any interleaving of their calls.                                        *)
(*                                                                         *)
(* The invariant adds to the properties that the count is the number of    *)
(* live geometries, and that after destroy(), as long as it has not met    *)
(* the drop of the last reference, at most one thread is inside a call     *)
(* that may delete the factory, which it only gets to when nothing is      *)
(* live, and which sees the flag.                                          *)
(***************************************************************************)
EXTENDS GeometryFactory, FiniteSetTheorems, TLAPS

CountsLive == IsFiniteSet(live) /\ _refCount = Cardinality(live)

FlagIsSet == released => _autoDestroy # {}

BeforeRelease ==
  ~released => deletions = 0 /\ _autoDestroy = {}
               /\ \A t \in User : inside[t] \in {"idle", "zero"}

OneInside ==
  released /\ ~crossed =>
    \A t, u \in User : inside[t] # "idle" /\ inside[u] # "idle" => t = u

InsideIsNeeded ==
  released /\ ~crossed =>
    \A t \in User : /\ inside[t] \in {"zero", "delete"} => live = {}
                    /\ inside[t] # "idle" => deletions = 0
                    /\ inside[t] = "zero" => t \in _autoDestroy

IInv == /\ FactoryTypeOK /\ CountsLive /\ FlagIsSet /\ BeforeRelease
        /\ OneInside /\ InsideIsNeeded /\ OutlivesChildren /\ DeletedOnce /\ NotLeaked

LEMMA Initial == NewFactory => IInv
<1> SUFFICES ASSUME NewFactory PROVE IInv
  OBVIOUS
<1> USE DEF NewFactory
<1>1. CountsLive
  BY FS_EmptySet DEF CountsLive
<1>2. FactoryTypeOK
  <2>1. released \in BOOLEAN /\ crossed \in BOOLEAN /\ missed \in BOOLEAN
    BY Zenon
  <2>2. /\ _refCount \in Nat /\ deletions \in 0 .. 2 /\ live \subseteq Geometry
        /\ _autoDestroy \subseteq User
    BY SMT
  <2>3. inside \in [User -> {"idle", "zero", "flagged", "delete"}]
    BY SMT
  <2> QED BY <2>1, <2>2, <2>3 DEF FactoryTypeOK
<1>3. FlagIsSet /\ BeforeRelease /\ OneInside /\ InsideIsNeeded
  BY DEF FlagIsSet, BeforeRelease, OneInside, InsideIsNeeded
<1>4. OutlivesChildren /\ DeletedOnce /\ NotLeaked
  BY DEF OutlivesChildren, DeletedOnce, NotLeaked
<1> QED BY <1>1, <1>2, <1>3, <1>4 DEF IInv

LEMMA NextInvariant == IInv /\ [NextOfFactory]_lifeVars => IInv'
<1> SUFFICES ASSUME IInv, [NextOfFactory]_lifeVars PROVE IInv'
  OBVIOUS
<1> USE DEF IInv
<1>0. live # {} <=> _refCount # 0
  BY FS_EmptySet DEF CountsLive
<1>1. ASSUME NEW g \in Geometry, Construct(g) PROVE IInv'
  <2> USE <1>1 DEF Construct
  <2>1. FactoryTypeOK'
    BY DEF FactoryTypeOK
  <2>2. CountsLive'
    BY FS_AddElement DEF CountsLive
  <2>3. ~crossed => deletions = 0
    BY DEF OutlivesChildren, BeforeRelease, FactoryTypeOK
  <2>4. OutlivesChildren' /\ DeletedOnce' /\ NotLeaked'
    BY <2>3 DEF OutlivesChildren, DeletedOnce, NotLeaked
  <2>5. FlagIsSet' /\ BeforeRelease' /\ OneInside' /\ InsideIsNeeded'
    BY DEF FlagIsSet, BeforeRelease, OneInside, InsideIsNeeded
  <2> QED BY <2>1, <2>2, <2>4, <2>5
<1>2. ASSUME NEW g \in Geometry, NEW t \in User, Destruct(t, g) PROVE IInv'
  <2> USE <1>2 DEF Destruct, Moves
  <2>0. /\ Cardinality(live) \in Nat /\ Cardinality(live \ {g}) = Cardinality(live) - 1
        /\ IsFiniteSet(live \ {g})
    BY FS_RemoveElement, FS_CardinalityType DEF CountsLive
  <2>1. CountsLive'
    BY <2>0 DEF CountsLive
  <2>2. live' = {} <=> _refCount = 1
    BY <2>0, <2>1, FS_EmptySet DEF CountsLive
  <2>3. FactoryTypeOK'
    <3>1. crossed' \in BOOLEAN
      BY DEF FactoryTypeOK
    <3>2. _refCount' \in Nat
      BY <2>0, <2>1, FS_CardinalityType DEF CountsLive
    <3> QED BY <3>1, <3>2 DEF FactoryTypeOK
  <2>4. ~crossed => deletions = 0
    BY DEF OutlivesChildren, FactoryTypeOK
  <2>5. \A u \in User : inside'[u] = IF u = t /\ _refCount = 1 THEN "zero" ELSE inside[u]
    BY DEF FactoryTypeOK
  <2>6. FlagIsSet' /\ BeforeRelease'
    BY <2>5 DEF FlagIsSet, BeforeRelease
  <2>7. ASSUME released', ~crossed' PROVE OneInside' /\ InsideIsNeeded'
    <3>1. released /\ ~crossed /\ g \in live
      BY <2>7
    <3>2. \A u \in User : inside[u] \in {"idle", "flagged"}
      BY <3>1 DEF InsideIsNeeded, FactoryTypeOK
    <3>3. CASE _refCount # 1
      BY <2>4, <2>5, <3>1, <3>2, <3>3 DEF OneInside, InsideIsNeeded
    <3>4. CASE _refCount = 1
      <4>1. t \in _autoDestroy /\ \A u \in User : inside[u] = "idle"
        BY <2>7, <3>1, <3>2, <3>4 DEF SomebodyAt
      <4> QED BY <2>2, <2>4, <2>5, <3>1, <3>4, <4>1 DEF OneInside, InsideIsNeeded
    <3> QED BY <3>3, <3>4
  <2>8. OneInside' /\ InsideIsNeeded'
    BY <2>7 DEF OneInside, InsideIsNeeded
  <2>9. OutlivesChildren' /\ DeletedOnce'
    BY <2>4 DEF OutlivesChildren, DeletedOnce
  <2>10. NotLeaked'
    <3>1. CASE _refCount = 1
      BY <2>5, <3>1 DEF NotLeaked, NobodyInside
    <3>2. CASE _refCount # 1
      BY <2>2, <3>2 DEF NotLeaked
    <3> QED BY <3>1, <3>2
  <2> QED BY <2>1, <2>3, <2>6, <2>8, <2>9, <2>10
<1>3. ASSUME NEW t \in User, ReadFlag(t) PROVE IInv'
  <2> USE <1>3 DEF ReadFlag, Moves, factoryVars
  <2>1. \A u \in User : inside'[u] = IF u # t THEN inside[u]
                                     ELSE IF t \in _autoDestroy THEN "delete" ELSE "idle"
    BY DEF FactoryTypeOK
  <2>2. FactoryTypeOK' /\ CountsLive'
    <3>1. missed' \in BOOLEAN
      BY DEF FactoryTypeOK
    <3> QED BY <3>1 DEF FactoryTypeOK, CountsLive
  <2>3. FlagIsSet' /\ BeforeRelease' /\ OneInside' /\ InsideIsNeeded'
    BY <2>1 DEF FlagIsSet, BeforeRelease, OneInside, InsideIsNeeded
  <2>4. ~crossed => deletions = 0
    BY DEF BeforeRelease, InsideIsNeeded
  <2>5. OutlivesChildren' /\ DeletedOnce'
    BY <2>4 DEF OutlivesChildren, DeletedOnce
  <2>6. NotLeaked'
    <3>1. CASE t \in _autoDestroy
      BY <2>1, <3>1 DEF NotLeaked, NobodyInside
    <3>2. CASE t \notin _autoDestroy
      BY <3>2 DEF NotLeaked, FlagIsSet
    <3> QED BY <3>1, <3>2
  <2> QED BY <2>2, <2>3, <2>5, <2>6
<1>4. ASSUME NEW t \in User, destroy(t) PROVE IInv'
  <2> USE <1>4 DEF destroy, Moves
  <2>1. \A u \in User : inside'[u] = IF u = t THEN "flagged" ELSE inside[u]
    BY DEF FactoryTypeOK
  <2>2. FactoryTypeOK' /\ CountsLive' /\ FlagIsSet' /\ BeforeRelease'
    <3>1. crossed' \in BOOLEAN
      BY DEF FactoryTypeOK
    <3> QED BY <3>1 DEF FactoryTypeOK, CountsLive, FlagIsSet, BeforeRelease
  <2>3. deletions = 0
    BY DEF BeforeRelease
  <2>4. ~crossed' => \A u \in User : inside[u] = "idle"
    BY DEF BeforeRelease, SomebodyAt
  <2>5. OneInside' /\ InsideIsNeeded'
    BY <2>1, <2>3, <2>4 DEF OneInside, InsideIsNeeded
  <2>6. OutlivesChildren' /\ DeletedOnce' /\ NotLeaked'
    BY <2>1, <2>3 DEF OutlivesChildren, DeletedOnce, NotLeaked, NobodyInside
  <2> QED BY <2>2, <2>5, <2>6
<1>5. ASSUME NEW t \in User, FlagArrives(t) PROVE IInv'
  BY <1>5 DEF FlagArrives, FactoryTypeOK, CountsLive, FlagIsSet, BeforeRelease, OneInside,
     InsideIsNeeded, OutlivesChildren, DeletedOnce, NotLeaked, NobodyInside
<1>6. ASSUME NEW t \in User, ReadCount(t) PROVE IInv'
  <2> USE <1>6 DEF ReadCount, Moves, factoryVars
  <2>0. released /\ (~crossed => deletions = 0)
    BY DEF BeforeRelease, InsideIsNeeded
  <2>1. \A u \in User : inside'[u] = IF u # t THEN inside[u]
                                     ELSE IF live = {} THEN "delete" ELSE "idle"
    BY <1>0 DEF FactoryTypeOK
  <2>2. FactoryTypeOK' /\ CountsLive' /\ FlagIsSet' /\ BeforeRelease'
    BY <2>0 DEF FactoryTypeOK, CountsLive, FlagIsSet, BeforeRelease
  <2>3. OneInside' /\ InsideIsNeeded'
    BY <2>0, <2>1 DEF OneInside, InsideIsNeeded
  <2>4. OutlivesChildren' /\ DeletedOnce'
    BY <2>0 DEF OutlivesChildren, DeletedOnce
  <2>5. NotLeaked'
    BY <2>1 DEF NotLeaked, NobodyInside
  <2> QED BY <2>2, <2>3, <2>4, <2>5
<1>7. ASSUME NEW t \in User, DeleteThis(t) PROVE IInv'
  <2> USE <1>7 DEF DeleteThis, Moves
  <2>0. released /\ (~crossed => deletions = 0 /\ live = {})
    BY DEF BeforeRelease, InsideIsNeeded
  <2>1. \A u \in User : inside'[u] = IF u = t THEN "idle" ELSE inside[u]
    BY DEF FactoryTypeOK
  <2>2. ~crossed => \A u \in User : inside'[u] = "idle"
    BY <2>0, <2>1 DEF OneInside, FactoryTypeOK
  <2>3. FactoryTypeOK' /\ CountsLive' /\ FlagIsSet' /\ BeforeRelease'
    BY <2>0 DEF FactoryTypeOK, CountsLive, FlagIsSet, BeforeRelease
  <2>4. OneInside' /\ InsideIsNeeded'
    BY <2>2 DEF OneInside, InsideIsNeeded
  <2>5. OutlivesChildren' /\ DeletedOnce'
    BY <2>0, <2>2 DEF OutlivesChildren, DeletedOnce, NobodyInside
  <2>6. NotLeaked'
    BY DEF NotLeaked, FactoryTypeOK
  <2> QED BY <2>3, <2>4, <2>5, <2>6
<1>8. CASE UNCHANGED lifeVars
  BY <1>8 DEF lifeVars, factoryVars, FactoryTypeOK, CountsLive, FlagIsSet,
     BeforeRelease, OneInside, InsideIsNeeded, OutlivesChildren, DeletedOnce, NotLeaked, NobodyInside
<1> QED BY <1>1, <1>2, <1>3, <1>4, <1>5, <1>6, <1>7, <1>8 DEF NextOfFactory

LEMMA Invariance == FactorySpec => []IInv
<1>1. NewFactory => IInv
  BY Initial
<1>2. IInv /\ [NextOfFactory]_lifeVars => IInv'
  BY NextInvariant
<1> QED BY <1>1, <1>2, PTL DEF FactorySpec

\* The count never goes below zero, and each thread is inside at most one call.
THEOREM TypeCorrect == FactorySpec => []FactoryTypeOK
<1>1. IInv => FactoryTypeOK
  BY DEF IInv
<1> QED BY <1>1, Invariance, PTL

(***************************************************************************)
(* However calls interleave: a factory that a geometry, or a call that is  *)
(* still running, refers to is deleted only where destroy() met the drop   *)
(* of the last reference.                                                  *)
(***************************************************************************)
THEOREM FactoryOutlivesChildren == FactorySpec => []OutlivesChildren
<1>1. IInv => OutlivesChildren
  BY DEF IInv
<1> QED BY <1>1, Invariance, PTL

\* Only where the two met do the owner and the last geometry both delete it.
THEOREM FactoryDeletedOnce == FactorySpec => []DeletedOnce
<1>1. IInv => DeletedOnce
  BY DEF IInv
<1> QED BY <1>1, Invariance, PTL

\* One of the two does, also where they met, unless the flag is seen late.
THEOREM FactoryNotLeaked == FactorySpec => []NotLeaked
<1>1. IInv => NotLeaked
  BY DEF IInv
<1> QED BY <1>1, Invariance, PTL
===============================================================================
