---------------------------- MODULE GeometryFactory ---------------------------
(***************************************************************************)
(* The life of one GeometryFactory: its geometries count their references  *)
(* to it from several threads, its owner asks for its deletion, and it is  *)
(* deleted by the owner or by the destructor of its last geometry.         *)
(*                                                                         *)
(* _refCount is atomic, _autoDestroy is a plain bool.  destroy() writes    *)
(* the flag and then reads the count, dropRef() writes the count and then  *)
(* reads the flag, in steps that may cross in any order; the flag may be   *)
(* seen by other threads only later.                                       *)
(***************************************************************************)
EXTENDS Naturals, FiniteSets

CONSTANTS User,      \* the threads that share the factory
          Geometry

ASSUME GeometryAssumption == IsFiniteSet(Geometry)

VARIABLES _refCount,
          _autoDestroy,  \* the threads that see the flag set
          deletions,     \* how often the factory has been deleted
          live,          \* the geometries that refer to the factory
          released,      \* the owner has called destroy()
          inside,        \* per thread: "idle", "zero" in dropRef(), "flagged" in
                         \* destroy(), or "delete"
          crossed,       \* history: the last reference and destroy() have met
          missed         \* history: the flag was set, and read as not set

factoryVars == << _refCount, _autoDestroy, deletions >>
lifeVars == << factoryVars, live, released, inside, crossed, missed >>

NewFactory == /\ _refCount = 0 /\ _autoDestroy = {}
              /\ deletions = 0 /\ live = {} /\ released = FALSE
              /\ inside = [t \in User |-> "idle"]
              /\ crossed = FALSE /\ missed = FALSE

Moves(t, from, to) == inside[t] = from /\ inside' = [inside EXCEPT ![t] = to]

NobodyInside == \A t \in User : inside[t] = "idle"
SomebodyAt(place) == \E t \in User : inside[t] = place

-------------------------------------------------------------------------------
\* Geometry's constructors: from the factory until the owner has released it,
\* or as a copy of a live geometry.
Construct(g) == /\ g \notin live
                /\ ~released \/ live # {}
                /\ live' = live \cup {g}
                /\ _refCount' = _refCount + 1
                /\ UNCHANGED << _autoDestroy, deletions, released, inside, crossed, missed >>

(***************************************************************************)
(* ~Geometry: dropRef() counts down, and goes on if nothing is left.  The  *)
(* two have met if destroy() is running or the flag has not arrived.       *)
(***************************************************************************)
Destruct(t, g) ==
  /\ g \in live
  /\ Moves(t, "idle", IF _refCount = 1 THEN "zero" ELSE "idle")
  /\ live' = live \ {g}
  /\ _refCount' = _refCount - 1
  /\ crossed' = \/ crossed
                \/ released /\ _refCount = 1 /\ (t \notin _autoDestroy \/ SomebodyAt("flagged"))
  /\ UNCHANGED << _autoDestroy, deletions, released, missed >>

\* mutated form of ReadFlag: the last geometry deletes the factory in any case
ReadFlagIgnored(t) == Moves(t, "zero", "delete")
                      /\ UNCHANGED << factoryVars, live, released, crossed, missed >>

\* dropRef(): the last geometry deletes a factory that it sees released
ReadFlag(t) == /\ Moves(t, "zero", IF t \in _autoDestroy THEN "delete" ELSE "idle")
               /\ missed' = (missed \/ (_autoDestroy # {} /\ t \notin _autoDestroy))
               /\ UNCHANGED << factoryVars, live, released, crossed >>

\* mutated form of destroy: the flag is not set
destroyWithoutFlag(t) == /\ ~released
                         /\ Moves(t, "idle", "flagged")
                         /\ released' = TRUE
                         /\ crossed' = (crossed \/ SomebodyAt("zero"))
                         /\ UNCHANGED << factoryVars, live, missed >>

(***************************************************************************)
(* destroy() sets the flag; assert(!_autoDestroy) is the owner calling it  *)
(* once.  The two have met if a destructor has just counted down to zero.  *)
(***************************************************************************)
destroy(t) == /\ ~released
              /\ Moves(t, "idle", "flagged")
              /\ released' = TRUE
              /\ _autoDestroy' = {t}
              /\ crossed' = (crossed \/ SomebodyAt("zero"))
              /\ UNCHANGED << _refCount, deletions, live, missed >>

\* The flag reaches another thread.
FlagArrives(t) == /\ _autoDestroy # {}
                  /\ _autoDestroy' = _autoDestroy \cup {t}
                  /\ UNCHANGED << _refCount, deletions, live, released, inside, crossed, missed >>

\* mutated form of ReadCount: the factory is deleted whatever the count is
ReadCountIgnored(t) == Moves(t, "flagged", "delete")
                       /\ UNCHANGED << factoryVars, live, released, crossed, missed >>

ReadCount(t) == /\ Moves(t, "flagged", IF _refCount = 0 THEN "delete" ELSE "idle")
                /\ UNCHANGED << factoryVars, live, released, crossed, missed >>

DeleteThis(t) == /\ Moves(t, "delete", "idle")
                 /\ deletions < 2   \* bound
                 /\ deletions' = deletions + 1
                 /\ UNCHANGED << _refCount, _autoDestroy, live, released, crossed, missed >>

NextOfFactory ==
  \/ \E g \in Geometry : Construct(g) \/ \E t \in User : Destruct(t, g)
  \/ \E t \in User : \/ ReadFlag(t) \/ destroy(t) \/ FlagArrives(t)
                     \/ ReadCount(t) \/ DeleteThis(t)

FactorySpec == NewFactory /\ [][NextOfFactory]_lifeVars

-------------------------------------------------------------------------------
\* Types; a thread is inside at most one call.
FactoryTypeOK == /\ _refCount \in Nat /\ _autoDestroy \subseteq User
                 /\ deletions \in 0 .. 2 /\ live \subseteq Geometry
                 /\ released \in BOOLEAN /\ crossed \in BOOLEAN /\ missed \in BOOLEAN
                 /\ inside \in [User -> {"idle", "zero", "flagged", "delete"}]

(***************************************************************************)
(* However constructors, destructors and destroy() interleave: unless the  *)
(* drop of the last reference and destroy() meet, the factory is deleted   *)
(* only after its last geometry and after the owner asked for it, and no   *)
(* destructor and no destroy() refers to it any more.  The destructors of  *)
(* all other geometries may run while destroy() does.                      *)
(***************************************************************************)
OutlivesChildren ==
  ~crossed /\ deletions > 0 => live = {} /\ released /\ NobodyInside

\* Unless the two meet the factory is never deleted by both.
DeletedOnce == ~crossed => deletions <= 1

(***************************************************************************)
(* Once the owner has asked for it, no geometry is left and no call is     *)
(* running, the factory is gone.  That needs no order of the two: one      *)
(* writes the flag and then reads the count, the other the reverse, so     *)
(* they cannot each leave it to the other, unless the flag comes late.     *)
(***************************************************************************)
NotLeaked == ~missed /\ released /\ live = {} /\ NobodyInside => deletions > 0

(***************************************************************************)
(* What GeometryFactory.h says of destroy() without a condition: it will   *)
(* really be deleted only after the last child is.  Not so: a destructor   *)
(* that has counted down to zero finds the flag of a destroy() that came   *)
(* after a new geometry.                                                   *)
(***************************************************************************)
DeletedAfterLastChild == deletions > 0 => live = {}
===============================================================================
