--------------------------- MODULE STRtreeLazyBuild ---------------------------
(***************************************************************************)
(* TemplateSTRtree shared by several threads after the last insert: the    *)
(* first call that needs the tree builds it, under lock_.  query and       *)
(* queryPairs look at root without the lock and enter build() only when it *)
(* is null; getRoot, items, remove and nearestNeighbour (one kind of call  *)
(* here, "locked") always enter build(), whose lock_guard is taken before  *)
(* built() is tested again.                                                *)
(*                                                                         *)
(* nodes is a vector that holds the leaves first, then each level of       *)
(* parents behind the level below it.  What is in a node is left to module *)
(* TemplateSTRtree; here only the extent of the vector matters: size and   *)
(* capacity, and the range [begin, begin + number) of nodes that have no   *)
(* parent yet.                                                             *)
(*                                                                         *)
(* The read of root outside the lock is a data race: no happens-before     *)
(* edge orders the builder's other stores before it.  StoresOrdered says   *)
(* whether the build keeps them in order all the same (x86-64, stores not  *)
(* moved by the compiler); when it does not, a thread that has never held  *)
(* lock_ since root was set may read the old values of everything else.    *)
(***************************************************************************)
EXTENDS STRPacking

CONSTANTS Thread,         \* the threads that share the tree
          NoThread,       \* the value of lock_ when nobody holds it
          MaxItems,       \* bound: items inserted before the tree is shared
          MaxCalls,       \* bound: calls per thread
          StoresOrdered   \* the builder's stores become visible in order

ASSUME LazyBuildAssumption == /\ NoThread \notin Thread
                              /\ MaxItems \in Nat /\ MaxCalls \in Nat
                              /\ StoresOrdered \in BOOLEAN

VARIABLES
  lock_,       \* the thread inside build(), or NoThread
  root,        \* 0 for nullptr, else the 1-based position of the root in nodes
  numItems,    \* the member of that name: 0 until build() has set it
  size,        \* nodes.size()
  capacity,    \* nodes.capacity()
  inserted,    \* the number of items inserted before the tree was shared
  finalSize,   \* build(): what treeSize() promised
  begin,       \* build(): nodes before this one have a parent
  number,      \* build(): nodes of the current level
  slice,       \* createParentNodes(): slices done
  sliceStart,  \* createParentNodes(): first node of the next slice
  pc,          \* where each thread is
  call,        \* the call each thread is in
  synced,      \* has the thread held lock_ with root set?
  seen,        \* what the body of the call read: items and nodes
  calls        \* calls made so far, for the bound

treeVars == << root, numItems, size, capacity, finalSize >>
buildVars == << begin, number, slice, sliceStart >>
threadVars == << pc, call, synced, seen, calls >>
vars == << lock_, treeVars, buildVars, threadVars, inserted >>

Calls == {"query", "queryPairs", "locked"}
Nothing == [items |-> 0, nodes |-> 0]

Init == /\ inserted \in 0 .. MaxItems
        /\ size = inserted
        /\ capacity \in {inserted, 2 * MaxItems}  \* exact, or reserved by a constructor
        /\ lock_ = NoThread
        /\ root = 0 /\ numItems = 0 /\ finalSize = 0
        /\ begin = 0 /\ number = 0 /\ slice = 0 /\ sliceStart = 0
        /\ pc = [t \in Thread |-> "idle"]
        /\ call = [t \in Thread |-> "query"]
        /\ synced = [t \in Thread |-> FALSE]
        /\ seen = [t \in Thread |-> Nothing]
        /\ calls = [t \in Thread |-> 0]

\* mutated form of built: the first member that build() sets stands for the tree
builtOnceCounted == numItems # 0

built == root # 0

Goto(t, from, to) == /\ pc[t] = from
                     /\ pc' = [pc EXCEPT ![t] = to]

-------------------------------------------------------------------------------
\* mutated form of Invoke: getRoot() and the others test built() first as well
InvokeUnlocked(t, c) == /\ calls[t] < MaxCalls
                        /\ Goto(t, "idle", "check")
                        /\ call' = [call EXCEPT ![t] = c]
                        /\ calls' = [calls EXCEPT ![t] = @ + 1]
                        /\ UNCHANGED << lock_, treeVars, buildVars, synced, seen,
                                        inserted >>

\* A thread calls c: only query and queryPairs look at root first.
Invoke(t, c) == /\ calls[t] < MaxCalls
                /\ Goto(t, "idle", IF c = "locked" THEN "lock" ELSE "check")
                /\ call' = [call EXCEPT ![t] = c]
                /\ calls' = [calls EXCEPT ![t] = @ + 1]
                /\ UNCHANGED << lock_, treeVars, buildVars, synced, seen, inserted >>

\* if(!built()) build();  without the lock
CheckBuilt(t) == /\ Goto(t, "check", IF built THEN "read" ELSE "lock")
                 /\ UNCHANGED << lock_, treeVars, buildVars, call, synced, seen,
                                 calls, inserted >>

Lock(t) == /\ lock_ = NoThread
           /\ Goto(t, "lock", "enter")
           /\ lock_' = t
           /\ synced' = [synced EXCEPT ![t] = @ \/ built]
           /\ UNCHANGED << treeVars, buildVars, call, seen, calls, inserted >>

\* mutated form of NothingToBuild: the early return does not release the lock
NothingToBuildKeepsLock(t) == /\ built \/ size = 0
                              /\ Goto(t, "enter", "read")
                              /\ UNCHANGED << lock_, treeVars, buildVars, call,
                                              synced, seen, calls, inserted >>

\* build() returns at once for a tree that is built or has no items.
NothingToBuild(t) == /\ built \/ size = 0
                     /\ Goto(t, "enter", "unlock")
                     /\ UNCHANGED << lock_, treeVars, buildVars, call, synced,
                                     seen, calls, inserted >>

\* mutated form of StartBuild: root is not tested again under the lock
StartBuildUnchecked(t) == /\ size # 0
                          /\ Goto(t, "enter", "level")
                          /\ numItems' = size
                          /\ finalSize' = treeSize(size)
                          /\ capacity' = IF treeSize(size) > capacity
                                         THEN treeSize(size) ELSE capacity
                          /\ begin' = 0
                          /\ number' = size
                          /\ UNCHANGED << lock_, root, size, slice, sliceStart, call,
                                          synced, seen, calls, inserted >>

\* numItems, treeSize() and reserve()
StartBuild(t) == /\ ~built /\ size # 0
                 /\ Goto(t, "enter", "level")
                 /\ numItems' = size
                 /\ finalSize' = treeSize(size)
                 /\ capacity' = IF treeSize(size) > capacity THEN treeSize(size)
                                                             ELSE capacity
                 /\ begin' = 0
                 /\ number' = size
                 /\ UNCHANGED << lock_, root, size, slice, sliceStart, call,
                                 synced, seen, calls, inserted >>

\* while (number > 1) createParentNodes(begin, number): the x-sort of the level
\* and the start of its loop over the slices
StartLevel(t) == /\ number > 1
                 /\ Goto(t, "level", "slice")
                 /\ slice' = 0
                 /\ sliceStart' = begin
                 /\ UNCHANGED << lock_, treeVars, begin, number, call, synced,
                                 seen, calls, inserted >>

\* addParentNodesFromVerticalSlice: the parents are appended to nodes, which
\* moves them all when the reserved capacity does not suffice
AddSlice(t) ==
  /\ slice < sliceCount(number)
  /\ Goto(t, "slice", "slice")
  /\ LET inSlice == Least((begin + number) - sliceStart,
                          sliceCapacity(number, sliceCount(number)))
         newSize == size + ParentsOfSlice(inSlice)
     IN  /\ size' = newSize
         /\ capacity' = IF newSize > capacity THEN newSize ELSE capacity
         /\ sliceStart' = sliceStart + inSlice
  /\ slice' = slice + 1
  /\ UNCHANGED << lock_, root, numItems, finalSize, begin, number, call, synced,
                  seen, calls, inserted >>

\* the parents just added are the nodes without parents of the next round
EndLevel(t) == /\ slice = sliceCount(number)
               /\ Goto(t, "slice", "level")
               /\ begin' = begin + number
               /\ number' = size - (begin + number)
               /\ UNCHANGED << lock_, treeVars, slice, sliceStart, call, synced,
                               seen, calls, inserted >>

\* root = &nodes.back()
Publish(t) == /\ number <= 1
              /\ Goto(t, "level", "unlock")
              /\ root' = size
              /\ synced' = [synced EXCEPT ![t] = TRUE]
              /\ UNCHANGED << lock_, numItems, size, capacity, finalSize,
                              buildVars, call, seen, calls, inserted >>

Unlock(t) == /\ Goto(t, "unlock", "read")
             /\ lock_' = NoThread
             /\ UNCHANGED << treeVars, buildVars, call, synced, seen, calls,
                             inserted >>

\* What the body of a call may find behind root: the tree as it is or, with no
\* order between the builder's stores and this read, numItems from before the
\* build and any prefix of the parents.
Views(t) ==
  IF StoresOrdered \/ synced[t] \/ ~built
  THEN {[items |-> numItems, nodes |-> root]}
  ELSE [items : {0, numItems}, nodes : inserted .. root]

\* The body of query, queryPairs, nearestNeighbour, remove or an iteration.
ReadTree(t) == /\ Goto(t, "read", "done")
               /\ \E v \in Views(t) : seen' = [seen EXCEPT ![t] = v]
               /\ UNCHANGED << lock_, treeVars, buildVars, call, synced, calls,
                               inserted >>

Return(t) == /\ Goto(t, "done", "idle")
             /\ seen' = [seen EXCEPT ![t] = Nothing]
             /\ UNCHANGED << lock_, treeVars, buildVars, call, synced, calls,
                             inserted >>

\* What a thread does once it has made a call.
Step(t) == \/ CheckBuilt(t) \/ Lock(t) \/ NothingToBuild(t) \/ StartBuild(t)
           \/ StartLevel(t) \/ AddSlice(t) \/ EndLevel(t) \/ Publish(t)
           \/ Unlock(t) \/ ReadTree(t) \/ Return(t)

Next == \E t \in Thread : Step(t) \/ \E c \in Calls : Invoke(t, c)

\* A thread inside a call keeps running; nothing makes it call again.
Fairness == \A t \in Thread : WF_vars(Step(t))

Spec == Init /\ [][Next]_vars
-------------------------------------------------------------------------------
Locations == {"idle", "check", "lock", "enter", "level", "slice", "unlock",
              "read", "done"}

\* The variables keep their kind, and positions stay inside nodes.
TypeOK == /\ lock_ \in Thread \cup {NoThread}
          /\ inserted \in 0 .. MaxItems
          /\ size \in Nat /\ capacity \in Nat /\ size <= capacity
          /\ root \in 0 .. size
          /\ numItems \in {0, inserted}
          /\ finalSize \in Nat
          /\ begin \in Nat /\ number \in Nat
          /\ slice \in Nat /\ sliceStart \in Nat
          /\ pc \in [Thread -> Locations]
          /\ call \in [Thread -> Calls]
          /\ synced \in [Thread -> BOOLEAN]
          /\ seen \in [Thread -> [items : Nat, nodes : Nat]]
          /\ calls \in [Thread -> 0 .. MaxCalls]

\* What a call returns comes from the whole tree: it saw every item that was
\* inserted, and the root that stays the root.  In particular no query finds an
\* empty index because another thread is still building it.
SeesWholeTree(t) == pc[t] = "done" => /\ seen[t].items = inserted
                                      /\ seen[t].nodes = root
                                      /\ inserted > 0 => built

AnswersFromWholeTree == \A t \in Thread : SeesWholeTree(t)

\* The calls that always take lock_ answer from the whole tree even when nothing
\* orders the builder's stores before an unlocked read of root.
LockedAnswersFromWholeTree ==
  \A t \in Thread : call[t] = "locked" => SeesWholeTree(t)

\* No node is left without a parent: the slices of a level cover it to its end,
\* and root is set when the one node without a parent is the last one.
NoOrphans == /\ \A t \in Thread : pc[t] = "level" => sliceStart = begin
             /\ built => number = 1 /\ begin + 1 = size /\ root = size

\* treeSize() and createParentNodes() agree: the reserved block is never outgrown
\* (child pointers stay valid) and is full when root is set, as build() asserts.
ReserveSuffices == finalSize > 0 => /\ size <= finalSize
                                    /\ finalSize <= capacity
                                    /\ built => size = finalSize

\* A built tree is never built again nor touched: readers without the lock rely
\* on it, and so does the "no more items may be added" of built().
BuiltTreeIsFrozen == [][built => UNCHANGED treeVars]_vars

\* Each level is smaller than the one below it, so build() reaches a root.
LevelsShrink == [][begin' > begin => number' < number]_vars

\* Every call returns, whoever is building.
CallsReturn == \A t \in Thread : pc[t] # "idle" ~> pc[t] = "idle"

-------------------------------------------------------------------------------
(***************************************************************************)
(* The calls that are promised an answer from the whole tree: all of them  *)
(* when stores are seen in order, else those that take lock_, and those of *)
(* a thread that has held it since root was set.                           *)
(***************************************************************************)
Vouched(t) == StoresOrdered \/ call[t] = "locked" \/ synced[t]

\* What its caller is told of a call.  One that looks at root without the lock is
\* only seen from when it is vouched for.
Told(t) ==
  IF ~Vouched(t) THEN [status |-> "idle", answer |-> 0]
  ELSE [status |-> IF pc[t] \in {"idle", "done"} THEN pc[t] ELSE "busy",
        answer |-> seen[t].items]

\* The index a caller sees: it is there from the start and never changes.
Promise == INSTANCE SharedIndex WITH contents <- inserted,
                                     status <- [t \in Thread |-> Told(t).status],
                                     answer <- [t \in Thread |-> Told(t).answer]

(***************************************************************************)
(* Lazy building is invisible to the callers of a shared tree: with stores *)
(* in order to all of them, without to those that ever took lock_ since    *)
(* root was set.                                                           *)
(***************************************************************************)
LazyBuildIsInvisible == Promise!Spec
===============================================================================
