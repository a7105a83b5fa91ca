--------------------------- MODULE TemplateSTRtree ----------------------------
(***************************************************************************)
(* One TemplateSTRtree used by one thread: insert, the build with its      *)
(* sorts, query, queryPairs, remove, items, iterate.                       *)
(*                                                                         *)
(* nodes is the vector of the code.  A node is a record: bounds, and       *)
(* either an item (a leaf: first = 0) or the positions first .. last of    *)
(* its children.  deleted stands for the code's "children == this", and    *)
(* ordinal, the rank of a leaf in the order of insertion, is not in the    *)
(* code: it only tells two insertions of the same item apart.              *)
(*                                                                         *)
(* Every call but insert and iterate first builds the tree.  A call is     *)
(* made by Call, goes through the steps of build() and ends with its body, *)
(* which leaves what the caller gets in out.                               *)
(***************************************************************************)
EXTENDS STRPacking, Integers, Sequences, SequencesExt, FiniteSets

CONSTANTS Item,            \* items; equal items may be inserted twice
          Envelope,        \* the envelopes of items and queries, NullEnvelope too
          NullEnvelope,    \* the envelope of an empty geometry
          TwoDimensional,  \* BoundsTraits::TwoDimensional
          MaxItems,        \* bound: leaves
          Limits,          \* after how many visits a visitor returns false
          MaxRemoved,      \* bound: leaves removed
          Careful          \* the client stays within what the code supports

\* Envelopes that are not null are boxes.
Boxes == {e \in [minx : Int, maxx : Int, miny : Int, maxy : Int] :
            e.minx <= e.maxx /\ e.miny <= e.maxy}

ASSUME TreeAssumption ==
  /\ MaxItems \in Nat /\ MaxRemoved \in Nat /\ Limits \subseteq Nat \ {0}
  /\ Envelope \subseteq Boxes \cup {NullEnvelope} /\ NullEnvelope \notin Boxes

VARIABLES nodes, root, numItems,  \* the members; root is a position, 0 for null
          begin, number,          \* build(): the nodes that have no parent yet
          slice,                  \* createParentNodes(): j, the slices done
          pc,                     \* "idle", a step of build(), or "body"
          call,                   \* the call being executed
          out                     \* what the last call visited or returned

treeVars == << nodes, root, numItems >>
buildVars == << begin, number, slice >>
vars == << treeVars, buildVars, pc, call, out >>

NoCall == [op |-> "none"]

-------------------------------------------------------------------------------
\* geom::Envelope
isNull(e) == e = NullEnvelope

intersects(a, b) == /\ ~isNull(a) /\ ~isNull(b)
                    /\ a.minx <= b.maxx /\ b.minx <= a.maxx
                    /\ a.miny <= b.maxy /\ b.miny <= a.maxy

Greatest(a, b) == IF a >= b THEN a ELSE b

expandToInclude(a, b) == [minx |-> Least(a.minx, b.minx),
                          maxx |-> Greatest(a.maxx, b.maxx),
                          miny |-> Least(a.miny, b.miny),
                          maxy |-> Greatest(a.maxy, b.maxy)]

\* EnvelopeTraits::getX, getY
getX(e) == e.minx + e.maxx
getY(e) == e.miny + e.maxy

-------------------------------------------------------------------------------
\* TemplateSTRNode
Leaf(i, e, n) == [bounds |-> e, item |-> i, first |-> 0, last |-> 0,
                  deleted |-> FALSE, ordinal |-> n]

isLeaf(node) == node.first = 0

\* The smallest envelope that includes those of the children.
boundsFromChildren(children) ==
  LET bounds == {children[k].bounds : k \in DOMAIN children}
  IN  [minx |-> Min({e.minx : e \in bounds}), maxx |-> Max({e.maxx : e \in bounds}),
       miny |-> Min({e.miny : e \in bounds}), maxy |-> Max({e.maxy : e \in bounds})]

\* mutated form of Branch: the end of the children is one past the last of them
BranchPastLast(level, first, last) ==
  [bounds |-> boundsFromChildren(SubSeq(level, first, last)), item |-> "none",
   first |-> first, last |-> last + 1, deleted |-> FALSE, ordinal |-> 0]

Branch(level, first, last) ==
  [bounds |-> boundsFromChildren(SubSeq(level, first, last)), item |-> "none",
   first |-> first, last |-> last, deleted |-> FALSE, ordinal |-> 0]

built == root # 0

-------------------------------------------------------------------------------
\* The orders in which std::sort may leave s: ascending keys, ties in any order.
Sorted(s, key) ==
  {[k \in DOMAIN s |-> s[order[k]]] : order \in
     {f \in Bijection(DOMAIN s, DOMAIN s) :
        \A j, k \in DOMAIN s : j < k => key[f[j]] <= key[f[k]]}}

SortedX(s) == Sorted(s, [k \in DOMAIN s |-> getX(s[k].bounds)])
SortedY(s) == Sorted(s, [k \in DOMAIN s |-> getY(s[k].bounds)])

\* nodes with the range that starts behind after replaced by range.
WithRange(after, range) ==
  [p \in DOMAIN nodes |-> IF p > after /\ p <= after + Len(range)
                          THEN range[p - after] ELSE nodes[p]]

\* The parents of the range first + 1 .. last of level, filled up one by one.
Parents(level, first, last) ==
  [k \in 1 .. ParentsOfSlice(last - first) |->
     Branch(level, first + (k - 1) * nodeCapacity + 1,
                   Least(first + k * nodeCapacity, last))]

-------------------------------------------------------------------------------
Init == /\ nodes = << >> /\ root = 0 /\ numItems = 0
        /\ begin = 0 /\ number = 0 /\ slice = 0
        /\ pc = "idle" /\ call = NoCall /\ out = << >>

\* A null envelope is ignored.
insert(i, e) == /\ pc = "idle"
                /\ Len(nodes) < MaxItems
                /\ nodes' = IF isNull(e) THEN nodes
                            ELSE Append(nodes, Leaf(i, e, Len(nodes) + 1))
                /\ out' = << >>
                /\ UNCHANGED << root, numItems, buildVars, pc, call >>

\* What geos_c.h asks of every client: once constructed, no more items may be
\* inserted.  insert itself does not look.
MayInsert == ~built

\* What a careful client does not do: remove from a tree of a single item, and
\* search for pairs once it has removed something.
Supported(c) == LET leaves == IF built THEN numItems ELSE Len(nodes)
                IN  /\ c.op = "remove" => leaves >= 2
                    /\ c.op = "queryPairs" =>
                         \A p \in 1 .. leaves : ~nodes[p].deleted

Requests == [op : {"query"}, env : Envelope, limit : Limits]
              \cup [op : {"queryPairs"}, limit : Limits]
              \cup [op : {"remove"}, env : Envelope, item : Item]
              \cup [op : {"items"}]

Call(c) == /\ pc = "idle"
           /\ Careful => Supported(c)
           /\ c.op = "remove" =>
                Cardinality({p \in DOMAIN nodes : nodes[p].deleted}) < MaxRemoved
           /\ call' = c
           /\ pc' = IF built \/ nodes = << >> THEN "body" ELSE "build"
           /\ out' = << >>
           /\ UNCHANGED << treeVars, buildVars >>

StartBuild == /\ pc = "build"
              /\ numItems' = Len(nodes)
              /\ begin' = 0 /\ number' = Len(nodes)
              /\ pc' = "level"
              /\ UNCHANGED << nodes, root, slice, call, out >>

\* createParentNodes: the level sorted from left to right
SortLevel ==
  /\ pc = "level" /\ number > 1
  /\ \E level \in SortedX(SubSeq(nodes, begin + 1, begin + number)) :
       nodes' = WithRange(begin, level)
  /\ slice' = 0
  /\ pc' = "slice"
  /\ UNCHANGED << root, numItems, begin, number, call, out >>

\* addParentNodesFromVerticalSlice: the slice sorted from bottom to top, and its
\* parents appended
PackSlice ==
  /\ pc = "slice" /\ slice < sliceCount(number)
  /\ LET nodesPerSlice == sliceCapacity(number, sliceCount(number))
         start == begin + Least(number, slice * nodesPerSlice)
         end == begin + Least(number, (slice + 1) * nodesPerSlice)
         inSlice == SubSeq(nodes, start + 1, end)
     IN  \E sorted \in IF TwoDimensional THEN SortedY(inSlice) ELSE {inSlice} :
           LET level == WithRange(start, sorted)
           IN  nodes' = level \o Parents(level, start, end)
  /\ slice' = slice + 1
  /\ UNCHANGED << root, numItems, begin, number, pc, call, out >>

EndLevel == /\ pc = "slice" /\ slice = sliceCount(number)
            /\ begin' = begin + number
            /\ number' = Len(nodes) - (begin + number)
            /\ pc' = "level"
            /\ UNCHANGED << treeVars, slice, call, out >>

EndBuild == /\ pc = "level" /\ number = 1
            /\ root' = Len(nodes)
            /\ pc' = "body"
            /\ UNCHANGED << nodes, numItems, buildVars, call, out >>

-------------------------------------------------------------------------------
Live == {p \in DOMAIN nodes : ~nodes[p].deleted}

\* mutated form of LeavesBelow: subtrees are pruned by containment
LeavesWithin(env, wanted) ==
  LET below[p \in DOMAIN nodes] ==
        IF isLeaf(nodes[p]) THEN IF p \in wanted THEN << p >> ELSE << >>
        ELSE FlattenSeq([k \in 1 .. nodes[p].last - nodes[p].first + 1 |->
               LET child == nodes[p].first + k - 1
               IN  IF /\ intersects(nodes[child].bounds, env)
                      /\ isLeaf(nodes[child]) \/ nodes[child].bounds.minx <= env.minx
                   THEN below[child] ELSE << >>])
  IN  below[root]

(***************************************************************************)
(* The wanted leaves below the root whose bounds, and the bounds of all    *)
(* nodes above them but the root's, intersect env, in the order of the     *)
(* traversal that query, queryPairs and remove share.                      *)
(***************************************************************************)
LeavesBelow(env, wanted) ==
  LET below[p \in DOMAIN nodes] ==
        IF isLeaf(nodes[p]) THEN IF p \in wanted THEN << p >> ELSE << >>
        ELSE FlattenSeq([k \in 1 .. nodes[p].last - nodes[p].first + 1 |->
               LET child == nodes[p].first + k - 1
               IN  IF intersects(nodes[child].bounds, env) THEN below[child]
                                                           ELSE << >>])
  IN  below[root]

\* A visitor that returns false from its limit-th call on stops the traversal.
Upto(limit, visits) == SubSeq(visits, 1, Least(limit, Len(visits)))

\* query: a root that is a leaf is visited whether or not it is deleted.
QueryResult(env, limit) ==
  IF ~built \/ ~intersects(nodes[root].bounds, env) THEN << >>
  ELSE IF isLeaf(nodes[root]) THEN << root >>
  ELSE Upto(limit, LeavesBelow(env, Live))

\* mutated form of PairsOf: a leaf is paired with the leaves on both sides of it
PairsOfBothSides(p) ==
  LET partners == LeavesBelow(nodes[p].bounds, Live \ {p})
  IN  [k \in 1 .. Len(partners) |-> << p, partners[k] >>]

\* queryPairs: the pairs of leaf p with the leaves at higher addresses.
PairsOf(p) ==
  LET partners == LeavesBelow(nodes[p].bounds, {q \in Live : q > p})
  IN  [k \in 1 .. Len(partners) |-> << p, partners[k] >>]

\* The visitor's false ends the traversal for one leaf; the next leaf starts
\* another, which ends at its first pair.
PairsResult(limit) ==
  LET visited[p \in 0 .. numItems] ==
        IF p = 0 THEN << >>
        ELSE visited[p - 1] \o
               Upto(IF Len(visited[p - 1]) < limit THEN limit - Len(visited[p - 1]) ELSE 1,
                    PairsOf(p))
  IN  IF numItems < 2 THEN << >> ELSE visited[numItems]

\* remove: the leaves that would be deleted, the first of them is.
Removable(env, i) ==
  IF ~built THEN << >> ELSE LeavesBelow(env, {p \in Live : nodes[p].item = i})

\* items and iterate: the first n nodes that are not deleted
Items(n) == FlattenSeq([p \in 1 .. n |-> IF p \in Live THEN << p >> ELSE << >>])

Body == /\ pc = "body"
        /\ \/ /\ call.op = "query"
              /\ out' = QueryResult(call.env, call.limit)
              /\ UNCHANGED nodes
           \/ /\ call.op = "queryPairs"
              /\ out' = PairsResult(call.limit)
              /\ UNCHANGED nodes
           \/ /\ call.op = "items"
              /\ out' = Items(numItems)
              /\ UNCHANGED nodes
           \/ /\ call.op = "remove"
              /\ LET found == Removable(call.env, call.item)
                 IN  /\ out' = Upto(1, found)
                     /\ nodes' = IF found = << >> THEN nodes
                                 ELSE [nodes EXCEPT ![found[1]].deleted = TRUE]
        /\ pc' = "idle"
        /\ UNCHANGED << root, numItems, buildVars, call >>

\* iterate does not build the tree.
iterate == /\ pc = "idle"
           /\ out' = Items(IF built THEN numItems ELSE Len(nodes))
           /\ call' = [op |-> "iterate"]
           /\ UNCHANGED << treeVars, buildVars, pc >>

Next == \/ MayInsert /\ \E i \in Item, e \in Envelope : insert(i, e)
        \/ \E c \in Requests : Call(c)
        \/ StartBuild \/ SortLevel \/ PackSlice \/ EndLevel \/ EndBuild
        \/ Body \/ iterate

Spec == Init /\ [][Next]_vars

-------------------------------------------------------------------------------
Leaves == {p \in DOMAIN nodes : isLeaf(nodes[p])}
ChildrenOf(p) == nodes[p].first .. nodes[p].last
Branches == DOMAIN nodes \ Leaves

\* Types of the members, of the locals of build() and of the call in progress.
TypeOK ==
  /\ \A p \in DOMAIN nodes :
       /\ nodes[p].item \in Item \cup {"none"} /\ nodes[p].deleted \in BOOLEAN
       /\ nodes[p].ordinal \in 0 .. MaxItems
       /\ ~isLeaf(nodes[p]) => ChildrenOf(p) # {} /\ ChildrenOf(p) \subseteq 1 .. p - 1
  /\ root \in {0, Len(nodes)} /\ numItems \in 0 .. MaxItems
  /\ begin \in Nat /\ number \in Nat /\ slice \in Nat
  /\ pc \in {"idle", "build", "level", "slice", "body"}
  /\ call \in Requests \cup {NoCall, [op |-> "iterate"]}

(***************************************************************************)
(* Every node of a built tree but its root is the child of exactly one     *)
(* node, no node has more children than nodeCapacity, and the leaves are   *)
(* the first numItems nodes, which is what queryPairs and iterate walk.    *)
(* The sorts of the upper levels move nodes that already have children but *)
(* no parent yet: at every step of a build a branch covers the bounds of   *)
(* the nodes it points to, so a query never skips a subtree that holds a   *)
(* leaf it meets.                                                          *)
(***************************************************************************)
TreeShape ==
  /\ built => /\ \A p \in DOMAIN nodes \ {root} :
                   Cardinality({b \in Branches : p \in ChildrenOf(b)}) = 1
              /\ \A b \in Branches : Cardinality(ChildrenOf(b)) <= nodeCapacity
              /\ Leaves = 1 .. numItems
  /\ \A b \in Branches : \A c \in ChildrenOf(b) :
       expandToInclude(nodes[b].bounds, nodes[c].bounds) = nodes[b].bounds

Entry(p) == [ordinal |-> nodes[p].ordinal, item |-> nodes[p].item,
             bounds |-> nodes[p].bounds]

Entries(s) == [k \in DOMAIN s |->
                 IF call.op = "queryPairs" THEN << Entry(s[k][1]), Entry(s[k][2]) >>
                                           ELSE Entry(s[k])]

Promise == INSTANCE SpatialIndex WITH
  Meets <- intersects, NoRequest <- NoCall,
  entries <- {Entry(p) : p \in {q \in Leaves : ~nodes[q].deleted}},
  pending <- IF pc = "idle" THEN NoCall ELSE call,
  answer <- IF pc = "idle" THEN Entries(out) ELSE << >>

(***************************************************************************)
(* Whatever the sorts do with ties, a tree of any height answers as a set  *)
(* of entries would: query visits each live entry that meets the envelope  *)
(* once and stops when told to, queryPairs visits each pair once, remove   *)
(* takes out exactly one entry of the item or says there is none, and      *)
(* what was removed never comes back.                                      *)
(***************************************************************************)
ActsAsIndex == Promise!Spec

(***************************************************************************)
(* What the comments and assertions of the code say of a client that does  *)
(* not avoid the calls that Supported excludes.                            *)
(***************************************************************************)
Answered(op) == pc = "idle" /\ call # NoCall /\ call.op = op

\* The item of a leaf is not read once it was removed.
RemovedIsNotRead ==
  /\ Answered("query") => \A k \in DOMAIN out : ~nodes[out[k]].deleted
  /\ Answered("queryPairs") =>
       \A k \in DOMAIN out : ~nodes[out[k][1]].deleted /\ ~nodes[out[k][2]].deleted
===============================================================================
