# A verification project for GEOS

GEOS is a C++ library for planar geometry with a C API. Most of it computes with
floating-point coordinates, and what is delicate there (rounding, degenerate
input) is a matter for tests and numerical argument. A smaller part is protocol:
data structures that are built lazily and shared between threads, objects that
count references to each other, calls that may be interrupted and nested,
searches that stop early, loops whose end depends on what they find. That part
is what this project models, checks with TLC and proves with TLAPS.

Contents

 1. The system: inventory of components
 2. The modules and how they correspond to the code
 3. The runs: bounds, and what each shows
 4. Fairness
 5. Theorems: assumptions and arguments
 6. Where the code and its documentation disagree
 7. What is not modelled, and why
 8. Plan

File names below are relative to the repository. `TemplateSTRtree.h` and its
neighbours are in `include/geos/index/strtree/`.


## 1. The system: inventory of components

### 1.1 STRtree (`TemplateSTRtree.h`, `TemplateSTRNode.h`)

The spatial index behind `GEOSSTRtree` of the C API, overlay, noding, prepared
geometries, clustering and unions.

*State.* One vector `nodes`: the leaves first, then each level of branches
behind the level below. A node has bounds and either an item or a pair of
pointers into the vector. A removed leaf is marked by letting its child pointer
point to the leaf itself. `root` is a pointer to the last node, null until the
tree is built; `numItems` is the number of leaves; `lock_` protects the build.

*Operations.* `insert` appends a leaf (an empty envelope is ignored). `build`
sorts and packs one level after the other. `query`, `queryPairs`, `items`,
`remove` and the nearest-neighbour calls first make sure the tree is built;
`iterate` does not.

*Interaction.* The callers' threads share the tree without telling it. The
visitor a caller passes may end a traversal by returning false.

*Hard.* The build happens in the first call that needs it, in whatever thread
makes it; two kinds of calls look at `root` outside the lock. All pointers into
`nodes` are invalid if the vector ever grows beyond the size that `treeSize`
computed with a loop of its own. The sorts move nodes that others might point
to. Ceilings of square roots and quotients decide how a level is cut.

*Correct when* every call answers as if the tree had been there from the start
and were a plain set of entries; the tree is built once, covers all its leaves,
and never changes afterwards except for removals.

### 1.2 Nearest neighbours (`TemplateSTRtreeDistance.h`, `TemplateSTRNodePair.h`)

*State.* A priority queue of pairs of nodes, the best pair of items so far and
its distance. *Operations.* `nearestNeighbour`, `isWithinDistance`.
*Interaction.* The caller gives the distance of two items. *Hard.* Pairs are
pruned by comparison with the best distance; ties, distance zero, trees that are
the same or a single node, a distance function that contradicts the envelopes.
*Correct when* the pair returned is a nearest one, the answer of
`isWithinDistance` is exact, and the search ends.

### 1.3 GeometryFactory (`src/geom/GeometryFactory.cpp`, `Geometry.cpp`)

*State.* An atomic count of the geometries that refer to the factory, and a
plain flag that its owner has released it. *Operations.* Construct and copy
geometries (`addRef`), destroy them (`dropRef`), `destroy()`. *Hard.* The
factory is deleted by its owner or by the destructor of its last geometry,
whichever comes last; each writes one variable and reads the other. *Correct
when* it is deleted exactly once and after its last geometry.

### 1.4 C API calls and interrupts (`capi/geos_ts_c.cpp`, `src/util/Interrupt.cpp`)

*State.* A process-wide `requested` flag, a callback registered per thread, a
callback per context. *Operations.* Every call of the reentrant API runs inside
`execute()`, which registers the context's callback for the thread and takes it
out on the way back, also when the function throws. Long computations check for
interrupts at many places. *Interaction.* Callbacks and visitors of the user run
inside calls and may make calls of their own. *Hard.* Exceptions out of nested
calls, callbacks replaced while a call runs, two threads and one request.
*Correct when* no thread keeps a callback of a call that is over, and a check
asks the callback of the call it is in.

### 1.5 RelateNG (`operation/relateng`)

*State.* The matrix of the two geometries found so far, and a predicate that is
unknown, true or false. *Operations.* One, `evaluate`: envelopes, dimensions,
points, ends of lines, a vertex of each ring, intersections of segments, and the
edges around every node, each of which may raise entries of the matrix.
*Interaction.* The predicate says what it needs (`requireInteraction`,
`requireExteriorCheck`, ...) and is asked after each step whether it is known.
*Hard.* Whatever is still to come is dropped when the predicate is known; tests
are left out that the predicate is supposed not to need; most entries are
inferred from a single vertex; at a node, the sides of one edge are known only
after those of its neighbours. *Correct when* the answer is the one that the
complete matrix would give.

### 1.6 Prepared geometries and point location (`geom/prep`, `algorithm/locate`)

*State.* Caches filled by const methods: two point locators (a simple one first,
one with an index from the second call on, in which are trees built by its first
query), a finder of segment intersections
with a tree of its own, an index for distances. *Operations.* `contains`,
`covers`, `containsProperly`, `intersects`, `distance`. *Interaction.* A
prepared geometry is meant to be asked many times, and by several threads.
*Hard.* An exception half way through a fill; calls that look read-only and
write; shortcuts that answer from a few points. *Correct when* every answer is
that of the predicate, whatever was asked and whatever failed before.

### 1.7 Clusters and spanning trees (`operation/cluster`, `operation/spanning`)

*State.* A union-find forest over the inputs, marks per input ("in a cluster",
"in a core"). *Operations.* Join every pair that should be joined; DBSCAN;
Kruskal's algorithm over curves with a union-find of its own. *Hard.* Pairs are
skipped depending on what was joined before; a point on the border of two
clusters goes to whichever comes first; `find` rewrites the forest while others
look at it; sizes and numbers are counted on the side. *Correct when* the
partition is the one the definition gives, in whatever order the index lists its
hits, and the tree is a shortest one.

### 1.8 Attempts: overlay, union, buffer, iterated noding

*State.* How far down the ladder of precision a call is, and the exception that
it will throw in the end. *Operations.* `OverlayNGRobust::Overlay` (floating,
five tolerances of snapping each alone and on both inputs, snap-rounding),
`BufferOp` (original, then 12 down to 6 digits), `ClassicUnionStrategy::Union`
(overlay, then `buffer(0)`), `IteratedNoder`. *Interaction.* Each attempt asks
for interrupts; all exceptions but one kind are `std::runtime_error`. *Hard.*
Which failure leads to another attempt, and which ends the call; loops that end
only if the counts of the passes fall. *Correct when* nothing is tried twice or
skipped, a call fails only after all attempts have, and what is not a topology
problem gets out.

### 1.9 Linework: merger, sequencer, polygonizer (`operation/linemerge`, `operation/polygonize`)

*State.* A planar graph of the lines, with marks on nodes and edges.
*Operations.* Sew lines together at nodes of degree two; put lines into one
sequence; find the rings that lines form, and the polygons. *Hard.* Which edge
is taken first at a node depends on angles and on the order of the input; marks
stay from one call to the next; deleting dangles makes new dangles; a ring has
to be taken apart where it touches itself; the choice of polygons spreads from
shell to shell. *Correct when* every line is used once, a sequence is found
whenever there is one, and every edge ends in exactly one of the results.

### 1.10 The other components

| Component | State and operations | What is hard | Correct when |
|---|---|---|---|
| Inside of an overlay attempt (`operation/overlayng`) | pipeline of noding, merging, labelling, extracting | rounding | the result covers what it should |
| Noders, snapping (`noding`) | lists of nodes along edges, sorted on demand | the list grows after it was sorted | every split uses a sorted list |
| Edge graphs (`edgegraph`, `geomgraph`) | half edges linked around nodes by angle | insertion anywhere in the ring of angles | the ring is sorted, and `sym`, `next`, `prev` agree |
| Other indexes (`KdTree`, `Quadtree`, interval trees, sweep line, `VertexSequencePackedRtree`, HPR tree) | trees, packed arrays, event lists | removal from a packed array, repeated points, ties of events | a query finds exactly what a scan would |
| Legacy STR trees | as 1.1, with pointers | insertion after the build is only asserted away | as 1.1 |
| Geometry model | coordinates, rings, collections; a cached envelope | caches behind const methods | the cache is the envelope |
| Geometric predicates and algorithms | none | rounding | exact signs |
| Verified kernel bridge (`algorithm/RocqNative.h`) | a function table loaded once, one mutex | a call that bypasses the mutex | calls are serialised |
| Validation and repair, coverages, simplification, precision, triangulation, hulls, grids, linear referencing | none that outlives a call | geometry | per function |
| WKT, WKB, GeoJSON | nesting depth while parsing | malformed input | what is written reads back |
| C API wrappers, `geosop` | one global context in `geos_c.cpp` | none of their own | they forward |

What is in this table is left to section 7 or the plan in section 8.


## 2. The modules and how they correspond to the code

| Module | Stands for | Role |
|---|---|---|
| `STRPacking` | `sliceCount`, `sliceCapacity`, `treeSize` and the counts of `createParentNodes` | arithmetic, no state |
| `STRtreeLazyBuild` | `build()` and all ways into it, for many threads | detailed specification |
| `SharedIndex` | what threads sharing an index may expect | abstract specification |
| `TemplateSTRtree` | the nodes, sorts, traversals and removals, for one thread | detailed specification |
| `SpatialIndex` | a set of entries with exact queries | abstract specification |
| `STRtreeDistance` | the two best-first searches | specification |
| `GeometryFactory` | reference counting and `destroy()` | specification |
| `InterruptibleCalls` | `execute()`, requests, callbacks, checks for interrupts | specification |
| `RelatePredicate` | the predicates as functions of a matrix, and what their comments say | operators, no state |
| `RelateGeometry` | geometries made of cells of a subdivision, location of points, the true matrix | operators, no state |
| `RelateNode` | the edges around a node and their sides | operators, no state |
| `RelateNG` | one evaluation of a predicate | specification |
| `PreparedGeometry` | prepared geometries and their caches | specification |
| `UnionFind` | the forest of `UnionFind` | operators, no state |
| `ClusterFinder` | `AbstractClusterFinder` and DBSCAN | detailed specification |
| `DensityClusters` | clusters that grow from cores | abstract specification |
| `SpanningTree` | `SpanningTree::mst` | specification |
| `RobustAttempts` | the attempts of overlay, union and buffer | specification |
| `IteratedNoder` | `IteratedNoder::computeNodes` | specification |
| `LineMergeGraph` | the graph of given lines | shared by the next three |
| `LineMerger`, `LineSequencer` | the classes of that name | specifications |
| `PolygonizeGraph`, `Polygonizer` | dangles, cut edges and rings; shells, holes and the choice of polygons | specification in two parts |
| `PlanarInputs` | all drawings of few lines without crossings | inputs |
| `MCSTRtreeLazyBuild`, `MCTemplateSTRtree`, `MCSTRtreeDistance` (trees and metrics), `MCPlane`, `MCRelateNG`, `MCPreparedGeometry` | | values of constants for TLC |
| `MCSTRtreeCalls`, `MCInterrupts`, `MCClusters`, `MCLinework` | | several machines in one run |
| `STRtreeProofs` | | theorems about `STRPacking`, `STRtreeLazyBuild`, `STRtreeDistance` |
| `TemplateSTRtreeProofs` | | theorems about `TemplateSTRtree`, and that it implements `SpatialIndex` |
| `GeometryFactoryProofs` | | theorems about `GeometryFactory` |
| `InterruptsProofs` | | theorems about `InterruptibleCalls`, `RobustAttempts`, `IteratedNoder` |
| `RelateProofs` | | theorems about `RelateNG`, `PreparedGeometry` |
| `DensityClustersProofs` | | theorems about `DensityClusters` |
| `ClusteringProofs` | | theorems about `UnionFind`, `ClusterFinder`, `SpanningTree` |
| `LineworkProofs` | | theorems about `LineMerger`, `LineSequencer`, `PolygonizeGraph`, `Polygonizer` |

`PROJECT.json` lists for every definition the lines of the source it stands for.
Definitions whose comment begins with "mutated form of" are not part of any
specification. Each is the definition it names with a plausible mistake in it;
put in its place, it makes TLC find the property listed with it violated, which
shows that the property depends on that code.

### 2.1 The lazily built tree

Two models share the arithmetic of `STRPacking`. One has the threads and only
the extent of the vector, the other one thread and all of the nodes.

`STRtreeLazyBuild` follows each thread through a call.

| Action | Code |
|---|---|
| `Invoke(t, c)` | a call of `query`, `queryPairs`, or one that always locks (`getRoot`, `items`, `remove`, `nearestNeighbour`, ...) |
| `CheckBuilt(t)` | `if(!built()) build();` in `query` and `queryPairs`, the read of `root` outside the lock |
| `Lock(t)`, `Unlock(t)` | the `lock_guard` of `build()` |
| `NothingToBuild(t)` | the early return for a built or empty tree |
| `StartBuild(t)` | `numItems`, `treeSize`, `reserve` |
| `StartLevel`, `AddSlice`, `EndLevel` | the loop of `build()`, `createParentNodes`, one `addParentNodesFromVerticalSlice` per step |
| `Publish(t)` | `root = &nodes.back()` |
| `ReadTree(t)` | the body of the call: how many items and nodes it finds |

`size` and `capacity` are those of the vector. An append beyond `capacity`
enlarges it, so a reallocation shows as `capacity` above `finalSize`. The
unlocked read of `root` is a data race. What it may lead to depends on whether
the stores of the builder become visible in order, which is the constant
`StoresOrdered`: with TRUE (x86-64 and a compiler that leaves the stores in
place) a thread that sees `root` sees everything before it; with FALSE a thread
that has not held `lock_` since may find `numItems` as it was and any prefix of
the branches.

`SharedIndex` is the same seen by the callers: the index has its contents from
the start, a call is busy, then has its answer from all of them.
`STRtreeLazyBuild` implements it under the mapping of its last section:
`contents` is `inserted`, a thread is busy unless idle or done, the answer is
the number of items seen. With `StoresOrdered` this is promised to every call.
Without it, to the calls that take `lock_` and to those of a thread that has
taken it since the tree was built (`Vouched`); a call that looks at `root`
without the lock is seen by the abstract index only from when it is vouched for,
because nothing can be promised about it before (section 6).

### 2.2 The tree as an index

`TemplateSTRtree` holds the vector itself. A node is a record of bounds and
either an item or the positions of its first and last child; pointers become
positions, which is faithful as long as the vector is not reallocated
(`ReserveSuffices`). `insert`, `iterate` and the steps of a build (`StartBuild`,
`SortLevel`, `PackSlice`, `EndLevel`, `EndBuild`) are actions; the other calls
are requested by `Call` and carried out by `Body` once the tree is built.
`std::sort` may leave ties in any order, so the sorts choose among all sorted
orders. `LeavesBelow` is the traversal that `query`, `queryPairs` and `remove`
share, with what they have in common: the bounds of the root are not tested
again, those of all other nodes are. Bounds are boxes with integer sides: only
comparisons matter, which is also why the doubled centre (`getX`) needs no
division, as in the code.

Three details are kept although they are easily overlooked: a query visits a
root that is a leaf without asking whether it was removed; `queryPairs` starts
from every leaf, removed or not; and a visitor that returns false ends the
search from one leaf only, so `queryPairs` goes on with the next
(`PairsResult`). A client that is `Careful` avoids the first two. `insert` does
not look whether the tree is built either; what it would do then is undefined
(the vector moves under the pointers), the documentation of `GEOSSTRtree_build`
forbids it, and `MayInsert` says so in `Next`.

`SpatialIndex` knows only a set of entries. A query lists those that meet an
envelope, each once and up to the limit of the visitor; pairs likewise, in
either order of the two and, for the last of the details above, perhaps more of
them than asked for; a removal takes out exactly one entry of the item or none
if there is none.

### 2.3 Nearest neighbours

`STRtreeDistance` takes two trees as constants (`Children`, `Items` below a
node, distance and reach of bounds) and one of `Metrics` as the caller's
distance. The queue is a set, its top any pair of least distance: ties may be
popped in any order. `VisitPair` is one turn of the loop of `nearestNeighbour`
with `expandToQueue`, `AskPair` one of `isWithinDistance`; `NoTree`,
`ReturnNearest` and `ReturnBeyond` are the ends. The second tree may be a single
leaf, as in `nearestNeighbour(env, item)`.

### 2.4 The factory

`GeometryFactory` has one factory. `Construct` stands for all constructors of
`Geometry` (each sets its factory and calls `addRef`), `Destruct` and `ReadFlag`
are the two halves of `dropRef()`, `destroy` and `ReadCount` those of
`destroy()`, `DeleteThis` is `delete this`. All of these run concurrently in any
order; nothing in `GeometryFactory.cpp` orders them. `_autoDestroy` is a plain
`bool`: it is the set of threads that see it set, and `FlagArrives` is that one
more does, at any later time. Two history variables name what the code is
exposed to: `crossed`, that the drop of the last reference and `destroy()` have
met (a destructor has counted to zero and `destroy()` runs before it has read
the flag, or `destroy()` has set the flag and a destructor counts to zero before
`destroy()` has read the count or before the flag has come to its thread), and
`missed`, that the flag was set and read as not set.

### 2.5 Interruptible calls

`InterruptibleCalls` gives each thread a stack of calls. `execute` and
`executeVoid` are the two kinds of overload; the second drops its
`InterruptManager` before the function runs, as the code does. A call is in its
function, or at one of three places of a check: having seen a request, about to
ask the registered callback, or inside it. A function without a result is at a
place of its own (`visit`), from which there is no check: those that the C API
runs by `execute` without a result (destructors, setters, insertion, queries and
iteration of a tree) contain none, though some call a visitor. Only code of the
user (between calls, in an interrupt or progress callback, in a visitor) may
start a call or set the handler of a context, and a context is used by one
thread at a time, as the API demands. `Leave` is the destructor of
`InterruptManager`, on return and on every exception.


### 2.6 RelateNG

Coordinates are replaced by a subdivision of the plane into vertices, straight
edges and faces (`RelateGeometry`). Points, lines and polygons are made of its
cells, so where two of them meet is known without computing an intersection, and
so is the complete matrix (`Truth`), against which the evaluation is checked.
`RelatePredicate` has the predicates twice: `isDetermined` and `valueIM` as the
code computes them, `Meaning` as the comments describe them.

`RelateNG` is `evaluate` with what it calls.

| Action | Code |
|---|---|
| `CheckEnvelopes`, `InitDimensions`, `InitEnvelopes` | the tests at the start of `evaluate`, which may answer |
| `StartTopology` | the constructor of `TopologyComputer`: what the dimensions imply |
| `MatchPoint`, `EndMatching` | `computePP` |
| `TakeElement`, `TakePart` | the loops of `computePoints`, `computeLineEnds`, `computeAreaVertex`, of the segment intersections and of `evaluateNodes` |
| `UpdateDimension` | `updateDim` for one entry, after which the predicate may be known |
| `EndPhase`, `StopEarly`, `Finish` | the order of phases, `isResultKnown()`, `finish()` |

Elements are taken in any order. `RelateNode` sorts the edges around a node by
angle, as `compareAngle` does with exact integers, merges equal ones, marks
those inside an area and fills the sides that are still unknown with that on the
left of the last edge where it was known, which is what the loop of
`propagateSideLocations` carries along; its result is the sequence of entries
the node contributes.

### 2.7 Prepared geometries

`PreparedGeometry` uses the same geometries. One thing is added: at some
vertices a segment passes without ending there (`passed`), for proper
intersections, which are the ones that have a shortcut of their own. A call goes
through `getPointLocator`, `locateIndexed`, `getIntersectionFinder`, `process`,
`getIndexedFacetDistance` and the steps that decide (`DecideByPoints`,
`DecideByInterior`, `DecideBySegments`, `DecideForPoints`, `Measure`). Wherever
a cache is allocated the call may throw; what was filled stays. The locator's
index is two caches: `index` is set when all edges are in it
(`IndexedPointInAreaLocator.cpp:201`), and the query that follows builds the
trees inside (`treesBuilt`), which may throw when `index` is set already. A tree
filled in part finds any part of the intersections (`Findings`).

### 2.8 Clusters and spanning trees

In `ClusterFinder` the input says who is near whom, which envelopes the index
finds and whose turn comes first. `hits` is what is left of the last query, and
the next hit one of those whose turn comes first. `InputAssumption` says what an
input is: nearness is symmetric, a component is near itself, who is near is
found, and who is empty is near nobody else. `TakeComponent` is one turn of the
outer loop of `process`; `VisitToJoin` one hit of the joining finder; `SkipHit`,
`KeepNeighbor` and `UnionNeighbor` are what DBSCAN does with a hit or a
neighbour; `GetClusters` numbers the clusters. `DensityClusters` does not have
the forest, the order of hits and what is skipped: a core takes components near
it, until no core can take more. `ClusterFinder` implements it under the mapping
of its last section (the cluster of a component is its root). `SpanningTree`
looks at one curve per step, among those of least length in any order, and then
numbers the components; lengths are natural numbers, as only their order and
their sums matter. What the properties say of connections (`Joins`) is said
without paths: two nodes are joined unless a set that no curve leaves separates
them.


### 2.9 Attempts

`RobustAttempts` climbs down one ladder. `Succeeds(r)` and the `...Fails`
actions say for each rung what follows; `Fails` is common to them. The rungs of
the overlay are `fixed`, `floating`, `snapping`, `snapSelf0`, `snapSelf1`,
`snapBoth`, `rounding`; those of the buffer `original`, `fixedPrecision`,
`reduced`. Whether an attempt succeeds, and what it throws, is chosen from
outside, except that it throws an interrupt only while someone asks for one:
`once` is a request, which the check takes back, `always` a callback that goes
on asking. An exception copied into a `std::runtime_error` loses its type and is
no topology problem to any caller (`Sliced`). `failures` is a history variable,
and `Ways` lists all that a call may try, `buffer(0)` for every union of areas
included. `IteratedNoder` has one action per
pass of `computeNodes`, with any number of nodes.

### 2.10 Linework

The three machines share `LineMergeGraph`. `LineMerger` starts strings at the
nodes where sewing stops and then at what is left (`Merge`, `StartString`,
`Continue`, `EndString`, `LeaveNode`, `EndPass`); lines may be added after a
first call (`AddLine`). `LineSequencer` takes the connected parts, which are
sets of edges, in the order of their first edges. In each it follows a trail
(`StartPart`, `Extend`, `EndTrail`) and goes back along it to put in detours
(`StartDetour`, `StepBack`). A detour that does not come back ends the call with
an exception (`EndTrail`). A trail that is complete is oriented (`EndPart`), and
with the last part the answer is yes (`Build`). Edges around a node come in any
order in both, a superset of the orders that angles can give. `PolygonizeGraph`
gets the order of edges around each node as part of the drawing; its stages are
dangles (`DeleteAtNode`), cut edges, labels of maximal rings (`LabelRings`),
taking rings apart (`SplitRing`) and rings (`FindRing`). `Polygonizer` goes on
with `FindShellsAndHoles` and the choice of `extractOnlyPolygonal`:
`UpdateShell`, and `Enter` and `Settle` for the two halves of the recursion of
`updateIncludedRecursive`. Which face of a connected part is the outer one and
what the part lies in is chosen among all possibilities.


## 3. The runs: bounds, and what each shows

| Run | Configuration | Bounds | Distinct states |
|---|---|---|---|
| `lazy_build` | `STRtreeLazyBuild.cfg` | 3 threads, 2 calls each, up to 6 items, capacity 2 | about 224 000 |
| `calls_end` | `STRtreeCalls.cfg` | 2 threads, 2 calls each, up to 4 items, stores out of order; 3 trees of 3, 2 and 1 levels, the empty tree, 32 metrics, 2 ranges | about 60 000 |
| `tree` | `TemplateSTRtree.cfg` | up to 3 leaves of 2 items, 4 envelopes (one empty), up to 3 removals; up to 5 leaves of 1 item, 3 envelopes, 1 removal | about 673 000 |
| `interrupt` | `Interrupts.cfg` | 2 threads, 3 contexts, calls nested 2 deep; all ladders with 2 requests; noding with up to 12 nodes a pass; a factory, 3 threads, 4 geometries | about 2 726 000 |
| `relate` | `RelateNG.cfg` | all pairs of 23 shapes, all named predicates and 4 patterns | about 255 000 |
| `prepared` | `PreparedGeometry.cfg` | 8 prepared geometries, 14 to test, any sequence of calls, 1 exception | about 89 000 |
| `clusters` | `Clusters.cfg` | 5 components, every graph of near ones; 4 nodes, 7 curves | about 271 000 |
| `linework` | `Linework.cfg` | up to 5 lines between up to 4 nodes; drawings of up to 6 lines, and 3 rectangles | about 1 059 000 |
| `polygons_extracted` | `PolygonsExtracted.cfg` | as `linework` | counterexample |
| `lines_sequenced` | `LinesSequenced.cfg` | as `linework` | counterexample |
| `context_callback` | `ContextCallback.cfg` | the calls of `interrupt` | counterexample |
| `original_thrown` | `OriginalThrown.cfg` | the ladders of `interrupt` | counterexample |

**lazy_build.** Every call answers from the whole tree (`AnswersFromWholeTree`),
the slices of every level cover it and only the root has no parent
(`NoOrphans`), the reserved block is never outgrown and is full in the end
(`ReserveSuffices`), and a built tree is never touched again
(`BuiltTreeIsFrozen`). Stores are seen in order in this run. Six items of
capacity 2 are the least with which a level is cut into two slices of which one
gets a node more than its share of parents would suggest: the sum of the parents
of the slices differs from the parents of the level as a whole. Three threads
are needed for one to build, one to wait and one to come later; threads are
symmetric.

**calls_end.** Two machines, one in a behaviour (`MCSTRtreeCalls`), as both are
asked whether calls end.

Threads share a tree, and stores may be seen in any order. The calls that always
take the lock answer from the whole tree (`LockedAnswersFromWholeTree`); no call
that is vouched for can tell that the tree is built lazily
(`LazyBuildIsInvisible`: it implements `SharedIndex`); and every call returns
(`CallsReturn`).

Nearest neighbours: all pairs of trees (also a tree with itself) and all metrics
that lie between the distance and the reach of the envelopes. No pair of items
is lost to popping or pruning (`NothingIsLost`), the answer is nearest
(`NearestIsNearest`), `isWithinDistance` is exact (`WithinIsExact`), searches
end (`SearchEnds`). One tree has branches smaller than the leaf of another,
which is when the choice of the node to expand matters. Nothing is promised for
metrics that do not respect the envelopes (section 6). A by-product of the
model: with a queue that pops a least pair, the first pair of leaves popped is
already nearest, so the pruning against `lowerBound` saves work and is not
needed for the result.

**tree.** Every order of insertions, of ties in the sorts, of removals and of
queries that are stopped at the first visit or never: the tree implements
`SpatialIndex` (`ActsAsIndex`). Two items, inserted up to three times in all,
include equal entries, of which `remove` must take one. The envelopes are a
point, a bar through it, a point away from both, and the empty one. Items are
symmetric. Five leaves of capacity 2 give four levels, in which the sorts of the
upper levels move branches that have children; the constraint
`TallTreesAreSimple` says what these tall trees may hold. Each node but the root
has one parent and none too many children, and bounds cover what is below, at
every step of the build (`TreeShape`).

**interrupt.** Four machines, one in a behaviour (`MCInterrupts`).

Calls: no callback outlives its call (`NoStaleCallback`). A check asks the
callback of the call that noted one last, as long as no other was registered in
a call nested in it; after that it asks nobody, also when the nested call is
over (`AskedIsNewest`). This says exactly what the code does, of every call and
of both overloads; that it is not what the header says is the run
`context_callback`.

Ladders: ways are tried in order and none is skipped or tried twice; a call
fails with a topology problem only when every way has failed, and throws the
last failure. Only where `OverlayNGRobust` gives up is it earlier: all ways to
overlay have failed, what is thrown is a `std::runtime_error` cut from the first
failure, and so `buffer(0)` is not tried (`FailsOnlyWhenAllFail`). Any other
failure ends the call at once and as what it is, unless the first attempt in
floating precision swallows it (`OthersEndTheCall`). The numbers of
tolerances and digits are the code's.

Noding: whatever the passes do, from pass `maxIter` on the counts fall and so
`computeNodes` ends (`PassesAreBounded`); limits of 0, 1 and 5 (the default)
with up to 12 nodes a pass include counts that rise and fall before the limit.
That it does not end at `maxIter`, as its header says, is in section 6.

The factory: it is deleted before a geometry or a call that refers to it is gone
(`OutlivesChildren`), or twice (`DeletedOnce`), only where `destroy()` met the
drop of the last reference; that is the whole list of interleavings a client has
to exclude, and destructors of other geometries are not among them. That neither
of the two deletes it cannot happen even where they meet (`NotLeaked`): each
writes before it reads, so one of them finds what the other has written, unless
the flag is seen late. A geometry may be copied after the release, and threads
construct and destroy geometries while `destroy()` runs.

**relate.** The shapes are points, lines and polygons of every kind of contact:
a diamond cut into quarters at its centre, a triangle inside one quarter, which
is a hole of some shapes, multi-geometries, closed lines, lines that cross at
the centre or end on a boundary, and the empty geometries of each dimension. For
every pair and every predicate the answer is what the comments of
`RelatePredicate.h` say of the complete matrix (`AnswerIsDocumented`), nothing
is inferred that is not there (`NothingIsInvented`), the predicate that asks for
the matrix gets all of it (`MatrixIsComplete`), and a known value is that of
every matrix that agrees with what was found (`KnownIsFinal`). The centre is a
node of up to four edges, of either geometry or of both, whose sides have to be
inferred from their neighbours. No line has length zero (section 6).

**prepared.** After any sequence of calls, one of which throws somewhere, every
answer is that of the documented predicate (`AnswerIsTruth`), a tree marked as
built is whole (`BuiltIndexIsWhole`), and once the index of the locator is there
and the trees in it are built, calls that only locate points write to no cache
(`WarmCallsOnlyRead`), which is when threads may share it. The index alone does
not do: after an exception in the query that builds the trees it is set, the
next call writes, and with `Warm == index` TLC shows that. The targets include a
polygon with a hole, one of two parts, and three rings each within the next; a
line may cross a boundary at one vertex and nowhere else. Collections are left
out (section 6).

**clusters.** All graphs of near pairs among five components, clusters of at
least 0 to 4 points, hits in two orders and with wide or narrow envelopes, one
component empty: the finder implements `DensityClusters`
(`ClustersGrowAsPromised`) and the numbers it gives are those of the clusters
(`IdsAreClusters`). With five components two cores that are not near each other
share three border components. Curves of lengths 1 and 2, a null curve and a
loop among them: the tree spans each component with the least length
(`SpansMinimally`) and components are numbered (`NumbersAreComponents`).

**linework.** Merging: every line is in one string, once and without gaps
(`StringsAreLines`), and sewn to its neighbour wherever the rule says
(`SewnWherePossible`), also in a second call and after lines were added.
Sequencing: what is returned are trails that `isSequenced` accepts, with the
promised ends (`SequencesAreTrails`), and a wrong "no" or an exception comes in
exactly one situation (`AnswerIsEulers`, section 6). Polygonizing: dangles and
cut edges are all there are by definition (`DanglesAndCutsAreAll`), rings pass a
node once (`RingsAreSimple`), and only polygons are extracted that an odd number
of edges separates from the outside, so that of lines that form a valid
polygonal geometry no two of them share an edge (`NothingElseIsExtracted`). The
drawings are all planar ones of 3 lines between 3 nodes, 4 between 2 nodes and 4
without loops between 3 nodes of degree at most 4, all of the complete graph of
four nodes, and three rectangles in a row that overlap: the least with nested
rings, rings that touch themselves, and shells that are reached from two sides.

The four runs with a counterexample are section 6.

*Type invariants.* Those of all modules with theorems are proved (section 5);
that of `TemplateSTRtree` is checked as well.

*Deadlock.* `CHECK_DEADLOCK FALSE` is given where a client may really stop: all
calls of the bound are made, a search or an evaluation has returned, a geometry
is built. In the runs `tree`, `interrupt`, `prepared` and
`clusters` there is always a next call, and deadlock is checked.

*Bounds in the guards.* `MaxCalls` (calls per thread), `MaxItems` (insertions),
`MaxRemoved`, `MaxDepth`, `MaxRequests` (for the ladders it is given as
`MaxAsked`), `MaxNodes`, `MaxLines`, `MaxMerges`, `MaxFailures`, and the
`deletions < 2` of `DeleteThis` (with three threads a third deletion would only
follow one that is wrong already). The others only keep the environment from
starting more operations, none stops one half way.


## 4. Fairness

`STRtreeLazyBuild!Fairness` is weak fairness of the steps of each thread within
a call: a running thread gets to run, and a mutex that stays free is acquired by
a thread that waits for it. It does not say that the mutex is fair; with
finitely many calls (`MaxCalls`) the others stop competing, so `CallsReturn`
shows absence of deadlock and of endless builds and not absence of starvation
under endless competition. Nothing makes a thread call again.

A search is a loop in one thread and runs to its end: weak fairness of
`STRtreeDistance!SearchNext`. `MCSTRtreeCalls!SpecAll`, the specification of
`calls_end`, has both conditions.

The other specifications claim no liveness and state no fairness.


## 5. Theorems: assumptions and arguments

All are proved for every value of the constants that satisfies the named
assumptions of the modules, which state what constructors check (capacity at
least 2), what names mean (`NoThread` is not a thread) or what an input is (a
line has two ends). Modules that reach each other's definitions share one module
of proofs.

**Packing** (`STRtreeProofs`). `LevelShrinks`: a level of n >= 2 nodes gets at
least one and at most n - 1 parents. The argument: there are fewer slices than
nodes, so a slice holds at least two and gets fewer parents than it has nodes,
and no slice gets more. `TreeSizeRecursion`: the sum that `treeSize` computes is
n plus that of the parents. Both rest on lemmas that the recursive functions
`SliceLoop` and that of `treeSize` exist and are unique, which are proved by the
least-number argument of `LeastElement`.

**Lazy build** (`STRtreeProofs`). The properties of both runs but `CallsReturn`,
and that every round of the loop leaves a smaller level (`RoundsShrink`), on
which its end rests. The safety properties are not inductive: what makes them so
is where the builder is. `AtLevel` and `AtSlice` say that between levels the
nodes without parents are the end of the vector, and within a level the builder
is where the loop of `treeSize` is after as many slices: the two loops of the
code walk in step, which is why the block suffices. `LockHeldInBuild` makes the
builder unique, `BuiltOrEmpty` says that nobody leaves `build()` with the tree
unbuilt, `Synchronised` that whoever leaves it sees the tree.
`EveryAnswerIsWhole` assumes `StoresOrdered`, the other theorems do not.
`LazyBuildImplementsIndex` is the refinement under any order of stores: what is
promised depends on `StoresOrdered` and on what a thread has locked
(`Vouched`), a thread becomes vouched for only as it takes the lock or calls,
and whoever is vouched for has, when it reads, the lock's word that `root` and
all before it are there (`Synchronised`).

**Distances** (`STRtreeProofs`). Exactness of both searches and `NoPairIsLost`,
under `WithinBounds`: items are no nearer than the bounds above them and no
farther than these reach. The invariant says where every pair of items is: under
a queued pair of nodes, or no nearer than the best pair. An expansion keeps what
is below a pair (`ExpansionCovers`), and what pruning drops is farther
(`BelowIsFarther`). Trees are any that satisfy `TreeAssumption`.

**The tree** (`TemplateSTRtreeProofs`). `TreesAreTrees`: `TreeShape` for every
capacity, number of items and order in which the sorts may leave equal keys. The
invariant speaks of a prefix of the vector: `Packed(nodes, d)` says that the
first d nodes have exactly one parent each, that the branches point to nodes
before themselves and within that prefix, not to too many, and cover them.
`Parented` is that d at each step of a build. A sort moves only nodes behind it,
with their children left where they are, so a moved branch still points to the
same nodes (`MovedStaysPacked`); a slice extends the prefix by what it appends
(`ParentsPack`). That the leaves stay in front needs the sorts to move within a
level (`RearrangeKeeps`).

`TreesActAsIndexes`: for a careful client, `TemplateSTRtree` implements
`SpatialIndex` (`ActsAsIndex`). The shape of the tree is what the argument
starts from. A traversal lists a leaf once because every node on the way has one
parent, and does not miss one because every branch covers its children: a leaf
that meets the envelope makes all nodes above it meet it too (`LeavesAreFound`
and `AllAreListed`; `LeavesBelow` is a recursive function, which exists because
children come before their parents). So a query lists the entries that meet the
envelope and stops at the limit (`QueryFinds`), and a removal finds an entry if
there is one (`RemoveFinds`). For pairs, each of the traversals from the leaves
up to some position adds the pairs whose first leaf it starts from, and a pair
is two leaves in the order of their positions and so in only one of these
(`PairsOfLeaf`, `VisitedPairs`). An entry is seen by callers, a position is not;
that the two correspond needs the invariant `PromiseInv`. Different leaves have
different ordinals (`Told`), also after a sort (`RearrangedIsSame`): until the
tree is built the leaves are as they were inserted (`Fresh`), so a new one has a
new ordinal. The call that waits for a build is one that a careful client made
(`Asked`), and when its body runs, the tree is built or empty (`Ready`). A root
that is a leaf was not removed (`RootLives`), which a query does not look at.
`Careful` is a hypothesis because without it the statement is false (section 6).

**Factory** (`GeometryFactoryProofs`). All three properties, for any number of
threads, any finite number of geometries and every interleaving; no client is
assumed to be careful. The invariant has two halves. As long as the two have not
met: the count is the number of live geometries, the flag is set by the release
and not before, and after the release at most one thread is on its way to delete
and none while a geometry lives. `NotLeaked` needs only the count and the flag:
the destructor of the last geometry is inside until it has read the flag, and
`destroy()` until it has read the count, so whichever leaves last has read what
the other wrote.

**Interrupts** (`InterruptsProofs`). Both properties of calls, for any threads,
contexts, depth of nesting and number of requests, and for both overloads. The
invariant speaks of every call of a stack: `RegisteringDisturbs` (a call with a
callback has disturbed all calls around it), `UndisturbedOwn` (an undisturbed
call that noted a callback has it registered) and `RegisteredIsUndisturbed`
(what is registered is that of an undisturbed call). Together they give that
taking a callback out on the way back cannot take that of a call around it
without that call being disturbed, and that once it is, nothing is registered
until another call begins (`NewestCallbackIsAsked`).

**Attempts and noding** (`InterruptsProofs`). The properties of the ladders, for
any number of tolerances and any range of digits. The invariant is about the
history: what has failed so far is the beginning of the list of all ways
(`InOrder`), and while a call goes on all of these failures were topology
problems, but for the first in floating precision (`WhileTrying`). The list is
that of all ways, `buffer(0)` included for every union of areas; that a union in
floating precision ends before it is not assumed but follows from what the
overlay throws (`CallsFailOnlyWhenAllFail` gives the exception itself, so that
it is no topology problem).
`NodingIsBounded` is about any numbers of nodes and any limit of passes.

**RelateNG, what is known early** (`RelateProofs`). `KnownIsFinal` for all
geometries and predicates. `DeterminedIsFinal` is the part about the predicates:
if `isDetermined` holds of a matrix then `valueIM` is the same for every matrix
of the same dimensions with no smaller entries; each predicate has a lemma. It
does not cover values that come from envelopes or dimensions: the invariant says
that nothing is known before entries are found (`NothingKnownEarly`), that
points and nodes looked at belong to elements (`PartsOnlyOfElements`,
`NodesAreShared`), and that a known value was decided by the matrix (`Decided`).

**RelateNG, around a node** (`RelateProofs`). `NodesAreTrue`: for any two
geometries with edges at a vertex, and in whatever order `createNode` takes
their sections, each edge of the finished node has the true location of the edge
and of the faces on its two sides in both geometries. The edges at a vertex have
places from 1 to n in the order of `compareAngle`, and a corner of a ring is a
sector: the faces from one place to another, and no others, are in its polygon
(`SectorOf`, from the fact that a property that changes at two places only holds
from one to the other, `TwoChanges`). While sections are added every label is
right or wholly unknown, and each sector that begins or ends at an edge of the
wheel is known there (`InOrder`), which is what `updateIfAreaPrev` and
`updateIfAreaNext` count on: the side they ask the neighbour for was not changed
by an edge that is missing (`NoChangeBehind`). When all sections are in, an
unknown label belongs to an edge of the other geometry, and nothing changes
between it and the last known edge, whose left side `propagateSideLocations`
takes over (`PropagateTells`).

**RelateNG, the matrix** (`RelateProofs`). `MatrixIsSound` proves
`NothingIsInvented`, if lines have a length. Each way to find an entry has a
lemma that names the face, edge or vertex where it is seen: a point beside an
area (`PointsSeen`), the edge in which a line goes on from its end
(`LineEndsSeen`), the edge of a ring that leaves its first vertex
(`RingStartsSeen`), the face that two crossing corners share (`CrossSeen`), the
labels of a node (`NodeUpdatesSeen`), what dimensions imply (`ExteriorsSeen`)
and matched points (`MatchesSeen`). The invariant (`SeenInv`) says that what is
left to be looked at belongs to the phase, which an entry inferred from it
depends on (`TodoInOrder`, `PartsInOrder`, `PointsMatched`), and that every
pending entry is seen (`PendingIsSeen`). Together with `Decided` it gives
`EarlyAnswers`: a value known before all has been looked at is that of the true
matrix. The hypothesis `NoZeroLengthLines` is needed: `addLineEndOnLine` says
that a line has some length where its end is, "for zero-length lines as well",
and `addLineEndOnArea` has a "TODO: handle zero-length lines?" at that place.

These proofs assume what a plane and shapes are: a finite graph of straight
edges, whose faces go from the left of one edge at a vertex to the right of the
next one in the order of angles, and one of which is outside all shapes
(`SubdivisionAssumption`, `TurnAssumption`); lines and rings along its edges, a
ring's vertices all different, no repeated points, and rings that are the edges
between the inside and the outside of their polygon (`ShapeAssumption`). The
code makes it so where the input does not (`orientAndRemoveRepeated`), or asks
for valid geometries. TLC evaluates all of these on the planes of the runs. What
a node yields is proved, not assumed.

**Prepared geometries** (`RelateProofs`). `BuiltIndexIsWhole` and
`WarmCallsOnlyRead`, for any geometries and any number of exceptions. The
invariant orders the caches: trees only in an index, an index only in an indexed
locator, that only after a simple one (`LocatorsInOrder`); a tree only in a
finder, marked as built only when whole (`FinderInOrder`); and it says which
steps a call for points can be in (`PointCalls`) and that only polygons have
locators (`LocatorsOfPolygons`).

**Clusters, abstractly** (`DensityClustersProofs`). `ClusteringIsCorrect`: when
clusters have grown as `DensityClusters` allows and no core can take more, cores
share a cluster exactly if a chain of near cores leads from one to the other, a
member that is no core is in the cluster of a core near it, and others are
alone; for any set of components, finite or not. Chains are expressed by the
sets that no chain leaves, which needs no induction. The three parts hold while
clusters grow, and only together.

**Clusters as the code finds them** (`ClusteringProofs`).
`ClustersRefineThePromise`: whatever order hits come in and whatever is skipped,
each step of both finders is a step of `DensityClusters` or leaves the mapped
state alone; so `ClustersAreCorrect`. `IdsAreTheClusters`: the numbers callers
get are those clusters. `root`, `find` and the loop over neighbours are
recursive functions; that they exist, and are what their recursion says, follows
from a height that goes down along the parents (`RecursionExists`), and a forest
has one. `find` and `join` leave a forest, and what they do to roots is all the
rest needs. The invariant `FinderInv` says whose neighbours are settled
(`VisitedAreSettled`), how far the current component is (`CurrentSoFar`,
`JoinedSoFar`), and that who is in no cluster is alone in its tree
(`MembersOnly`): without that, taking a border component could bring others with
it.

**Spanning trees** (`ClusteringProofs`). `TreesSpanMinimally` and
`NumbersAreTheComponents`, for any nodes and curves. The invariant says that the
trees of the forest are what the chosen curves join (`TreesAreJoined`), that
each of these is needed (`NoneIsSpare`), and that any set of curves that
connects everything can be changed, without getting longer, into one that has
all chosen ones (`ChoiceExtends`). `EdgesExchange` is the step: the shortest
curve between two trees can take the place of some other that leaves one of
them.

**Line merger** (`LineworkProofs`). `StringsAreLines` and `SewnWherePossible`
for any lines (`NewLinesAssumption` says what a line is), any number of calls
and lines added between them. The invariant has three parts. What is marked is
exactly what is in the string that grows and in those that are finished, and
these share no edge (`MarksAreStrings`, `StringsApart`, `CurrentGrows`). A
finished string begins where sewing stops or is closed, and ends where it cannot
go on (`Finished`). And where the loops over nodes are: the nodes passed have no
edge left (`NodesAreDone`, `NodesAreVisited`). The code follows `getNext`
without a look at the marks, so the proof has to show that it never comes to a
marked edge: it passes only nodes where two edges meet, and a string that had
taken the other edge there would have come from this one or would begin there
(`NewInTrail`, `NewInFinished`). Strings of the second pass may begin at any
node; they close, because after the first pass no edge that is left leads to an
end (`LoopsGoOn`). With directions that takes a count (`NothingEnds`): every
edge that is left has one before it and different edges have different ones, so
in a finite graph every one has one after it.

**Line sequencer** (`LineworkProofs`). `TrailsAreFound`: a yes comes with one
trail per connected part, over each of its lines once, with the ends that
`LineSequencer.h` promises, and `isSequenced` accepts the whole. While a trail
is followed it has no gap but the one it is to close (`OnTheWay`); on the way
back nothing is left at the nodes behind (`OnTheWayBack`), and at its start no
node of the trail has anything left, so the trail has all of the part
(`PartIsCovered`). `AnswersAreEulers`: the answer is yes if and only if each
part has a trail and the sequencer does not start astray. The invariant
`EulerInv` is a parity argument: an odd number of used edges is at the two ends
of a trail that has been followed (`Balanced`) and in a detour also at the two
ends of that (`Detouring`), and nowhere else. Where a detour is stuck, neither
the node it has come to nor the one it left from has an edge left, so these two
are odd; more than two nodes of a part never are, so the trail did not start at
an odd one (`DetourIsAstray`). In the other direction a trail over a part makes
all but its ends even (`TrailIsBalanced`), and where the start is well chosen
the sequencer itself finds one (`TrailOverHasTrail`).

**Polygonizer** (`LineworkProofs`). Both theorems hold for any graph whose stars
list the edges that leave each node (`GraphsAssumption`), planar or not, and for
any choice of outer faces and placements. `DanglesAreAlwaysAll` is the first
half of `DanglesAndCutsAreAll`: when the stack of nodes is empty, what is left
has no loose end, and no set of edges without loose ends has lost an edge. The
invariant (`Peeling`) says that edges are deleted in both directions, that every
node with exactly one edge left is on the stack, and that a node on the stack
has one edge or none: a node that was pushed twice, or lost its edge to the one
at the other end, is found empty and does no harm. `OnlyOddShellsAreExtracted`
proves `NothingElseIsExtracted`. What is included is an odd number of steps from
the outside, what is set and not included an even number (`ChosenByParity`); for
that it has to be known that a shell is set at most once, by the visit that it
is on the stack for (`BeingVisited`). A second visit could find other neighbours
and leave it both set and included for the wrong reason. The odd shells are
those in every set that has the outermost ones and is closed under two steps,
which needs no induction.

**Only model-checked.** Liveness (`CallsReturn`, `SearchEnds`), which is out of
reach of the prover. That no entry of the matrix is missed in `RelateNG`
(`MatrixIsComplete`), and so that answers found at the end, or from envelopes,
are right (`AnswerIsDocumented`, and `AnswerIsTruth` of `PreparedGeometry`):
that needs more of a plane than its vertices show, such as that an area is
within the envelope of its rings, and that a line with both ends inside an area
and no point in common with its rings stays inside. Polygonizing: that deleting
what has one face on both sides deletes the bridges, and that rings taken apart
pass a node once and are as many as faces (`RingsAreSimple`), are facts about
drawings in the plane as well. The four counterexamples.


## 6. Where the code and its documentation disagree

In four runs TLC finds a counterexample to what a comment of the repository
says.

* **polygons_extracted** (`src/operation/polygonize/EdgeRing.cpp:358`). A shell
  becomes the opposite of the first adjacent shell that is set, so what is
  included depends on the order of shells and edges where the lines are not a
  valid polygonal geometry. Of the complete graph of four nodes two polygons
  that share an edge may be extracted; of three overlapping rectangles two of
  three. `Polygonizer.h:77` says that only polygons which form a valid polygonal
  geometry are extracted.
* **lines_sequenced** (`src/operation/linemerge/LineSequencer.cpp:329`). The
  trail starts at the node of least degree. If that is even while two others are
  odd, detours cannot come back, and the first call throws or says no where a
  sequence exists: `MULTILINESTRING((0 0,-1 1),(-1 1,0 2),(0 0,0 2),(0 0,1 1),(1
  1,0 2))` is an example, and a second call on the same sequencer says that it
  cannot be sequenced. `LineSequencer.h:86` says that a sequence is found if
  there is one. `AnswerIsEulers` shows that nothing else goes wrong.
* **context_callback** (`capi/geos_ts_c.cpp:578`). `~InterruptManager` registers
  null and not what was registered before it. When a callback or visitor of a
  call makes another one in a context with a callback, for example a progress
  callback during `GEOSUnaryUnion_r`, the call around it asks nobody at its
  further checks and can no longer be interrupted through its context.
  `geos_c.h.in:427` says that the callback is called when an interruption point
  is reached "in code executed in the specified context".
  The overload for functions without a result goes further and takes the
  callback out before the function runs (`geos_ts_c.cpp:692`, the
  `InterruptManager` is local to the `if`). By itself that shows nowhere, as
  none of these functions checks for interrupts; it has the same effect on a
  call around it. `AskedIsNewest` shows that this is all.
* **original_thrown** (`src/operation/overlayng/OverlayNGRobust.cpp:122`). The
  first exception is assigned to a `std::runtime_error`, and that is thrown when
  all attempts have failed. `OverlayNGRobust.h:51` says that the original
  `TopologyException` is thrown. Whoever catches that type, as
  `ClassicUnionStrategy::Union` does, misses it: the way out of a union by
  `buffer(0)` is never taken in floating precision
  (`CascadedPolygonUnion.cpp:234`, and the comment of `.h:79`).

Noted without a run. Where a definition is named, it states what the
documentation says; added to the configuration of its module's run, TLC shows
the counterexample.

* `query()` and `queryPairs()` read `root` without `lock_`
  (`TemplateSTRtree.h:279`). Nothing orders the other stores of the builder
  before that read; where they may be seen out of order a query may answer from
  part of the tree. `tests/unit/capi/GEOSSTRtreeTest.cpp:343` says that queries
  are thread-safe. (`AnswersFromWholeTree` with `StoresOrdered = FALSE`.)
* The only item of a tree is found by a query after it was removed, and
  `queryPairs()` starts from removed leaves; `TemplateSTRNode.h:143` asserts
  that no removed item is read. (`RemovedIsNotRead` with `Careful = FALSE`.)
* The nearest-neighbour search needs item distances of at least that of the
  envelopes; `capi/geos_c.h.in:7075` asks for distances of at most that.
  (`NearestIsNearest` with `DocumentedMetrics` as the metrics.)
* `dropRef()` finds the count at zero and reads the flag in a later step
  (`GeometryFactory.cpp:1188`). If meanwhile a geometry is made and the owner
  calls `destroy()`, the factory is deleted under the new geometry.
  `GeometryFactory.h:548` says that it is deleted after the last child. In the
  other order, `destroy()` setting the flag and a destructor counting to zero
  before the count is read, both delete it. (`DeletedAfterLastChild`, and
  `DeletedOnce` without `~crossed`.)
* Two threads that check at the same time are both stopped by one request;
  `geos_c.h.in:444` says that the next thread to check is.
  (`OneRequestStopsOneCall`.)
* The first attempt of an overlay takes an interrupt for a failed attempt, goes
  on, and may return a result (`OverlayNGRobust.cpp:122`); `Interrupt.h` says
  that operations end at the first occasion. (`InterruptEndsCall` of
  `RobustAttempts`.)
* `intersects` does not test the ends of lines against lines, as segments are
  compared anyway (`RelateNG.cpp:466`), but a line of length zero that is part
  of a longer multi-line has no segment; `RelateNG.h:66` says that such lines
  are treated as points. Prepared geometries, which have a way of their own, may
  answer otherwise than the plain predicate.
* Prepared `contains` and `covers` ask whether a ring of the target lies inside
  the other geometry only if that is a Polygon or a MultiPolygon
  (`AbstractPreparedPolygonContains.cpp:174`): a GeometryCollection with a
  polygon that covers a hole of the target is taken to be contained.
  `containsProperly` does the same.
* `IteratedNoder::computeNodes` goes on past `maxIter` passes as long as each
  creates fewer nodes than the one before (`IteratedNoder.cpp:85`).
  `IteratedNoder.h:83-91` calls it "the maximum number of noding iterations
  performed before the noding is aborted". (`StopsAtMaxIter`;
  `PassesAreBounded` says how far it can go.)
* `LineSequencer::isSequenced` looks up the ends of a line before it adds the
  nodes of the sequence that the line ends, so it accepts a line from 1 to 2
  followed by one from 3 to 1 (`LineSequencer.cpp:73`). Lines added to a
  sequencer after a call leave the earlier result as it is.
* `queryPairs()` goes on after its visitor returned false, and may give the two
  items of a pair in either order of insertion; `TemplateSTRtree.h:294-297` says
  that false stops the query and that the item inserted first comes first. What
  the code does is part of the model, and of what `SpatialIndex` allows.


## 7. What is not modelled, and why

* *Floating-point geometry*: orientation, intersection, noding of segments, the
  inside of overlay and buffer attempts, hulls, triangulation, simplification.
  The interesting questions are of rounding. Models take the result of a
  predicate as given.
* *Pure functions of one value*: readers and writers, validity, coverages,
  linear referencing. There is no order of events to explore.
* *Of RelateNG*: geometry collections (`AdjacentEdgeLocator` and the union
  semantics), rings that touch themselves (`PolygonNodeConverter`), boundary
  rules other than Mod2, and the caches of prepared mode. Two shapes of the
  subdivision share only whole cells, so a segment is never crossed where it has
  no vertex.
* *Of prepared geometries*: rectangles, `isWithinDistance` and `nearestPoints`;
  two threads at once (`process()` replaces its segments in every call, so
  `containsProperly` and the others that reach it are never read-only and
  `WarmCallsOnlyRead` is as far as sharing goes).
* *Of clusters*: how closeness is computed, and the geometries made of the
  result.
* *Of polygonizing*: invalid rings, the geometry that finds the hole's shell,
  `BuildArea`.
* *Lists of nodes along edges* (`SegmentNodeList`): sorted on demand by
  comparisons that are geometry.
* *Copying a built tree*, and the removed items the distance searches still
  read. Positions instead of pointers would hide the first, and the second needs
  no model to see.
* *Process-wide interrupt callback and message handlers*: a callback can do
  nothing that the model's environment does not already do at any time. Creating
  a context cancels a request, which the environment may do too.
* *The rest of the factory*, which builds geometries.

Every component with its reason is in `PROJECT.json`, which also lists the
hazards that no property covers.


## 8. Plan

What would come next, in the order of what matters most:

1. The part of `RingsAreSimple` that does not need the plane: `next` stays a
   permutation of the edges left while rings are taken apart, so that every edge
   is in one ring on each side.
2. `HalfEdge`: insertion in angular order, the ring against a sorted sequence.
3. `VertexSequencePackedRtree`, `KdTree`: a removal and a query of a packed
   array, equal to a scan.
4. Two threads in one prepared geometry, composed with the lazy index of
   `SharedIndex`.
5. Geometry collections and prepared mode in `RelateNG`.
