\* Two threads whose stores others may see out of order, or a search of any two
\* of the trees with item distances that respect the envelopes: every call ends.
SPECIFICATION SpecAll
CONSTANTS
  Thread = {t1, t2}
  NoThread = NoThread
  nodeCapacity = 2
  MaxItems = 4
  MaxCalls = 2
  StoresOrdered = FALSE
  Nil = Nil
  Node <- TreeNodes
  Root <- TreeRoots
  Null = Nil
  Children <- TreeChildren
  Items <- TreeItems
  BoundsDistance <- Gaps
  BoundsMaximum <- Reaches
  Size <- Sizes
  Metrics <- EnvelopeMetrics
  Ranges = {2, 4}
  Infinity = 99
INVARIANTS LockedAnswersFromWholeTree NothingIsLost NearestIsNearest WithinIsExact
PROPERTIES LazyBuildIsInvisible CallsReturn SearchEnds
CHECK_DEADLOCK FALSE
