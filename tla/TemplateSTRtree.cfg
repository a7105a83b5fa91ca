\* Three leaves of capacity two, two items of which equal ones may be inserted,
\* every order of ties, and as many removals as there are leaves; and five
\* leaves of one item: three levels above the leaves, so that the sorts of the
\* upper levels move nodes that have children.
SPECIFICATION Spec
CONSTANTS
  nodeCapacity = 2
  Item = {a, b}
  Envelope <- PointBarPoint
  Null = Null
  NullEnvelope = Null
  TwoDimensional = TRUE
  MaxItems = 5
  Limits = {1, 99}
  MaxRemoved = 3
  Careful = TRUE
CONSTRAINT TallTreesAreSimple
INVARIANTS TypeOK TreeShape
PROPERTY ActsAsIndex
SYMMETRY ItemSymmetry
