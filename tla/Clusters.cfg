\* Every graph of near components among five, every graph of curves among four
\* nodes with lengths one and two.
SPECIFICATION SpecAll
CONSTANTS
  components = 5
  Input <- Inputs
  Node <- Nodes
  CurveLists <- ListsOfCurves
INVARIANTS IdsAreClusters
  SpansMinimally NumbersAreComponents
PROPERTY ClustersGrowAsPromised
