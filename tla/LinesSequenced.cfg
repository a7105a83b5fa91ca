\* Lines are put in sequence whenever there is one.
SPECIFICATION Spec
CONSTANTS
  NewLines <- LinesToAdd
  MaxLines = 4
  MaxMerges = 2
  ListsOfLines <- ListsBetweenNodes
  PlanarGraphs <- SmallDrawings
INVARIANT SequencedWheneverPossible
CHECK_DEADLOCK FALSE
