\* What Polygonizer.h and geos_c.h say of polygons that are extracted.
SPECIFICATION Spec
CONSTANTS
  NewLines <- LinesToAdd
  MaxLines = 4
  MaxMerges = 2
  ListsOfLines <- ListsBetweenNodes
  PlanarGraphs <- SmallDrawings
INVARIANT ExtractedAsPromised
CHECK_DEADLOCK FALSE
