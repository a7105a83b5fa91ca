\* Polygons, lines and points, prepared; one exception somewhere.
SPECIFICATION PreparedSpec
CONSTANTS
  Coordinate <- WiderPlane
  LeftFace <- WiderFaces
  Shape <- Shapes
  Target <- Targets
  Test <- TestGeometries
  Collections = {}
  MaxFailures = 1
INVARIANTS AnswerIsTruth BuiltIndexIsWhole
PROPERTY WarmCallsOnlyRead
