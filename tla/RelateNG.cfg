\* Pairs of points, lines and areas of every kind of contact, empty ones too.
SPECIFICATION Spec
CONSTANTS
  Coordinate <- Plane
  LeftFace <- Faces
  Shape <- Shapes
  Predicates <- Evaluated
INVARIANTS AnswerIsDocumented NothingIsInvented MatrixIsComplete KnownIsFinal
CHECK_DEADLOCK FALSE
