SPECIFICATION Spec
CONSTANTS
  NewLines <- LinesToAdd
  MaxLines = 4
  MaxMerges = 2
  ListsOfLines <- ListsBetweenNodes
  PlanarGraphs <- SmallDrawings
INVARIANTS StringsAreLines SewnWherePossible SequencesAreTrails AnswerIsEulers
  DanglesAndCutsAreAll RingsAreSimple NothingElseIsExtracted
CHECK_DEADLOCK FALSE
