\* Three threads, two calls each, up to six items: trees of one to four levels,
\* a level whose slices fill differently from the level as a whole.
SPECIFICATION Spec
CONSTANTS
  Thread = {t1, t2, t3}
  NoThread = NoThread
  nodeCapacity = 2
  MaxItems = 6
  MaxCalls = 2
  StoresOrdered = TRUE
SYMMETRY ThreadSymmetry
CHECK_DEADLOCK FALSE
INVARIANTS AnswersFromWholeTree NoOrphans ReserveSuffices
PROPERTY BuiltTreeIsFrozen
