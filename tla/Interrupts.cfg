\* Two threads, three contexts, calls nested two deep.  All ladders, with up to
\* two requests; up to five passes before the number of nodes must decline; a
\* factory and four geometries that three threads share.
SPECIFICATION SpecAll
CONSTANTS
  Thread = {t1, t2}
  Context = {c1, c2, c3}
  NoContext = NoContext
  MaxDepth = 2
  MaxRequests = 1
  NUM_SNAP_TRIES = 5
  MAX_PRECISION_DIGITS = 12
  MIN_PRECISION_DIGITS = 6
  MaxAsked = 2
  MaxIters = {0, 1, 5}
  MaxNodes = 12
  User = {t1, t2, t3}
  Geometry = {g1, g2, g3, g4}
INVARIANTS NoStaleCallback AskedIsNewest FailsOnlyWhenAllFail OthersEndTheCall
  PassesAreBounded OutlivesChildren DeletedOnce NotLeaked
