\* Is the original exception thrown when an overlay gives up?
SPECIFICATION AttemptsSpec
CONSTANTS
  NUM_SNAP_TRIES = 5
  MAX_PRECISION_DIGITS = 12
  MIN_PRECISION_DIGITS = 6
  MaxAsked = 2
INVARIANT ThrowsTheOriginal
