SPECIFICATION FairSpec
CONSTANTS
  None = None
  MaxSignals = 0
INVARIANT
  CursorRestored
CHECK_DEADLOCK FALSE
