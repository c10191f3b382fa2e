SPECIFICATION FairSpec
CONSTANTS
  None = None
  MaxSignals = 3
INVARIANTS
  TypeOK
  Restored
PROPERTY
  SignalEnds
CHECK_DEADLOCK FALSE
