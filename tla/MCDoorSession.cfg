SPECIFICATION FairSpec
CONSTANTS
  None = None
  SessionSeconds = 12
  Margin = 5
  IdleTimeout = 3
  MaxPoll = 2
  MaxWrite = 1
  MaxRead = 1
  MaxTime = 13
INVARIANTS
  TypeOK
  StopsInTime
  IdleCallerLeaves
  ExitTellsWhy
  CleanedUp
PROPERTY
  Ends
CHECK_DEADLOCK FALSE
