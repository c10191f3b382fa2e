SPECIFICATION FairSpec
CONSTANTS
  Record = {a, b}
  Long = {b}
  Bad = Bad
  None = None
  MaxWrites = 3
  MaxRedirects = 1
INVARIANTS
  TypeOK
  ReadableUnlessOdd
  AcknowledgedKept
  RecordedFirst
PROPERTIES
  ImplementsLog
  CommandEnds
CHECK_DEADLOCK FALSE
