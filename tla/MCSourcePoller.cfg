SPECIFICATION Spec
CONSTANTS
  None = None
  PollInterval = 2
  InitialBackoff = 1
  MaxBackoff = 3
  Recording <- MCRecording
  MaxTime = 8
  MaxSnapshots = 4
INVARIANTS
  TypeOK
  BackoffLaw
  ScheduleConsistent
  
CHECK_DEADLOCK FALSE
