SPECIFICATION FairSpec
CONSTANTS
  None = None
  PollInterval = 2
  InitialBackoff = 1
  MaxBackoff = 2
  Recording <- MCRecording
  MaxTime = 7
  MaxSnapshots = 8
  MaxPoll = 2
  MaxGap = 1
  MaxWrite = 1
  IdleSleep = 1
  MaxKeys = 2
INVARIANTS
  PolledInTime
  CleanedUp
PROPERTY
  QuitEnds
CHECK_DEADLOCK FALSE
