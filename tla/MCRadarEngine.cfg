SPECIFICATION FairSpec
CONSTANTS
  None = None
  PollInterval = 2
  InitialBackoff = 1
  MaxBackoff = 2
  Recording <- MCRecording
  MaxTime = 5
  MaxSnapshots = 3
  Icao = {a, b}
  MaxTracksArg = 1
  PositionStaleAge = 1
  AircraftStaleAge = 1
  RemovalAge = 2
  EmergencyRetentionAge = 1
  MaxBatch = 2
INVARIANTS
  AppliedOnce
  LiveNeverRejected
PROPERTIES
  ReplayCompletes
CHECK_DEADLOCK FALSE
