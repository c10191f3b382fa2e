SPECIFICATION Spec
CONSTANTS
  Icao = {a, b, c}
  Time <- MCTime
  None = None
  MaxTracksArg = 2
  PositionStaleAge = 1
  AircraftStaleAge = 1
  RemovalAge = 2
  EmergencyRetentionAge = 1
  MaxBatch = 2
SYMMETRY Symmetry
INVARIANTS
  TypeOK
  BoundedTable
  TimesMatchData
  ShownIsFresh
PROPERTY
  ImplementsTable
