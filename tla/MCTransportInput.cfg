SPECIFICATION FairInput
CONSTANTS
  Units <- MCUnits
  MaxEscape = 6
  MaxTelnet = 6
  MaxBytes = 7
  MaxUnits = 3
INVARIANTS
  InputTypeOK
  BoundedBuffer
  Faithful
PROPERTY
  KeysArrive
CHECK_DEADLOCK FALSE
