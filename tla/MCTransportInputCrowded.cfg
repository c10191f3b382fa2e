SPECIFICATION FairInput
CONSTANTS
  Units <- MCPressed
  MaxEscape = 6
  MaxTelnet = 6
  MaxBytes = 9
  MaxUnits = 3
INVARIANT
  EveryKeyOfARead
CHECK_DEADLOCK FALSE
