SPECIFICATION Spec
CONSTANTS
  Aircraft = {e, n, g}
  Emergency = {e}
  SaysNone = {n}
  Ground = {g}
  Plot = {p, q}
  Rows = 2
  Covered = {p}
  None = None
INVARIANTS
  TypeOK
  ScreenIsFrame
  SelectionShown
  AlarmOnTop
