CONSTANTS
  MaxClient = 3
  First = 5
  Limit = 16
  AliasBit = 12
SPECIFICATION Spec
CHECK_DEADLOCK FALSE
INVARIANTS
  NoAliasing
  Accounted
  DiesLate
