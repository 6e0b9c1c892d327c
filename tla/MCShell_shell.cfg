CONSTANTS
  Lines <- MCLines
  Numeral = {"1", "7"}
  Writes <- MCWrites
  Failing = {"false"}
  Typed = 2
  Cap = 3
  MsgSize = 2
  Base = 4
  Limit = 10
  MaxLines = 3
SPECIFICATION FairSpec
CHECK_DEADLOCK FALSE
INVARIANTS
  Delivered
  NumberedNeverRun
  LeaksOnePerCommand
PROPERTIES
  Finishes
