CONSTANTS
  k1 = k1
  k2 = k2
  Main = Main
  Child <- MCChild
  None = None
  MaxCalls = 3
SPECIFICATION Spec
CHECK_DEADLOCK FALSE
INVARIANTS
  CleanContexts
  AnswerElsewhere
PROPERTIES
  CallsSpec
  Returns
