CONSTANTS
  c1 = c1
  c2 = c2
  c3 = c3
  NoClient = NoClient
  Client <- ThreeClients
  MaxClient = 2
  Names <- OneName
  Groups <- MCGroups
  Members <- MCMembers
  Texts <- JustHi
  Commands = {"tell", "yell"}
  Departures = {"quit", "abrupt", "hangup"}
  MaxReq = 3
  Cap = 6
  Handler = TRUE
  PromptExit = TRUE
SPECIFICATION Spec
SYMMETRY Symmetric3
CHECK_DEADLOCK FALSE
INVARIANTS
  TableInv
  OneChildPerSlot
  OwnMessagesOnly
  InStep
  DiesOnlyAfterDeparture
PROPERTY
  SeatsSpec
