CONSTANTS
  c1 = c1
  c2 = c2
  c3 = c3
  NoClient = NoClient
  Client <- ThreeClients
  MaxClient = 2
  Names <- OneName
  Groups <- MCGroups
  Members <- MCMembers
  Texts <- JustHi
  Commands = {"who"}
  Departures = {"quit"}
  MaxReq = 1
  Cap = 6
  Handler = FALSE
  PromptExit = FALSE
SPECIFICATION Spec

CHECK_DEADLOCK FALSE
INVARIANT
  OneChildPerSlot
