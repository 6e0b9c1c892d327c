CONSTANTS
  c1 = c1
  c2 = c2
  c3 = c3
  NoClient = NoClient
  Client <- TwoClients
  MaxClient = 2
  Names <- TwoNames
  Groups <- MCGroups
  Members <- MCMembers
  Texts <- AllTexts
  Commands = {"who", "tell", "yell", "name", "gyell", "shell"}
  Departures = {"quit", "abrupt", "hangup"}
  MaxReq = 2
  Cap = 6
  Handler = TRUE
  PromptExit = TRUE
SPECIFICATION FairSpec
CHECK_DEADLOCK FALSE
INVARIANT
  InStep
PROPERTY
  Answered
