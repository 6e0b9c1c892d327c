CONSTANTS
  c1 = c1
  c2 = c2
  NoClient = NoClient
  Client <- TwoClients
  MaxClient = 2
  Names <- MCNames
  Groups = {}
  Members <- MCMembers
  Texts <- AllTexts
  Commands = {"who", "name"}
  Departures = {"quit", "abrupt"}
  MaxReq = 3
  Cap = 6
  Handler = FALSE
  PromptExit = FALSE
SPECIFICATION SpecV2
CHECK_DEADLOCK FALSE
INVARIANTS
  Undisturbed
  NamesDistinct
PROPERTY
  Accepted
