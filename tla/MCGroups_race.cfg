CONSTANTS
  p1 = p1
  p2 = p2
  p3 = p3
  NoName = NoName
  Child <- ThreeChildren
  Names <- MCNames
  Account <- Sessions
  Newcomers = {"g"}
  Rank <- MCRank
  Typed <- OneGroup
  Lists <- SomeMembers
  Commands <- All
  MaxOps = 6
SPECIFICATION Spec
CHECK_DEADLOCK FALSE
INVARIANTS
  StillOwner
  Agreement
PROPERTIES
  ChangedByOwner
  AccountsStay
