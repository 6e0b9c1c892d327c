CONSTANTS
  ca = ca
  cb = cb
  cc = cc
  Client <- MCClient
  NoClient = NoClient
  Key <- MCKey
  Box <- MCBox
  user_list = "list"
  Accounts0 <- MCAccounts0
  Session0 <- MCSession0
  Lines <- MCLines
  Texts = {"hi"}
  NoMail = NoMail
  MaxInput = 5
  MaxOps = 3
SPECIFICATION Spec
CHECK_DEADLOCK FALSE
INVARIANTS
  AccountsListed
  Numbered
PROPERTIES
  PasswordsStay
  MailKept
