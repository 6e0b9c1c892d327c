SPECIFICATION FairSpec
CONSTANTS
    Hash <- MCHash
    InitialSize = 1
    Options <- MCOptions
INVARIANTS
    TypeOK
    OwnReply
    NothingFreedIsUsed
    Notified
PROPERTIES
    MessagesArrive
    Freed
