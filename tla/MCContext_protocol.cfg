SPECIFICATION Spec
CONSTANTS
    Limits <- MCLimits
    MaxPrealloc = 4
    FormatSize = 6
    StaticBuf = 4
    LLongMax = 8
    MaxElements = 6
    MaxBuf = 8
    Discard = 6
    StackSize = 1
    DoubleBuf = 4
    Doubles <- MCDoubles
    Options <- MCOptions
    Calls <- MCCalls
    Replies <- MCReplies
    Pushes <- MCPushes
    Malformed <- MCMalformed
    Addresses = 2
    Retries = 2
    Sent = {5}
    Read = {1}
INVARIANTS
    CommandsArrive
    RepliesInOrder
    SocketsOwned
    NothingWithheld

