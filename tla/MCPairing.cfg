SPECIFICATION FairSpec
CONSTANTS
    Users = {u1, u2}
    Handlers = {h1}
    AcceptRequests = "ask"
    LegacyPeer = FALSE
    MaxCommands = 2
    MaxPackets = 3
INVARIANTS
    PendingIsTimed
    HooksBalanced
    NoStaleIntent
PROPERTIES
    ExpiryEndsOwnRequest
    ImplementsContract
    RequestsSettle
CHECK_DEADLOCK FALSE
