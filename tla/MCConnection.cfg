SPECIFICATION Spec
CONSTANTS
    Scenarios <- MCScenarios
    LibraryTransports <- MCLibraryTransports
    DEFAULT_RECONNECT_LIMIT = 2
    MaxRetries = 2
    MaxContexts = 2
    MaxTokens = 3
    MaxMessages = 2
    MaxEvents = 4
INVARIANTS
    TypeOK
    OneLink
    StoppedStaysDown
    UserIsTold
    Resumes
    SessionToken
PROPERTY ImplementsContract
CHECK_DEADLOCK FALSE
