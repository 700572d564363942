\* Two calls and one promise, on a clock that runs from two to seven.
\* The system may stop: a behaviour ends when its time is up.
CONSTANTS
    tokenRefreshMargin = 1
    retryDelay = 1
    maxRetryCount = 1
    TRASH_NEW_TOKEN_DELAY = 1
    authErrorsDebouncePeriod = 2
    Calls = {c1, c2}
    Promises = {p1}
    Lifetimes = {0, 3}
    FirstExpiries = {0, 3}
    Environments <- MCEnvironments
    MaxTime = 7
SYMMETRY CallSymmetry
SPECIFICATION Spec
INVARIANTS
    TypeOK
    RefreshCycle
    NotSentExpired
    QueueMoves
    NewTokenForRetry
PROPERTIES
    FirstComeFirstSent
    RefusalsAreSpaced
    NoNeedlessRefresh
CHECK_DEADLOCK FALSE
