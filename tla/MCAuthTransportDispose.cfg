\* A provider disposed of while it waits for a token.
\* The system may stop: a behaviour ends when its time is up.
CONSTANTS
    tokenRefreshMargin = 1
    retryDelay = 1
    maxRetryCount = 1
    TRASH_NEW_TOKEN_DELAY = 1
    authErrorsDebouncePeriod = 2
    Calls = {c1, c2}
    Promises = {p1}
    Lifetimes = {0, 3}
    FirstExpiries = {0, 3}
    Environments <- Disposing
    MaxTime = 7
SPECIFICATION Spec
INVARIANTS
    DisposedStaysStopped
CHECK_DEADLOCK FALSE
