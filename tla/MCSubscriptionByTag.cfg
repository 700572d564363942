\* A subscribe queued behind an unsubscribe by tag.
\* The system may stop: a behaviour ends when its events are used up.
CONSTANTS
    Environments <- ByTagOnly
    MaxEvents = 4
SPECIFICATION Spec
INVARIANTS
    StaysSubscribed
CHECK_DEADLOCK FALSE
