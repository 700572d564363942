\* A network error answers the POST.
\* The system may stop: a behaviour ends when its events are used up.
CONSTANTS
    Environments <- NetworkErrors
    MaxEvents = 4
SPECIFICATION Spec
INVARIANTS
    StaysUnsubscribed
CHECK_DEADLOCK FALSE
