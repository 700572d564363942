\* A reset while a PATCH is in flight.
\* The system may stop: a behaviour ends when its events are used up.
CONSTANTS
    Environments <- PatchAndReset
    MaxEvents = 4
SPECIFICATION Spec
INVARIANTS
    StaysSubscribed
CHECK_DEADLOCK FALSE
