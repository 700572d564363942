\* An update that does not parse.
\* The system may stop: a behaviour ends when its events are used up.
CONSTANTS
    Environments <- BadUpdates
    MaxEvents = 4
SPECIFICATION Spec
INVARIANTS
    StaysSubscribed
CHECK_DEADLOCK FALSE
