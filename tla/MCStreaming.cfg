SPECIFICATION Spec
CONSTANTS
    Environments <- MCEnvironments
    MaxSubscriptions = 3
    MaxTime = 7
    MaxEvents = 3
    startDelay = 1
    MAX_UPDATE_DELAY = 2
    InactivityTimeout = 3
    Infinity = 100
INVARIANTS
    TypeOK
    NeverAbandoned
    Informed
    ServerAgrees
    OrphansWillBeFound
PROPERTIES
    OneConnection
CHECK_DEADLOCK FALSE
