\* Every environment in which some property promises something.
\* The system may stop: a behaviour ends when its events are used up.
CONSTANTS
    Environments <- MCEnvironments
    MaxEvents = 5
SPECIFICATION Spec
INVARIANTS
    TypeOK
    NeverStuck
    PostAlone
    ReadyIsQuiet
    ServerAgrees
    KeepsWanted
    DropsUnwanted
    SnapshotBeforeDelta
    SnapshotDelivered
PROPERTIES
    DisposedStaysSilent
CHECK_DEADLOCK FALSE
