SPECIFICATION Spec
CONSTANTS
    c1 = c1
    c2 = c2
    c3 = c3
    c4 = c4
    c5 = c5
    Calls = {c1, c2, c3, c4, c5}
    NoCall = NoCall
    Puts = {c1, c2}
    WithHeaders = {c1, c2}
    Cloud = {c5}
    Others = {c4, c5}
    servicePath <- MCServicePath
    methods <- MCMethods
    Environments <- MCEnvironments
INVARIANTS
    RightAnswer
PROPERTIES
    NotRepeated
    PutsWait
    EventuallySettled
CHECK_DEADLOCK FALSE
