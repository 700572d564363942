\* Queues of up to six items.
CONSTANT
    MaxLength = 6
SPECIFICATION Spec
INVARIANTS
    ClosedForms
    LastRequestWins
    ForcedIsKept
