\* Two clients at once, the code's own limits: 3 attempts of 2 tries each.
CONSTANTS
    Calls = {c1, c2}
    NoCall = NoCall
    MaxAttempts = 3
    Tries = 2
SPECIFICATION Spec
INVARIANTS
    TypeOK
    OwnAnswer
    OneExchange
    PostBound
    RetryOnlyBusy
    FreshBeforeUnreachable
PROPERTIES
    CallEnds
    Implements
