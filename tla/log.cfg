\* Three calls at once, RELAY_LOG_LEVEL=debug.
CONSTANTS
    Calls = {c1, c2, c3}
    NoCall = NoCall
    StartLevel = "debug"
SPECIFICATION Spec
INVARIANTS
    TypeOK
    AtMostOneWarning
    DebugEnds
    Filtering
PROPERTY EndIsLogged
