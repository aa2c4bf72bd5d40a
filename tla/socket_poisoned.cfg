CONSTANTS
    Calls = {c1, c2}
    NoCall = NoCall
    MaxAttempts = 3
    Tries = 2
SPECIFICATION Safety
SYMMETRY CallSymmetry
INVARIANT ReplacedBeforeGivingUp
