\* A gain of 0, or below, which is clamped to 0.
SPECIFICATION Spec
CONSTANTS
    Absent = Absent
    Junk = Junk
    NaN = NaN
    Builtin <- MCBuiltin
    Aliases <- MCAliases
    Default = "anna"
    Files <- MCFiles
    Names <- MCNames
    Numbers = {0, 40}
    Setups <- MCSetups
INVARIANT GainIsHonoured
