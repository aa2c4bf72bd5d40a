\* Three versions of the file, any of which may come back; a built-in default.
CONSTANTS
    Builtin = {anna}
    Dynamic = {zoe, max}
    Default = anna
    Unknown = Unknown
    Readers = {r1}
    MaxVersions = 3
    MayRestore = TRUE
SPECIFICATION Spec
INVARIANTS
    TypeOK
    NoSilentStaleness
    NeverErrors
PROPERTY CaughtUp
