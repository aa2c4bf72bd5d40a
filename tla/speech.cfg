\* Settings of the engine of every transport, files with odd, refused and repeating rows,
\* callers with and without wishes of their own.
SPECIFICATION Spec
CONSTANTS
    Absent = Absent
    Junk = Junk
    NaN = NaN
    Builtin <- MCBuiltin
    Aliases <- MCAliases
    Default = "anna"
    Files <- MCFiles
    Names <- MCNames
    Numbers = {0, 40}
    Setups <- MCSetups
INVARIANTS
    TypeOK
    MergeIsFaithful
    VoiceIsFaithful
    DeliversWhatWasAsked
    OnlyOwnRecordings
    PeerIsVerified
