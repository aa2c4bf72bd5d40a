\* Launched by relay or by hand; four daemons at most.
CONSTANTS
    MaxSpawns = 4
    MaxSignals = 2
SPECIFICATION Spec
INVARIANTS
    TypeOK
    OneDaemon
    NoOrphans
    ServesBound
    RefusalIsFinal
PROPERTY CrashIsAnswered
