\* Three daemons, one of them with an idle timeout, and three processes in all;
\* TLC stops at the bound on starts.
SPECIFICATION Spec
CONSTANTS
    Daemons = {d1, d2, d3}
    Idle = {d1}
    MaxDirs = 2
    NoOne = NoOne
    MaxStarts = 3
INVARIANTS
    TypeOK
    SweepLeavesNoDead
    SweepSparesListeners
    OrderlyEndCleansUp
    OneLateConnection
PROPERTIES
    StartupEnds
    IdleEnds
CHECK_DEADLOCK FALSE
