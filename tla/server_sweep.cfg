\* Two daemons start side by side.
SPECIFICATION Safety
CONSTANTS
    Daemons = {d1, d2}
    Idle = {d1}
    MaxDirs = 2
    NoOne = NoOne
    MaxStarts = 2
INVARIANT ListenersAreReachable
CHECK_DEADLOCK FALSE
