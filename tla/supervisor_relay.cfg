\* Launched by relay, a crash after the Hello: the secret is used up.
CONSTANTS
    MaxSpawns = 4
    MaxSignals = 2
SPECIFICATION Spec
PROPERTY SelfHeals
