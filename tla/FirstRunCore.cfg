SPECIFICATION Spec
CONSTANTS
    MaxStarts = 3
    Kills = TRUE
    Rebuilds = TRUE
INVARIANTS
    TypeOK
    SetupComplete
    ServesWhenReady
PROPERTIES
    BadTokenHarmless
