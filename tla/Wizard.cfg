SPECIFICATION Spec
CONSTANTS
    StartOptions <- MCStartOptions
    CheckpointOptions <- MCCheckpointOptions
    FinishOptions <- MCFinishOptions
    MaxFiles = 3
INVARIANTS
    TypeOK
    LaterWins
    SameAsDirect
