SPECIFICATION Spec
CONSTANTS
    t1 = t1
    t2 = t2
    Timers = {t1, t2}
    Shapes <- PairShapes
    MaxMessages = 2
    Span = 4
    Quiet = 13
    Lag = 1
    Spurious = TRUE
    Drops = TRUE
SYMMETRY Symmetry
INVARIANTS
    NeverMixed
    MisuseNeedsRace
    NothingLeftOver
