SPECIFICATION Spec
CONSTANTS
    t1 = t1
    t2 = t2
    Timers = {t1, t2}
    Shapes <- TwoFull
    MaxMessages = 1
    Span = 4
    Quiet = 7
    Lag = 1
    Spurious = FALSE
    Drops = FALSE
SYMMETRY Symmetry
INVARIANTS
    HandledOnce
