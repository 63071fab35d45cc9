SPECIFICATION LiveSpec
CONSTANTS
    t1 = t1
    t2 = t2
    Timers = {t1, t2}
    Shapes <- EasyShapes
    MaxMessages = 3
    Span = 4
    Quiet = 7
    Lag = 1
    Spurious = FALSE
    Drops = FALSE
INVARIANTS
    TypeOK
PROPERTIES
    DeliversWhole
    DeliversAll
