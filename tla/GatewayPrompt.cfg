SPECIFICATION Spec
CONSTANTS
    w1 = w1
    w2 = w2
    Workers = {w1, w2}
    MaxConns = 3
    MaxSeq = 2
    Coalesce = TRUE
    Prompt = TRUE
SYMMETRY Symmetry
INVARIANTS
    OneHandshake
    NoEarlyBeat
PROPERTIES
    RefusalFinal
