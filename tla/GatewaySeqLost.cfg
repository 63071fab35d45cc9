SPECIFICATION Spec
CONSTANTS
    w1 = w1
    w2 = w2
    Workers = {w1, w2}
    MaxConns = 2
    MaxSeq = 1
    Coalesce = FALSE
    Prompt = TRUE
SYMMETRY Symmetry
INVARIANTS
    ResumeIsCurrent
