SPECIFICATION Spec
CONSTANTS
    h1 = h1
    h2 = h2
    z1 = z1
    z2 = z2
    z3 = z3
    z4 = z4
    Handlers = {h1, h2}
    Names = {z1, z2, z3, z4}
    Requests <- MCRequests
    Topics = {"manifest", "help"}
    Lengths <- MCLengths
    Restarts = 1
SYMMETRY Symmetry
INVARIANTS
    TypeOK
    AnsweredOnce
    TmpIsTransient
    OnlyJsonKills
    PagesExist
    PagesNavigable
PROPERTIES
    MapSettles
