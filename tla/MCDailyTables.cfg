SPECIFICATION Spec
CONSTANTS
    g1 = g1
    w1 = w1
    w2 = w2
    Grids = {g1}
    Workers = {w1, w2}
    KeyDays = 2
    MaxFound = 3
    MaxRecounted = 1
    MaxLost = 1
    MaxDay = 3
SYMMETRY Symmetry
INVARIANTS
    TypeOK
    GridDatesAreExact
    EachEventCountedOnce
    TotalsGrow
