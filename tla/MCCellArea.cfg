SPECIFICATION FairSpec
CONSTANTS
    c1 = c1  c2 = c2  a1 = a1  w1 = w1  w2 = w2
    Cells = {c1, c2}
    Areas = {a1}
    AreaOf <- OneArea
    Positions = {0, 1}
    Files <- OneFile
    Workers = {w1, w2}
    BatchSize = 1
    MaxCopies = 1
INVARIANTS
    TypeOK
    SettledIsAggregate
PROPERTIES
    AreasConverge
