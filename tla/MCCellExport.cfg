SPECIFICATION Spec
CONSTANTS
    Tables = {1, 2}
    Cells = {1, 2, 3}
    PageSize = 2
    MaxHour = 2
INVARIANTS
    EveryRowExported
