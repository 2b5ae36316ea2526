SPECIFICATION Spec
CONSTANTS
    MaxItems = 4
    Batches = {0, 1, 2}
    QueueTTL = 4
    MaxAge = 2
INVARIANTS
    OldDataIsEnough
