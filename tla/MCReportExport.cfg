SPECIFICATION Spec
CONSTANTS
    r1 = r1  r2 = r2  r3 = r3  r4 = r4  http = http  internal = internal  s3 = s3
    g1 = g1  g2 = g2  w1 = w1  w2 = w2
    Reports = {r1, r2, r3, r4}
    Groups = {g1, g2}
    GroupOf <- TwoGroups
    Lists = {internal, s3}
    Targets <- OwnTargets
    Batch <- OwnBatch
    Kind <- OwnKind
    Usable = {r1, r2}
    Workers = {w1, w2}
    MaxRetries = 1
    MaxMsgs = 1
SYMMETRY Symmetry
CHECK_DEADLOCK FALSE
INVARIANTS
    TypeOK
    OneStage
    QueuedIsUnsent
    ReceivedOncePerTry
