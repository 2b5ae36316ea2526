SPECIFICATION FairSpec
CONSTANTS
    o1 = o1  o2 = o2  o3 = o3  o4 = o4  o5 = o5
    s1 = s1  s2 = s2  a1 = a1  w1 = w1  w2 = w2
    Positions <- MCPositions
    Areas = {a1}
    AreaOf <- OneArea
    Obs = {o1, o2, o3, o4}
    Stations = {s1}
    StationOf <- FourOfOne
    PosOf <- TwoMoves
    Workers = {w1}
    BatchSize = 2
    MaxTasks = 1
    MaxDay = 3
    MaxDist = 1
    TempDuration = 1
    PermThreshold = 2
INVARIANTS
    NewStationsAreCounted
PROPERTIES
    BlockedRowIsFrozen
    QueueDrains
    ImplementsAtMostOnce
