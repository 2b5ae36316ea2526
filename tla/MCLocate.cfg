SPECIFICATION Spec
CONSTANTS
    r1 = r1  r2 = r2  r3 = r3  c1 = c1  w1 = w1  w2 = w2  w3 = w3
    notfound = notfound  nothing = nothing
    Requests = {r1, r2, r3}
    Cells = {c1}
    Wifis = {w1, w2, w3}
    Queries <- MixedOrPure
    MaxCachedWifis = 3
    Places <- TwoLatitudes
    NotFound = notfound
    Nothing = nothing
    MaxReq = 2
    DayLength = 4
    Limit = 1
    Interval = 2
    Expire = 2
    CacheExpire = 2
    MaxTime = 3
SYMMETRY Symmetry
CHECK_DEADLOCK FALSE
INVARIANTS
    TypeOK
    CallsWithinLimit
    ServedWithinMaxreq
PROPERTIES
    HitsAreCurrent
