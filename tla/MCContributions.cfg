SPECIFICATION Spec
CONSTANTS
    t1 = t1  t2 = t2  nick = nick  none = none  s1 = s1  g1 = g1
    w1 = w1  w2 = w2
    Tasks = {t1, t2}
    Nicks = {nick}
    NoNick = none
    Nick <- OneNick
    Stations = {s1}
    Observed <- OneStation
    Grids = {g1}
    Places <- OnePlace
    MaxRetries = 1
    ScoreWorkers = {w1, w2}
SYMMETRY Symmetry
CHECK_DEADLOCK FALSE
INVARIANTS
    TypeOK
    OneUserPerNickname
    ObservationsPushedOnce
    ObservedIsCredited
    CreditIsEarned
