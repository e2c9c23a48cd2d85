SPECIFICATION Spec
CONSTANTS
    c1 = c1  c2 = c2  p = p  q = q
    Clients = {c1, c2}
    Polls = {p, q}
    Room <- OneRoom
    SendCap = 1
    RegisterCap = 1
    UnregisterCap = 1
    BroadcastCap = 1
    MaxMessages = 3
SYMMETRY Symmetry
INVARIANTS
    TypeOK
    NoPanic
    MissedMeansEviction
    NothingLostOnTheWay
CHECK_DEADLOCK FALSE
