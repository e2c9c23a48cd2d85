SPECIFICATION Spec
CONSTANTS
    c1 = c1  c2 = c2  p = p  q = q
    Clients = {c1}
    Polls = {p}
    Room <- OneRoom
    SendCap = 2
    RegisterCap = 1
    UnregisterCap = 1
    BroadcastCap = 1
    MaxMessages = 3
INVARIANTS
    ConnectedClientsUpdate
