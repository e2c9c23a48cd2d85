SPECIFICATION FairSpec
CONSTANTS
    c1 = c1  c2 = c2  p = p  q = q
    Clients = {c1, c2}
    Polls = {p}
    Room <- OneRoom
    SendCap = 1
    RegisterCap = 1
    UnregisterCap = 1
    BroadcastCap = 1
    MaxMessages = 2
PROPERTIES
    LeaversEnd
    BroadcastReaches
    HubCatchesUp
CHECK_DEADLOCK FALSE
