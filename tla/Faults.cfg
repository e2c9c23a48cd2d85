SPECIFICATION Spec
CONSTANTS
    p1 = p1  p2 = p2  p3 = p3  p4 = p4  a = a  b = b  x = x  t1 = t1  t2 = t2
    alice = alice  bob = bob  draft = draft  final = final  none = none
    r1 = r1  r2 = r2  r3 = r3  r4 = r4
    Options = {a, b, x}
    Tokens = {t1, t2}
    Users = {alice, bob}
    Titles = {draft, final}
    NoPoll = NoPoll
    NoTitle = none
    InitialPolls <- OnlyP1
    Polls = {p1}
    Requests = {r1, r2, r3}
    Calls <- FaultCalls
    Faults = {"mongo", "redis", "resend", "crash", "flush"}
    MaxResend = 1
SYMMETRY Symmetry
INVARIANTS
    OneVotePerToken
    EventsNeverOverstate
PROPERTIES
    OverIsOver
    LedgerSpec
