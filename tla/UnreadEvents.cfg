SPECIFICATION EventFairSpec
CONSTANTS
    c1 = c1
    c2 = c2
    m1 = m1
    m2 = m2
    Chat = {c1, c2}
    Msg = {m1, m2}
    ChatOf <- MCChatOf
    Expiring = {m1}
    InFlight = 2
INVARIANTS EventTypeOK CountsCatchUp
PROPERTY CountsArrive
CHECK_DEADLOCK FALSE
