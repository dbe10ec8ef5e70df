SPECIFICATION Spec
CONSTANTS
    c1 = c1
    c2 = c2
    m1 = m1
    m2 = m2
    o1 = o1
    Chat = {c1, c2}
    Msg = {m1, m2, o1}
    Own = {o1}
    ChatOf <- MCChatOf
    Expiring = {m1}
    Joined = {c1}
    InFlight = 1
    MsgLoads = 2
    NoChat = NoChat
    Absent = Absent
INVARIANTS PageTypeOK PanelIsOfOpenChat RemovedStaysOut OpenChatIsComplete
CHECK_DEADLOCK FALSE
CONSTRAINT MCBound
