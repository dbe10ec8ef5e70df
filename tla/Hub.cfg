SPECIFICATION FairSpec
CONSTANTS
    User = {u1}
    Conn = {c1, c2}
    Notifier = {n1, n2}
    NoConn = NoConn
INVARIANTS HubInv WritesToRegistered
PROPERTIES NotificationsEnd GoneAreClosed
