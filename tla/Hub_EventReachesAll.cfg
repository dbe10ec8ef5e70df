SPECIFICATION Spec
CONSTANTS
    User = {u1, u2}
    Conn = {c1, c2, c3}
    Notifier = {n1, n2}
    NoConn = NoConn
SYMMETRY Symmetry
PROPERTIES EventReachesAll
