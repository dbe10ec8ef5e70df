SPECIFICATION Spec
CONSTANTS
    User = {u1, u2, u3}
    Chat = {c1}
    Key = {1, 2}
    Msg = {m1, m2}
    Req = {r1, r2, r3}
    MaxTime = 0
SYMMETRY Symmetry
INVARIANT NothingForStrangers
