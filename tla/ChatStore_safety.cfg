SPECIFICATION Spec
CONSTANTS
    User = {u1, u2, u3}
    Chat = {c1}
    Key = {1, 2, 3}
    Msg = {m1}
    Req = {r1, r2}
    MaxTime = 1
SYMMETRY Symmetry
INVARIANTS StoreInv MemberHoldsEveryKey
PROPERTIES StaysReadable PurgeSparesNewest FollowsRoster
