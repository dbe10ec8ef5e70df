SPECIFICATION FairSpec
CONSTANTS
    User = {u1, u2}
    Chat = {c1}
    Key = {1, 2}
    Msg = {m1}
    Req = {r1, r2}
    MaxTime = 1
PROPERTIES RequestsEnd ExpiredMessagesGo IdleVersionsGo
