SPECIFICATION Spec
CONSTANTS
    Key = {k1, k2}
    Req = {r1, r2}
    Cost = 2
    Cap = 4
    MinIdle = 5
    SweepInterval = 2
    Lag = 1
    MaxClock = 12
SYMMETRY Symmetry
INVARIANTS LimiterInv WithinBurst
PROPERTIES RefusesOnlyTheSpent RetryAfterIsHonest
