SPECIFICATION DeviceSpec
CONSTANTS
    Tab = {T1, T2}
    Task = {t1, t2}
    Identities = 2
    Keys = 2
    Versions = 2
    Uploads = 2
    Calls = 4
    NoTab = NoTab
    NoTask = NoTask
SYMMETRY MCSymmetry
INVARIANTS DeviceTypeOK IdentityOpens KeyIsKnown UndisturbedLookupsSucceed
CONSTRAINT OnlyUntilRaced
