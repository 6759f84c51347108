SPECIFICATION Spec
CONSTANTS
    Nobody = Nobody
    u1 = u1
    u2 = u2
    k1 = k1
    k2 = k2
    k3 = k3
    r1 = r1
    r2 = r2
    Users = {u1, u2}
    Keys = {k1, k2}
    Requests = {r1, r2}
    Visitors <- AllVisitors
    Gap = 1
    SessionAge = 2
    CacheTime = 1
    Horizon = 3
    MaxRows = 3
SYMMETRY Symmetry
\* Keys, rows and time run out.
CHECK_DEADLOCK FALSE
CONSTRAINT Budget
INVARIANTS
    ListedAreOwn
    OverviewComplete
    SessionsAreChains
