SPECIFICATION Spec
CONSTANTS
    User = {u1}
    Tenant = {t1}
    Sub = {s1, s2}
    Worker = {w1, w2}
    MaxBusy = 2
    TenantOf <- MCTenantOf
    Opening = {"active", "canceled"}
    Target = {"canceled"}
    NoSub = NoSub
    Keep = Keep
INVARIANTS
    TypeOK
    PointersWhole
    OneRunning
    UserFollows
PROPERTIES
    TrialEnds
