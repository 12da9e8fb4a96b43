SPECIFICATION Spec
CONSTANTS
    Account = {a1}
    Device = {d1, d2}
    Session = {s1, s2}
    Pair = {p1, p2, p3}
    Request = {r1, r2}
    NoSession = NoSession
    AccessTtl = 1
    RefreshTtl = 1
    MaxTime = 1
    MaxLimit = 2
    MaxPassword = 2
    KilledMidway = TRUE
SYMMETRY Symmetry
INVARIANTS
    TypeOK
    ReuseIsDetectable
    SessionsHaveOwners
    OneLiveSessionPerDevice
    DeviceLimitHolds
    AccessIsCounted
PROPERTIES
    LoginTouchesOnlyItsDevice
    ImplementsFamilies
