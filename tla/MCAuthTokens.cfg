SPECIFICATION MCSpec
CONSTANTS
    User = {u1}
    Token = {t1, t2}
    Family = {f1, f2}
    Request = {r1, r2}
    Operation = {"login", "refresh", "logout", "logoutAll", "revoke", "password", "deactivate", "expire"}
    MaxPassword = 1
    MaxFaults = 1
    None = None
SYMMETRY Interchangeable
INVARIANT RotationHolds
PROPERTY AccessEnds
CHECK_DEADLOCK FALSE
