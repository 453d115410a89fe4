SPECIFICATION Spec
CONSTANTS
    User = {u1}
    Token = {t1, t2, t3}
    Family = {f1}
    Request = {r1, r2}
    Operation = {"login", "refresh", "logoutAll"}
    MaxPassword = 0
    MaxFaults = 0
    None = None
SYMMETRY Interchangeable
PROPERTY RevokedSessionsEnd
CHECK_DEADLOCK FALSE
