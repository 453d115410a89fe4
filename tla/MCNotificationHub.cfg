SPECIFICATION FairSpec
CONSTANTS
    u1 = u1
    User = {u1}
    Client = {c1, c2}
    Owner <- OneConnected
    Notification = {n1, n2}
    Sender = {p1}
    maxConnectionsPerUser = 1
    SendBuffer = 1
    None = None
INVARIANTS NeverPanics NoGapUnlessLeaving
PROPERTY NothingWaitsForever
CHECK_DEADLOCK FALSE
