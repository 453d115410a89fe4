SPECIFICATION MCSpec
SYMMETRY Interchangeable
CONSTANTS
    k1 = k1
    k2 = k2
    p1 = p1
    p2 = p2
    p3 = p3
    Key = {k1, k2}
    Permission = {p1, p2, p3}
    KeyOf <- Pair
    Default = {p1, p3}
    Request = {r1}
    Call = {w1, w2}
    MaxFaults = 1
    None = None
    free = free
    basic = basic
    Tier = {free, basic}
    seats = seats
    Limit = {seats, bytes}
    StoredLimit = {seats}
    Administrator = {a1, a2, a3, a4}
    NoOverride = NoOverride
    Value = {1, 2}
    MaxUpdateRetries = 3
    Change <- Changes
    Unedited = Unedited
INVARIANTS FreshUnlessSpoiled ChangesAreChained
PROPERTY TableIsWhatWasAsked
CHECK_DEADLOCK FALSE
