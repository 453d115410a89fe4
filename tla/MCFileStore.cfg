SPECIFICATION MCSpec
CONSTANTS
    Content = {c1}
    InodeId = {i1, i2}
    Receipt = {u1, u2}
    Attachment = {a1, a2}
    BlindDetach = {a2}
    Legacy = {i1}
    Request = {r1, r2}
    Batch = 1
    MaxFaults = 1
    None = None
INVARIANTS LinksCoverReferences RowsCanBeTrusted
PROPERTY StorageIsReclaimed
CHECK_DEADLOCK FALSE
