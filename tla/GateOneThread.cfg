SPECIFICATION Spec
CONSTANTS
    t1 = t1
    t2 = t2
    w1 = w1
    w2 = w2
    Threads = {t1}
    Owned = {}
    Webs = {w1}
    MaxRequests = 3
    MaxExpiries = 1
    MaxRestarts = 1
    FileErrors = FALSE
INVARIANTS
    TypeOK
    RunsOnce
    InsertFindsFreeSlot
PROPERTIES
    ApprovalNeverSkipped
