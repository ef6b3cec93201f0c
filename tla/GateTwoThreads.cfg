SPECIFICATION Spec
CONSTANTS
    t1 = t1
    t2 = t2
    w1 = w1
    w2 = w2
    Threads = {t1, t2}
    Owned = {t1}
    Webs = {}
    MaxRequests = 2
    MaxExpiries = 0
    MaxRestarts = 1
    FileErrors = TRUE
INVARIANTS
    GateOwnerIsWaiting
    RunsAreSettled
