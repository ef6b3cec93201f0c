SPECIFICATION FairSpec
CONSTANTS
    t1 = t1
    t2 = t2
    w1 = w1
    w2 = w2
    Threads = {t1}
    Owned = {}
    Webs = {w1}
    MaxRequests = 2
    MaxExpiries = 1
    MaxRestarts = 0
    FileErrors = TRUE
PROPERTIES
    RouterReturns
