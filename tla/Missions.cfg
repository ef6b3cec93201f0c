SPECIFICATION Spec
CONSTANTS
    digest = digest
    chat = chat
    review = review
    MissionIds = {digest}
    Cron = {digest}
    Senders = {chat}
    MaxPerDay = 2
    MaxConcurrent = 1
    MaxThreads = 2
    MaxDays = 1
    MaxUpsets = 1
INVARIANTS
    TypeOK
    CountedOnce
PROPERTIES
    NoRefireWhileCool
CHECK_DEADLOCK FALSE
