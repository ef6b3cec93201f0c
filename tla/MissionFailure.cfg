SPECIFICATION Spec
CONSTANTS
    digest = digest
    chat = chat
    review = review
    MissionIds = {digest}
    Cron = {digest}
    Senders = {chat}
    MaxPerDay = 1
    MaxConcurrent = 1
    MaxThreads = 2
    MaxDays = 1
    MaxUpsets = 0
PROPERTIES
    FailureIsDurable
CHECK_DEADLOCK FALSE
