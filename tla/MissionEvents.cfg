SPECIFICATION Spec
CONSTANTS
    review = review
    digest = digest
    mention = mention
    push = push
    chat = chat
    hook = hook
    MissionIds = {review, digest}
    Events = {mention, push}
    Senders = {chat, hook}
    MaxFires = 2
    MaxThreads = 4
    MaxRestarts = 1
INVARIANTS
    RateOvershootIsBounded
PROPERTIES
    EventFiresOnce
CHECK_DEADLOCK FALSE
