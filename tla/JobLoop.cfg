SPECIFICATION Spec
CONSTANTS
    b1 = b1
    b2 = b2
    Batches = {b1, b2}
    MaxIterations = 5
    MaxNudges = 1
    MaxRateLimits = 2
    ForceTextAt = 3
    Truncations = 3
    PlanLength = 1
    MaxMessages = 2
CHECK_DEADLOCK FALSE
INVARIANTS
    TypeOK
    TextOnlyAfterTwo
    TrackerCountsRepeats
    ReadInOrder
PROPERTIES
    StepsAreOfLifecycle
