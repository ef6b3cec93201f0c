SPECIFICATION ChainFairSpec
CONSTANTS
    c1 = c1
    c2 = c2
    primary = primary
    fallback = fallback
    Calls = {c1, c2}
    FailureThreshold = 3
    SuccessesNeeded = 2
    Providers <- PrimaryFirst
    CooldownThreshold = 2
PROPERTIES
    OpensAfterStreak
    ClosesAfterProbes
    UsesWorkingProvider
