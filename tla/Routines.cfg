SPECIFICATION FairSpec
CONSTANTS
    nightly = nightly
    onMention = onMention
    Routines = {nightly, onMention}
    Cron = {nightly}
    FullJob = {nightly}
    MaxConcurrent = 1
    MaxGlobal = 1
    MaxRuns = 2
    MaxFaults = 1
    MaxRestarts = 1
INVARIANTS
    TypeOK
    LiveRowIsOwned
    JobHoldsItsRun
PROPERTIES
    FinalStatusStays
    RunFollowsJob
