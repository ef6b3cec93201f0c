SPECIFICATION FairSpec
CONSTANTS
    j1 = j1
    j2 = j2
    u1 = u1
    NoJob = NoJob
    Jobs = {j1}
    Users = {u1}
    Owner <- MCOneUser
    HasStore = TRUE
    MaxJobs = 1
    MaxParallel = 2
    MaxPerUser <- MCNoUserLimit
    MaxRepair = 2
    MaxHelps = 2
INVARIANTS
    OneWorkerPerJob
    LiveWorkerIsTracked
    RepairIsBounded
    ReportedOutcomesHappened
PROPERTIES
    OnlyStaleRepairUndoesCompletion
    SlotIsReleased
    CancelReturns
    ImplementsLifecycle
