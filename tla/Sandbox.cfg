SPECIFICATION FairSpec
CONSTANTS
    j1 = j1
    Jobs = {j1}
    MaxRepair = 1
    MaxFaults = 1
    MaxRestarts = 1
CHECK_DEADLOCK FALSE
INVARIANTS
    TypeOK
    TokenIsRevocable
    WaitedJobLeavesNothing
PROPERTIES
    OrphanIsReaped
    SandboxSlotIsReleased
