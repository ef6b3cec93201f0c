SPECIFICATION Spec
CONSTANTS
    j1 = j1
    j2 = j2
    u1 = u1
    NoJob = NoJob
    Jobs = {j1, j2}
    Users = {u1}
    Owner <- MCOneUser
    HasStore = FALSE
    MaxJobs = 1
    MaxParallel = 1
    MaxPerUser <- MCUserLimit2
    MaxRepair = 0
    MaxHelps = 1
SYMMETRY JobSymmetry
INVARIANTS
    SlotsWithinLimit
    WorkersWithinCapacity
