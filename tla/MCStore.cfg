SPECIFICATION StoreSpec
CONSTANTS
    j1 = j1
    j2 = j2
    s1 = s1
    d1 = d1
    Jobs = {j1, j2}
    Specs = {s1}
    Diffs = {d1}
    NoDiff = NoDiff
    NoLift = NoLift
    Requests <- MCRequests
    MaxDeployments = 2
    MaxIndex = 1
    MaxEvents = 5
INVARIANTS
    StoreTypeOK
    OneActivePerJob
    AuditTrail
PROPERTIES
    RowsOnlyProgress
    CASFixedOnceApplied
    ImplementsAttempts
