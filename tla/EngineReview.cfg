SPECIFICATION Spec
CONSTANTS
    job = job
    b0 = b0
    b1 = b1
    Job = job
    Jobs = {job}
    Bodies = {b0, b1}
    Absent = Absent
    Recount = Recount
    Gone = Gone
    Broken = Broken
    Specs <- GitSpecs
    Diffs <- MCDiffs
    NoDiff = NoDiff
    NoLift = NoLift
    Requests = {}
    MaxDeployments = 3
    MaxIndex = 0
    MaxEvents = 0
    MaxCommits = 1
    MaxEdits = 0
    MaxHolds = 1
    MaxLaps = 1
    MaxFaults = 1
    MaxTurns = 1
INVARIANTS
    EngineTypeOK
    ApprovedBeforeStart
    RetriesAreFaithful
PROPERTIES
    LiftIsSpent
ACTION_CONSTRAINT FamilyKept
CHECK_DEADLOCK FALSE
