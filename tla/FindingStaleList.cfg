SPECIFICATION Spec
CONSTANTS
    job = job
    b0 = b0
    b1 = b1
    Job = job
    Jobs = {job}
    Bodies = {b0, b1}
    Absent = Absent
    Recount = Recount
    Gone = Gone
    Broken = Broken
    Specs <- AutoSpecs
    Diffs <- MCDiffs
    NoDiff = NoDiff
    NoLift = NoLift
    Requests = {}
    MaxDeployments = 1
    MaxIndex = 0
    MaxEvents = 0
    MaxCommits = 0
    MaxEdits = 0
    MaxHolds = 0
    MaxLaps = 1
    MaxFaults = 1
    MaxTurns = 2
PROPERTIES
    RegistersOnlyApplying
