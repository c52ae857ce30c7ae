SPECIFICATION FairSpec
CONSTANTS
    job = job
    b0 = b0
    b1 = b1
    Job = job
    Jobs = {job}
    Bodies = {b0, b1}
    Absent = Absent
    Recount = Recount
    Gone = Gone
    Broken = Broken
    Specs <- CanarySpecs
    Diffs <- MCDiffs
    NoDiff = NoDiff
    NoLift = NoLift
    Requests <- MCRequests
    MaxDeployments = 1
    MaxIndex = 4
    MaxEvents = 20
    MaxCommits = 0
    MaxEdits = 1
    MaxHolds = 1
    MaxLaps = 0
    MaxFaults = 1
    MaxTurns = 1
PROPERTIES
    StartedEnds
    HeldPutsAside
    UsesStore
