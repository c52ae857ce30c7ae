SPECIFICATION FairSpec
CONSTANTS
    job = job
    b0 = b0
    b1 = b1
    Job = job
    Jobs = {job}
    Bodies = {b0, b1}
    Absent = Absent
    Recount = Recount
    Gone = Gone
    Broken = Broken
    Specs <- AutoSpecs
    Diffs <- MCDiffs
    NoDiff = NoDiff
    NoLift = NoLift
    Requests = {}
    MaxDeployments = 2
    MaxIndex = 0
    MaxEvents = 0
    MaxCommits = 0
    MaxEdits = 1
    MaxHolds = 0
    MaxLaps = 0
    MaxFaults = 0
    MaxTurns = 1
PROPERTIES
    Converges
