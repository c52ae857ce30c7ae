SPECIFICATION FairSpec
CONSTANTS
    Absent = Absent
    Junk = Junk
    Never = Never
    None = None
    Broken = Broken
    DefaultTimeout = 1
    MaxCloseSteps = 20
    a = a
    b = b
    h = h
    x = x
    Count = 2
    Tree <- MCTree
    Contents <- MCContents
    Jobs <- MCJobs
    ManagedNS <- MCManagedNS
    repoJobs <- MCrepoJobs
    Deployed = {a, b}
    MaxClock = 14
    Starts <- MCStarts
INVARIANTS
    WatchTypeOK
    NoLostWakeup
    ToldFromGit
    NothingTakenForRemoved
    WindowTold
PROPERTIES
    CommitReachesDetection
