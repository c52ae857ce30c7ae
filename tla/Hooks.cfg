SPECIFICATION MCSpec
CONSTANTS
    d1 = d1
    d2 = d2
    r1 = r1
    r2 = r2
    r3 = r3
    Deployments = {d1, d2}
    Revisions = {r1, r2, r3}
    Declared <- FewHooks
    MaxPosition = 2
    MaxHooks = 2
    Invalid = {r3}
    Partial = {}
    MaxFaults = 2
INVARIANTS
    HooksTypeOK
    PhaseFollowsHooks
    TimedOutStopped
    RevisionReady
PROPERTIES
    ImplementsOnce
    HookPhaseEnds
ACTION_CONSTRAINT BudgetKept
CHECK_DEADLOCK FALSE
