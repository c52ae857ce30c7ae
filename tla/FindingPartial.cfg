SPECIFICATION Spec
CONSTANTS
    d1 = d1
    d2 = d2
    r1 = r1
    r2 = r2
    r3 = r3
    Deployments = {d1}
    Revisions = {r1, r2, r3}
    Declared <- SomeHooks
    MaxPosition = 2
    MaxHooks = 2
    Invalid = {r3}
    Partial = {r1}
    MaxFaults = 1
INVARIANTS
    SucceededRan
CHECK_DEADLOCK FALSE
