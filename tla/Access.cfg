SPECIFICATION LoginSpec
CONSTANTS
    None = None
    Garbled = Garbled
    Bootstrap = Bootstrap
    ann = ann
    bob = bob
    r1 = r1
    r2 = r2
    Accessors = {1, 2, 3, 4}
    People = {ann, bob}
    Names = {1, 2}
    Letters = {"p", "r", "d"}
    Namespaces <- MCNamespaces
    Files <- MCFiles
    RuleIDs = {r1, r2}
    RuleInputs <- MCRuleInputs
    TokenInputs <- MCTokenInputs
    Requests = {q1, q2}
    Logins = {l1, l2, l3}
    Methods = {"oidc", "basic"}
    Starts <- MCStarts
    Browsers = {w1, w2}
    Clients = {k1, k2}
    Flows = {f1, f2}
    Usernames <- MCUsernames
    MaxFailures = 1
    Slots = 2
INVARIANTS AccessTypeOK TokenStory SweepComplete DenyHolds ScopeAgrees LoginTypeOK GuessesBounded GoesHome OneIdentity LogoutEnds
PROPERTY ChangesAuthorized
CHECK_DEADLOCK FALSE
SYMMETRY Symmetry
