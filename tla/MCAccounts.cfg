SPECIFICATION Spec
CONSTANTS
    Deployments <- MCDeployments
    Tenants = {"t", "u"}
    NoTenant = "none"
    Processes = {"p1", "p2"}
    Workers = {w1, w2}
    Attempts = {a1, a2}
    Emails = {"e1", "e2"}
    MaxAccounts = 2
    MaxMachines = 1
    MaxEndings = 2
INVARIANTS
    TypeOK
    FirstIsOwner
    AttemptOnce
PROPERTIES
    SuspensionHolds
    EndedForGood
SYMMETRY Symmetry
