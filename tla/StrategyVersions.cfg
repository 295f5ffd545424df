CONSTANTS
    Admins = {ann}
    RiskAdmins = {rob}
    Requests = {r1, r2}
    Backtests = {b1}
    p0 = p0
    p1 = p1
    Updates <- PartialUpdates
    Params = {p0, p1}
    Default = p0
    Catalogs = {c1, c2}
    ActivationRevision = 2
    MaxVersions = 3
    Nothing = Nothing
SPECIFICATION Spec
SYMMETRY RequestSymmetry
INVARIANTS GovernanceIsSound OnlyApprovalsDeadlock
PROPERTY StepsAreGoverned
