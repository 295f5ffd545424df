CONSTANTS
    Requests = {r1, r2}
    Approvals = {a1, a2}
    Principals = {h1, h2, s1}
    Humans = {h1, h2}
    Keys = {k1}
    PaperPayloads = {}
    LivePayloads = {live}
    SimulatedPayloads = {sim}
    Operations = {cancel}
    None = None
SPECIFICATION Spec
SYMMETRY Symmetry
INVARIANTS OrdersAreAuthorizedOnce RowsTellTheTruth
PROPERTIES ImplementsApproval
CHECK_DEADLOCK FALSE
