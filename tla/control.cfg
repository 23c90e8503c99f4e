\* Two customers for two workspaces and four events, one of them repeated; two enrollments and two
\* calls to end them; three appeals; four audit records read two or one at a time.
SPECIFICATION MCSpec
CONSTANTS
    Workspace = {w1, w2}
    Customer = {k1, k2}
    silver = silver
    other = other
    Price = {silver, other}
    priceIDs <- MCPriceIDs
    Nobody = Nobody
    MaxEvents = 4
    MaxRepeats = 1
    Confirmer = {c1, c2}
    Disabler = {d1, d2}
    Codes = 2
    NoSecret = NoSecret
    Submitter = {r1, r2, r3}
    e1 = e1
    e2 = e2
    e3 = e3
    e4 = e4
    AuditRecord = {e1, e2, e3, e4}
    timestamp <- MCTimestamp
    MaxLimit = 2
    DefaultLimit = 2
SYMMETRY MCSymmetry
CHECK_DEADLOCK FALSE
INVARIANTS
    ControlTypeOK
    PlanWasSold
    InOrderConverges
    CodeAcceptedOnce
    OrphanCodesNeedOverlap
    AppealsAreOne
    NothingSkipped
