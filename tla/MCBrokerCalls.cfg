\* Overlapping scopes over a Memory store that restarts empty: a root and a
\* delegate, two racing calls, one approval, and a clock that ends them all.
SPECIFICATION Spec
CONSTANTS
    alice = alice  bob = bob  c1 = c1  c2 = c2  None = None
    TokenIds = {t1, t2}
    Requests = {r1, r2}
    ApprovalIds = {a1}
    Subjects = {alice}
    Humans = {ann}
    Calls = {c1, c2}
    ScopeLists <- OrUnapproved
    CallsAsked <- Negative
    DepthsAsked = {0}
    TTLsAsked = {0}
    Permit <- PermitInHours
    AllowDepth <- NoRaise
    CfgMaxDepth = 1
    DefaultTTL = 1
    MaxTTL = 1
    SVIDTTL = 1
    ApprovalTTL = 1
    MaxTime = 1
    Durable = FALSE
    LedgerFails = {"issued"}
SYMMETRY Symmetry
INVARIANT TypeOK
INVARIANT SharedBudget
INVARIANT ScopeBudget
INVARIANT ApprovalEnforced
INVARIANT RevocationIsFinal
INVARIANT AuditTrail
