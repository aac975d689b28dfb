\* A root and its delegates over a Memory store, a call and the clock racing
\* with reports; depths and ttls below zero and over the limits are asked for.
SPECIFICATION ReportSpec
CONSTANTS
    alice = alice  bob = bob  c1 = c1  c2 = c2  None = None
    TokenIds = {t1, t2}
    Requests = {r1}
    ApprovalIds = {}
    Subjects = {alice}
    Humans = {ann}
    Calls = {c1}
    ScopeLists <- OneThenTwo
    CallsAsked = {1}
    DepthsAsked <- OddDepths
    TTLsAsked <- OddTTLs
    Permit <- PermitAll
    AllowDepth <- NoRaise
    CfgMaxDepth = 1
    DefaultTTL = 2
    MaxTTL = 2
    SVIDTTL = 2
    ApprovalTTL = 1
    MaxTime = 1
    Durable = FALSE
    LedgerFails = {}
SYMMETRY Symmetry
INVARIANT DelegationNarrows
INVARIANT ReportBounded
INVARIANT ReportNested
INVARIANT ReportComplete
