\* Three calls on a root and its two delegates.
SPECIFICATION PgFairSpec
CONSTANTS
    Tokens = {1, 2, 3}
    Ancestors <- Siblings
    MaxCalls <- RootOne
    ScopeLimits <- DelegateScopes
    ScopeIdxs = {1}
    Callers = {x, y, z}
INVARIANT PgTypeOK
INVARIANT WithinLimits
INVARIANT NoCircularWait
PROPERTY RefinesCounters
PROPERTY ConsumeReturns
