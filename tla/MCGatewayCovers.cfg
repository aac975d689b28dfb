\* One proof for a batch of two calls.
SPECIFICATION Spec
CONSTANTS
    Ids = {m1, m2}
    NoId = NoId
    None = None
    k1 = k1  k2 = k2  t1 = t1  t2 = t2  m1 = m1  m2 = m2  a = a  b = b
    Requests = {r1}
    Posts <- TwoCalls
    Tokens = {t1, t2}
    Keys = {k1}
    Holder <- OneBound
    Paths = {a}
    Bindings <- AnyPath
    Proofs = {p1}
    MaxTTL = 1
    PruneEvery = 2
    FilterToolsList = FALSE
    MaxTime = 1
    MaxRestarts = 0
CHECK_DEADLOCK FALSE
INVARIANT ProofCoversRequest
