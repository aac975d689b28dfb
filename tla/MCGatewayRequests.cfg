\* Two requests race for one proof, with its expiry and a restart.
SPECIFICATION FairSpec
CONSTANTS
    k1 = k1  k2 = k2  t1 = t1  t2 = t2  m1 = m1  m2 = m2  a = a  b = b
    NoId = NoId
    None = None
    Ids = {m1, m2}
    Requests = {r1, r2}
    Posts <- MixedPosts
    Tokens = {t1, t2}
    Keys = {k1, k2}
    Holder <- OneBound
    Paths = {a, b}
    Bindings <- MixedBindings
    Proofs = {p1}
    MaxTTL = 1
    PruneEvery = 1
    FilterToolsList = TRUE
    MaxTime = 1
    MaxRestarts = 1
CHECK_DEADLOCK FALSE
INVARIANT GatewayTypeOK
INVARIANT AnsweredTruthfully
INVARIANT ExecutedAuthorized
INVARIANT ProofOncePerLife
PROPERTY RequestAnswered
