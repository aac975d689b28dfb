\* Two blocks of every kind on two base tokens, presented in any order.
SPECIFICATION Spec
CONSTANTS
    k1 = k1  k2 = k2  c1 = c1  c2 = c2  None = None
    Calls = {c1, c2}
    Keys = {k1, k2}
    Bases <- TwoBases
    ScopeLists <- AnyScopes
    Expiries = {0, 2}
    Cnfs = {k2, None}
    MaxBlocks = 2
    MaxTime = 1
CHECK_DEADLOCK FALSE
INVARIANT ChainTypeOK
INVARIANT EffectiveNarrows
INVARIANT HolderConsents
INVARIANT GenuineChain
