\* A root and two generations of delegates, under four policies.
SPECIFICATION Spec
CONSTANTS
    None = None
    ArgNames = {"n"}
    EnumStrings <- Listed
    RuleSets <- Policies
    Mintable <- RootScopes
    Askable <- DelegateScopes
    CallPool <- Pool
    Subjects <- TwoSubjects
    Human <- Ann
    Hours = {0, 1}
    DepthsAsked = {0, 2}
    CfgMaxDepth = 1
    MaxHops = 2
CHECK_DEADLOCK FALSE
INVARIANT GrantsTypeOK
INVARIANT AttenuatedSubset
INVARIANT DenyOverrides
INVARIANT MintedUnderPermit
PROPERTY RefinesAuthority
