\* A delegate may also ask for a literal that escapesPrefix refuses.
SPECIFICATION Spec
CONSTANTS
    None = None
    ArgNames = {"n"}
    EnumStrings <- Listed
    RuleSets <- Policies
    Mintable <- RootScopes
    Askable <- WithEscape
    CallPool <- Pool
    Subjects <- TwoSubjects
    Human <- Ann
    Hours = {0, 1}
    DepthsAsked = {0, 2}
    CfgMaxDepth = 1
    MaxHops = 2
CHECK_DEADLOCK FALSE
INVARIANT DelegatesWithin
