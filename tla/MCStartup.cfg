\* Processes that start together, with one disk fault.
SPECIFICATION Spec
CONSTANTS
    None = None
    Backup = Backup
    EnvKey = EnvKey
    Procs = {p1, p2}
    Setups <- MixedSetups
    Licenses <- MixedLicenses
    Grace = 1
    MaxTime = 2
    MaxFaults = 1
CHECK_DEADLOCK FALSE
INVARIANT StartupTypeOK
INVARIANT OneKey
INVARIANT FileIsUsed
INVARIANT LicenseGates
PROPERTY NeverOverwritten
PROPERTY CoreStarts
