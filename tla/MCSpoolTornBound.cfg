\* Three records, writes that stop half way, scans that end early, two crashes.
SPECIFICATION Spec
CONSTANTS
    Records = {r1, r2, r3}
    Corrupt = Corrupt
    Refused = {}
    TornWrites = TRUE
    ShortScans = TRUE
    DiskFaults = FALSE
    MaxCrashes = 2
SYMMETRY Symmetry
INVARIANT SpoolTypeOK
INVARIANT LossBounded
INVARIANT InOrder
