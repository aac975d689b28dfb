\* A crash in the middle of an append.
SPECIFICATION Spec
CONSTANTS
    Records = {r1, r2}
    Corrupt = Corrupt
    Refused = {}
    TornWrites = TRUE
    ShortScans = FALSE
    DiskFaults = FALSE
    MaxCrashes = 1
INVARIANT NothingLost
