\* Three records, one of which the Ledger refuses, a Ledger that goes down and
\* comes back, disk faults, scans that end early, a crash.
SPECIFICATION FairSpec
CONSTANTS
    Records = {r1, r2, r3}
    Corrupt = Corrupt
    Refused = {r3}
    TornWrites = FALSE
    ShortScans = TRUE
    DiskFaults = TRUE
    MaxCrashes = 1
INVARIANT LostOnlyUnread
PROPERTY DeliveredInTheEnd
