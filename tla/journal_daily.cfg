SPECIFICATION Spec
CONSTANTS
    beat = beat
    user = user
    LastDay = 3
    PerDay = 2
    Runner = {beat}
    Beat = {beat}
    Age = 1
    Ttl = 1
    ChunkSize = 1
    Encrypts = TRUE
    MaxFaults = 1
INVARIANTS TypeOK ExportLosesNothing RecentKept
PROPERTIES KeepsPromise OldLeave
CHECK_DEADLOCK FALSE
