SPECIFICATION Spec
CONSTANTS
    beat = beat
    user = user
    LastDay = 3
    PerDay = 2
    Runner = {beat}
    Beat = {beat}
    Age = 1
    Ttl = 1
    ChunkSize = 1
    Encrypts = TRUE
    MaxFaults = 0
INVARIANTS ClearedAreFiled
CHECK_DEADLOCK FALSE
