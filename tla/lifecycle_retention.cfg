SPECIFICATION Spec
CONSTANTS
    MaxTask = 2
    Worker = {w1}
    Ttl = {1}
    Report = {}
    MaxRows = 1
    MaxFaults = 1
    ApiStatuses = {"X", "E"}
    Sweeps = {"ttl"}
    NoRow = NoRow
    NoTask = NoTask
PROPERTIES Settles
CHECK_DEADLOCK FALSE
