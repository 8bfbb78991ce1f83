SPECIFICATION Spec
CONSTANTS
    MaxTask = 1
    Worker = {w1, w2}
    Ttl = {}
    Report = {}
    MaxRows = 1
    MaxFaults = 1
    ApiStatuses = {"C", "D"}
    Sweeps = {"clear"}
    NoRow = NoRow
    NoTask = NoTask
SYMMETRY WorkerSymmetry
INVARIANTS TypeOK PendingHasOwner OutcomeRecorded
CHECK_DEADLOCK FALSE
