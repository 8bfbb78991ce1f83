SPECIFICATION Spec
CONSTANTS
    i1 = i1
    w1 = w1
    w2 = w2
    Instance = {i1}
    Steps = 3
    Schedule = {{0}, {0, 1, 2}}
    Worker = {w1, w2}
    Continue = FALSE
    MaxFaults = 2
    NoRow = NoRow
    NoMessage = NoMessage
INVARIANTS TypeOK QuietChainIsComplete StepsInOrder
PROPERTIES Ends
CHECK_DEADLOCK FALSE
