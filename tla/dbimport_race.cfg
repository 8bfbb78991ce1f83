SPECIFICATION Spec
CONSTANTS
    i1 = i1
    i2 = i2
    c1 = c1
    p1 = p1
    Task = {i1, i2}
    InstrumentTask = {i1, i2}
    PriceTask = {}
    MaxCallbacks = 1
    MaxFaults = 1
    NoRow = NoRow
SYMMETRY TaskSymmetry
INVARIANTS TypeOK DoneNamesFull InTimeSettled
PROPERTIES FullStaysFull
CHECK_DEADLOCK FALSE
