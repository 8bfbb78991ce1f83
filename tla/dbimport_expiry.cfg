SPECIFICATION Spec
CONSTANTS
    i1 = i1
    i2 = i2
    c1 = c1
    p1 = p1
    Task = {c1, p1}
    InstrumentTask = {}
    PriceTask = {p1}
    MaxCallbacks = 1
    MaxFaults = 1
    NoRow = NoRow
PROPERTIES Expires
CHECK_DEADLOCK FALSE
