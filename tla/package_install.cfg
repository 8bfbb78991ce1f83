SPECIFICATION Spec
CONSTANTS
    j1 = j1
    j2 = j2
    w1 = w1
    w2 = w2
    c1 = c1
    c2 = c2
    p1 = p1
    i1 = i1
    Job = {j1, j2}
    Code = {c1, c2, p1}
    Item = {i1}
    Orders <- SomeOrders
    Worker = {w1, w2}
    MaxFaults = 1
    NoCode = NoCode
    NoRow = NoRow
    NoCopy = NoCopy
INVARIANTS TypeOK DoneIsInstalled NoChildWaits OneRowPerCode AtMostOnePrimary SettledShowsContent FailureHasCause
PROPERTIES InstallsEnd
CHECK_DEADLOCK FALSE
