SPECIFICATION Spec
CONSTANTS
    o1 = o1
    o2 = o2
    o3 = o3
    c1 = c1
    c2 = c2
    Object = {o1, o2, o3}
    Code = {c1, c2}
    Home <- SomeHome
    AtFirst = {o1, o2}
    MaxCounter = 8
    MaxRequests = 3
    MaxFaults = 1
    NoCode = NoCode
    NoRow = NoRow
INVARIANTS TypeOK CodeKept GoneNeedsTwo
PROPERTIES JobOver
CHECK_DEADLOCK FALSE
