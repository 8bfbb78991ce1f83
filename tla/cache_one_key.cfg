SPECIFICATION Spec
CONSTANTS
    s1 = s1
    s2 = s2
    s3 = s3
    c1 = c1
    c2 = c2
    Space = {s1, s2, s3}
    Pk = {1, 2}
    PkOf <- PkShared
    Caller = {c1, c2}
    Timeout = 1
    MaxSaves = 1
    MaxFaults = 0
INVARIANT OwnRow
