SPECIFICATION Spec
CONSTANTS
    Callers = {c1, c2}
    c1 = c1
    c2 = c2
    One = One
    Other = Other
    Built <- MCBuilt
    Pages <- MCPages
    Firsts = {0, 1, 2, 3}
    Gaps = {0, 1}
    MaxInstalls = 2
    MaxRecord = 5
    NoDict = NoDict
    NoRecord = NoRecord
    BadRecord = BadRecord
    BadStore = BadStore
    PerBucket = 2
    Prefix = 3
    SpanGap = 1
    SeedRatio = 2
    NoDir = NoDir
INVARIANTS
    PreloadIsSafe
