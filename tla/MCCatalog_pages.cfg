SPECIFICATION Spec
CONSTANTS
    k1 = k1
    k2 = k2
    PerBucket = 2
    KeyBatch = 1
    Queries <- MCQueries
    Offsets = {0, 1, 4}
    Limits = {0, 2, 5}
    WindowsPerCall = 3
    Categories <- MCCategories
    Stored = 11
    None = None
INVARIANTS
    PageIsSound
    ServedPageIsWindow
