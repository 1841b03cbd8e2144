CONSTANTS
    Threads = {t1, t2, t3}
    Elements = {e1, e2}
    TagRange = 3
    initmaxpools = 1
    MaxLists = 4
SYMMETRY Symmetry
SPECIFICATION Spec
INVARIANTS
    ListsSound
    VisitedExact
    ListsReused
