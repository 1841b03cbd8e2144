SPECIFICATION Spec
CONSTANTS
    Keys = {k1, k2}
    Vals = {v1}
    TTLs = {0, 1, 2}
    k_min_cap = 4
    k_max_load_factor = 1
    UsecPerMs = 2
    Word = 64
    MaxClock = 1
CHECK_DEADLOCK FALSE
SYMMETRY KeySymmetry
INVARIANTS
    TypeOK
    RefsSound
    OneItemPerTtl
    HeapOrdered
    SizeExact
PROPERTIES
    UpdateKeepsRefsExact
    AbandonedCommandKeepsData
