SPECIFICATION Spec
CONSTANTS
    Keys = {0, 1, 2}
    Vals = {v1, v2}
    hash_key <- MCHash
    k_min_cap = 2
    k_max_load_factor = 2
    Nothing = Nothing
CHECK_DEADLOCK FALSE
INVARIANTS
    TableSound
PROPERTIES
    ImplementsKeyStacks
