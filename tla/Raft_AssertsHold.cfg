CONSTANTS
    Servers = {s1, s2}
    Ids = {0, 1}
    None = None
    Ordered = FALSE
    MaxTerm = 1
    MaxLog = 3
    MaxInFlight = 2
SYMMETRY Symmetry
SPECIFICATION Spec
INVARIANTS
    AssertsHold
