CONSTANTS
    Threads = {t1, t2}
    Labels = {1, 2, 3, 4, 5, 6}
    Points = {1, 2, 4, 5, 10, 11}
    FewPoints = {}
    Levels = {0}
    M_ = 2
    efConstruction_ = 2
    Capacity = 6
    MaxCapacity = 6
    ReuseDeleted = {FALSE}
    Alone = {"update", "delete"}
    MaxUpdates = 0
    Free = Free
CONSTRAINTS FullLists LabelOrder
SYMMETRY Symmetry
SPECIFICATION Spec
CHECK_DEADLOCK FALSE
INVARIANTS
    InboundLinks
