CONSTANTS
    Threads = {t1, t2}
    Labels = {1, 2, 3, 4, 5, 6}
    Points = {1, 2, 4, 5, 10, 11}
    FewPoints = {1, 2, 5, 11}
    Levels = {0, 1}
    M_ = 2
    efConstruction_ = 2
    Capacity = 2
    MaxCapacity = 6
    ReuseDeleted = {TRUE}
    Alone = {"update"}
    MaxUpdates = 1
    Free = Free
CONSTRAINT Bound
SYMMETRY Symmetry
SPECIFICATION MCSpec
CHECK_DEADLOCK FALSE
INVARIANTS
    
    
    EntryOnTop
    NoDeadlock
    
    DeletedExact
