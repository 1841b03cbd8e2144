CONSTANTS
    Workers = {w1, w2, w3}
    Callers = {c1, c2}
    Free = Free
SPECIFICATION FairSpec
CHECK_DEADLOCK FALSE
INVARIANTS
    PoolSound
PROPERTIES
    ShutdownReturns
    EnqueueReturns
