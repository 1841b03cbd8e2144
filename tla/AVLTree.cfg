CONSTANTS
    Keys = {1, 2, 3, 4, 5}
    Threads = {t1, t2}
    NoKey = NoKey
SYMMETRY Symmetry
SPECIFICATION Spec
INVARIANTS
    TreeSound
    WritesLand
