SPECIFICATION Spec
CONSTANTS
    Ids = {a, b, c, d, e, f}
    Values = {1, 2, 3}
    MaxItems = 6
SYMMETRY IdSymmetry
CHECK_DEADLOCK FALSE
INVARIANTS
    HeapSound
    ItemsSound
    MatchesClosedForm
PROPERTIES
    LoopsProgress
