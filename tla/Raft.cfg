CONSTANTS
    Servers = {s1, s2, s3}
    Ids = {0, 1}
    None = None
    Ordered = TRUE
    MaxTerm = 2
    MaxLog = 3
    MaxInFlight = 1
SYMMETRY Symmetry
VIEW View
CONSTRAINT FewMessages
SPECIFICATION Spec
INVARIANTS
    TypeOK
    ElectionSafety
    CommittedAgree
    LeaderComplete
    AppliedCommitted
    AssertsHold
    LogMatching
    MatchHolds
