CONSTANTS
    Patient = {p1}
    Hasty = {h1}
    Silent = {s1}
    MaxFds = 3
    ReadBuf = 2
    PatientLen = 2
    HastyLen = 2
    SndBuf = 2
    MaxAsks = 1
    MaxHastyAsks = 2
    Free = Free
SPECIFICATION FairSpec
CHECK_DEADLOCK FALSE
INVARIANTS
    DescriptorsSound
    OnlyLeaversClosed
    OneReplyPerCommand
PROPERTIES
    CommandAnswered
