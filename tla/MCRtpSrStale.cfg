SPECIFICATION Spec
CONSTANTS
    SEQNUM_MAX = 16
    Duplication = FALSE
    Corruption = FALSE
    Mode = 1
    WindowSize = 2
    FileLen = 2
    MAX_RETRY = 2
    InitialSeqs = {1}
    AllocFails = FALSE
INVARIANT CompleteOnClose
CHECK_DEADLOCK FALSE
