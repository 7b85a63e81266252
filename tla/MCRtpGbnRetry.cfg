SPECIFICATION RetrySpec
CONSTANTS
    SEQNUM_MAX = 16
    Duplication = FALSE
    Corruption = FALSE
    Mode = 0
    WindowSize = 4
    FileLen = 4
    MAX_RETRY = 2
    InitialSeqs = {1}
    AllocFails = FALSE
INVARIANT GivesUpAfterRetries
CHECK_DEADLOCK FALSE
