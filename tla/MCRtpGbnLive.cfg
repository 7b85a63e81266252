SPECIFICATION FairSpec
CONSTANTS
    SEQNUM_MAX = 16
    Duplication = FALSE
    Corruption = TRUE
    Mode = 0
    WindowSize = 2
    FileLen = 3
    MAX_RETRY = 2
    InitialSeqs = {1}
    AllocFails = FALSE
PROPERTIES
    SenderTerminates
    ReceiverFollows
CHECK_DEADLOCK FALSE
