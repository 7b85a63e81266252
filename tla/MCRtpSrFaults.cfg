SPECIFICATION FairRetrySpec
CONSTANTS
    SEQNUM_MAX = 16
    Duplication = FALSE
    Corruption = TRUE
    Mode = 1
    WindowSize = 2
    FileLen = 3
    MAX_RETRY = 2
    InitialSeqs = {11}
    AllocFails = TRUE
INVARIANTS
    PrefixDelivered
    ReceiverRingCoherent
    GivesUpAfterRetries
PROPERTIES
    SenderTerminates
CHECK_DEADLOCK FALSE
