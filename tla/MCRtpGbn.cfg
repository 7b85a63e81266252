SPECIFICATION Spec
CONSTANTS
    SEQNUM_MAX = 16
    Duplication = TRUE
    Corruption = TRUE
    Mode = 0
    WindowSize = 3
    FileLen = 5
    MAX_RETRY = 3
    InitialSeqs = {1, 12}
    AllocFails = FALSE
INVARIANTS
    TypeOK
    PrefixDelivered
    AckedHasArrived
    CompleteOnClose
    UnackedCountExact
    RingCoherent
    WindowsInStep
    SynAckConnects
    GbnInv
PROPERTIES
    TransferSpec
CHECK_DEADLOCK FALSE
