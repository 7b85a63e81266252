SPECIFICATION SpecEstablished
CONSTANTS
    SEQNUM_MAX = 16
    Duplication = TRUE
    Corruption = TRUE
    Mode = 1
    WindowSize = 4
    FileLen = 6
    MAX_RETRY = 3
    InitialSeqs = {11}
    AllocFails = FALSE
INVARIANTS
    PrefixDelivered
    AckedHasArrived
    CompleteOnClose
    WindowsInStep
    SrInv
    SrArrival
PROPERTIES
    BaseWithinFlight
    TransferSpec
CHECK_DEADLOCK FALSE
