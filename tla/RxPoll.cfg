SPECIFICATION FairSpec
CONSTANTS
    FifoDepth = 1
    MaxArrivals = 6
    Framing <- Second
    Parity <- Third
    ClearResetsFifo = TRUE
    Callers <- AllCallers
INVARIANTS
    TypeOK
    StatusAccountsForBytes
PROPERTIES
    CleanWhenAsked
    LossCounted
    ReceptionResumes
    ByteLeaves
