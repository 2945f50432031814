SPECIFICATION FairSpec
CONSTANTS
    FifoDepth = 2
    MaxArrivals = 3
    Framing <- None
    Parity <- None
    ClearResetsFifo = FALSE
    RingSize = 3
    Ops <- AllCalls
    IeLoss = TRUE
INVARIANTS
    TypeOK
    DrainExclusive
    InOrder
    OverrunVisible
PROPERTIES
    SnapshotAtomic
    ImplementsChannel
    ReceptionResumes
    NoByteStranded
