SPECIFICATION AsyncFairSpec
CONSTANTS
    FifoDepth = 2
    MaxArrivals = 3
    Framing <- None
    Parity <- None
    ClearResetsFifo = FALSE
    RingSize = 2
    Ops <- Reading
    IeLoss = TRUE
    Requests <- Two
    CallbackOps <- AnyCallback
    ReadyFrom <- InHandler
INVARIANTS
    AsyncTypeOK
    DrainStaysExclusive
    CleanCapture
    OnceInOrder
    OverrunEnds
PROPERTIES
    ImplementsRouter
    BytesRouted
