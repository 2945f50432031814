SPECIFICATION AsyncSpec
CONSTANTS
    FifoDepth = 2
    MaxArrivals = 3
    Framing <- None
    Parity <- None
    ClearResetsFifo = FALSE
    RingSize = 3
    Ops <- Polling
    IeLoss = FALSE
    Requests <- One
    CallbackOps <- None
    ReadyFrom <- InEither
INVARIANT
    DrainStaysExclusive
