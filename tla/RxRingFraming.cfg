SPECIFICATION Spec
CONSTANTS
    FifoDepth = 2
    MaxArrivals = 3
    Framing <- Second
    Parity <- None
    ClearResetsFifo = FALSE
    RingSize = 3
    Ops <- Snapshots
    IeLoss = FALSE
INVARIANT
    FramingErrorsCounted
