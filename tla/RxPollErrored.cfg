SPECIFICATION Spec
CONSTANTS
    FifoDepth = 2
    MaxArrivals = 3
    Framing <- Second
    Parity <- Third
    ClearResetsFifo = FALSE
    Callers <- DirectOnly
INVARIANT
    OnlyCleanBytes
