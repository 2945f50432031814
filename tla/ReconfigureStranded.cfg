SPECIFICATION Spec
CONSTANTS
    TxDepth = 2
    ClockPeriod = 4
    PollWithin = 1
    Timeouts <- NoTimeout
    Lengths <- SomeLengths
    Rates <- UsualRates
    TxLength = 3
    CallbackOps <- StartsTx
INVARIANT
    NeverStranded
