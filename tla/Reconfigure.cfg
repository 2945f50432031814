SPECIFICATION FairSpec
CONSTANTS
    TxDepth = 2
    ClockPeriod = 5
    PollWithin = 2
    Timeouts <- SomeTimeouts
    Lengths <- SomeLengths
    Rates <- SomeRates
    TxLength = 3
    CallbackOps <- AnyCall
INVARIANTS
    TypeOK
    RateNearest
    TimeoutPrompt
PROPERTIES
    TimeoutHonest
    WriteReturns
