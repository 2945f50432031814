SPECIFICATION FairSpec
CONSTANTS
    TxDepth = 2
    Transfers = 3
    Length <- Lengths
    TxPrio = 4
    RxPrio = 3
    Starters <- TaskAndChain
    Aborters <- Everyone
    Callbacks <- SomeCallbacks
INVARIANTS
    TypeOK
    Armed
PROPERTIES
    WireOrder
    ActiveNotReplaced
    CompletionTrue
    ImplementsTransmitter
    TransferEnds
