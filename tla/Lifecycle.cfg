SPECIFICATION Spec
CONSTANTS
    Bauds <- TwoRates
    Devices <- Builds
INVARIANTS
    TypeOK
    TxServed
    RxServed
    DownIsQuiet
PROPERTIES
    RateStable
    RefusedInit
