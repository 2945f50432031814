SPECIFICATION Spec
CONSTANTS
    Bauds <- TwoRates
    Devices <- Builds
INVARIANT
    BackendAsConfigured
