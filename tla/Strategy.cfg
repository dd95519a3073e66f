CONSTANTS
    Rows = {1, 2, 3, 4}
    KeyNonces = {"a", "b", "c", "d"}
    Operations <- CyclicOperations
    MarginalGas = {1, 2}
    Fees = {0, 2, 3, 4}
    bundleOverheadGas = 2
    maxGasPerBundle = 5
    bundleCheckingConcurrency = 2
    requireFees = TRUE
    allowLosses = FALSE
    breakeven <- TwoAndAHalf
    Drift <- Drifts
SPECIFICATION Spec
INVARIANTS
    TypeOK
    NoConflicts
    SomeRowStays
    PaysAtBreakeven
PROPERTIES
    MeetsContract
CHECK_DEADLOCK FALSE
