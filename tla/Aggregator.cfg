CONSTANTS
    Rows = {1, 2}
    Bundles <- Aggregates
    NoBundle = {}
    Calls = {c1, c2}
    Faults = {"gasConfig", "send", "sendLost", "revert", "update", "blockNumber"}
    MaxFaults = 1
    bundleQueryLimit = 2
    breakevenOperationCount = 2
    maxUnconfirmedAggregations = 2
    maxEligibilityDelay = 1
    MayLeaveOut = TRUE
    MaxChecks = 1
    MaxAdds = 1
    MaxRestarts = 0
SPECIFICATION Spec
INVARIANTS
    ServiceTypeOK
    SubmittedOnce
    OwnReceipt
    AggregateIsWhole
PROPERTIES
    LifeCycleOfBundles
SYMMETRY CallSymmetry
