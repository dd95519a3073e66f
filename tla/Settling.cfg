CONSTANTS
    Rows = {1, 2}
    Bundles <- Aggregates
    NoBundle = {}
    Calls = {c1}
    Faults = {"compress", "wait", "balance", "update", "revert", "sendLost", "blockNumber"}
    MaxFaults = 1
    bundleQueryLimit = 2
    breakevenOperationCount = 2
    maxUnconfirmedAggregations = 1
    maxEligibilityDelay = 1
    MayLeaveOut = FALSE
    MaxChecks = 1
    MaxAdds = 1
    MaxRestarts = 1
SPECIFICATION RunningSpec
INVARIANTS
    ConfirmedIsOnChain
    AggregateIsWhole
PROPERTIES
    EveryRowSettles
    LifeCycleOfBundles
