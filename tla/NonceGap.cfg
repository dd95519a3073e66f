CONSTANTS
    Rows = {1, 2}
    Bundles <- Aggregates
    NoBundle = {}
    Calls = {c1, c2}
    Faults = {"gasConfig"}
    MaxFaults = 1
    bundleQueryLimit = 2
    breakevenOperationCount = 2
    maxUnconfirmedAggregations = 2
    maxEligibilityDelay = 1
    MayLeaveOut = FALSE
    MaxChecks = 1
    MaxAdds = 1
    MaxRestarts = 0
SPECIFICATION RunningSpec
PROPERTIES
    NonceErrorsResolve
