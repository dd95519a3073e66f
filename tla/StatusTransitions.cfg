CONSTANTS
    t1 = t1
    t2 = t2
    Ids = {t1, t2}
    Background = background
    Pages = {}
    None = None
    DefaultValue <- NoTransactions
    MaxMessages = 1
    MaxReceipts = 0
SPECIFICATION Spec
PROPERTIES
    OnlyValidTransitions
CHECK_DEADLOCK FALSE
