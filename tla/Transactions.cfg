CONSTANTS
    t1 = t1
    t2 = t2
    Ids = {t1, t2}
    Background = background
    Pages = {home}
    None = None
    DefaultValue <- NoTransactions
    MaxMessages = 1
    MaxReceipts = 1
SPECIFICATION NarrowSpec
INVARIANTS
    TypeOK
    ApprovalsAreTheUsers
    NoChangeMissed
PROPERTIES
    ShownInTheEnd
CHECK_DEADLOCK FALSE
