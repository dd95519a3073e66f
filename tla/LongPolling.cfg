CONSTANTS
    network = network
    time = time
    Inputs = {network, time}
    Values = {0, 1}
    Formula <- Both
    MayFail = TRUE
    Iterators = {i1, i2, p1, p2}
    Polls = {p1, p2}
    Calls = {c1}
    None = None
    Pending = Pending
    MaxChanges = 2
    MaxOpens = 2
    MaxViews = 2
    MaxTimeouts = 1
SPECIFICATION NarrowSpec
INVARIANTS
    LongPollingTypeOK
    CountsReaders
    ServedWhileRead
    IteratesForOpenPolls
PROPERTIES
    ShowsLatest
    RestsUnread
    PageShowsLatest
CHECK_DEADLOCK FALSE
