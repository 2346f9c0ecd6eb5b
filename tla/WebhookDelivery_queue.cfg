CONSTANTS
    e1 = e1
    e2 = e2
    e3 = e3
    e4 = e4
    s1 = s1
    s2 = s2
    Events = {e1, e2, e3}
    Subscriptions = {s1, s2}
    MaxAttempts = 2
    MaxPending = 1
    HistoryLimit = 2
    MaxFailedReads = 1
    MaxStops = 1
SPECIFICATION FairDeliverySpec
INVARIANTS OneRowPerDelivery WaitingBounded
PROPERTY QueuedFinishes
CHECK_DEADLOCK FALSE
