SPECIFICATION FairSpec
CONSTANTS
    o1 = o1
    t1 = t1
    t2 = t2
    Orders = {o1}
    Ticks = {t1, t2}
    DcaTotal = 2
    MaxCycleFailures = 2
    MaxTxs = 1
    MaxFaults = 1
INVARIANTS
    FailureIsEarned
PROPERTIES
    LocksAreReleased
    OrdersSettle
CHECK_DEADLOCK FALSE
