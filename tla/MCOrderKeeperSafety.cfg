SPECIFICATION Spec
CONSTANTS
    o1 = o1
    t1 = t1
    t2 = t2
    Orders = {o1}
    Ticks = {t1, t2}
    DcaTotal = 2
    MaxCycleFailures = 1
    MaxTxs = 2
    MaxFaults = 1
SYMMETRY TickSymmetry
INVARIANTS
    TypeOK
    RowNeverAheadOfChain
CHECK_DEADLOCK FALSE
