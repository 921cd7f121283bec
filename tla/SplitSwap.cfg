CONSTANTS
    Contexts = {ethereum, base}
    NoWallet = NoWallet
    None = None
    LegCount = 2
    MaxExecutions = 2
    MaxSignings = 2
    MaxSwitches = 2
SPECIFICATION Spec
CHECK_DEADLOCK FALSE
INVARIANTS
    TypeOK
    LegsLeaveOnce
    PlansAreConfirmedWhereBuilt
PROPERTY OnlyTheWalletBlocks
