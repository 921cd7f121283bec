SPECIFICATION GovSpec
CONSTANTS
    a1 = a1
    a2 = a2
    r1 = r1
    x1 = x1
    usdc = usdc
    eth = eth
    f1 = f1
    none = none
    Accounts <- MCAccounts
    Routers <- MCRouters
    Executors <- MCExecutors
    Assets <- MCAssets
    ETH = eth
    Feeds <- MCFeeds
    NoFeed = none
    OracleConfigs <- MCOracleConfigs
    Unregistered = none
    InitialAdmin = a1
    RouterDelay = 1
    AdminDelay = 2
    SweepDelay = 1
    ExecutorDelay = 1
    OracleDelay = 1
    Grace = 1
    MaxTime = 4
    MaxAnnounced = 2
    MaxDonated = 1
INVARIANTS
    GovTypeOK
    EveryPrivilegeWasAnnounced
    EachAnnouncementExecutesOnce
    RevocationHolds
CHECK_DEADLOCK FALSE
