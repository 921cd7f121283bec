SPECIFICATION MCSpec
CONSTANTS
    a1 = a1
    r1 = r1
    r2 = r2
    x1 = x1
    u1 = u1
    usdc = usdc
    weth = weth
    eth = eth
    f1 = f1
    none = none
    zeroHash = zeroHash
    p1 = p1
    d1 = d1
    d2 = d2
    l1 = l1
    l2 = l2
    l3 = l3
    Accounts = {a1}
    Routers = {r1, r2}
    Executors = {x1}
    Assets = {usdc, weth, eth}
    ETH = eth
    Feeds = {f1}
    NoFeed = none
    OracleConfigs <- MCOracleConfigs
    Unregistered = none
    InitialAdmin = a1
    RouterDelay = 1
    AdminDelay = 2
    SweepDelay = 1
    ExecutorDelay = 1
    OracleDelay = 1
    Grace = 1
    MaxTime = 7
    MaxAnnounced = 3
    MaxDonated = 0
    Owners = {u1}
    Nonces = {1, 7}
    Orders = {d1, d2, l1, l2, l3}
    Order <- MCOrder
    Routes = {p1}
    ZeroHash = zeroHash
    WETH = weth
    NoTrigger = none
    TokenUnit <- MCTokenUnit
    MaxStaleness = 1
    FeedStaleness <- MCFeedStaleness
    Reads <- MCReads
    TokenOutputs = {4, 10}
    EthOutputs = {0, 6}
INVARIANTS
    TypeOK
    DcaPullsExactly
    MinOutputOverLifetime
    LossBoundedByCap
    FeeWithinBand
PROPERTIES
    FillsUseAnnouncedRouters
    FollowsOrderLife
CHECK_DEADLOCK FALSE
