-------------------------- MODULE MCOrderExecutorV3 --------------------------
(***************************************************************************)
(* Instances of OrderExecutorV3 for TLC.  They start from the deployed     *)
(* contract: bootstrapped with one router and one keeper, with the         *)
(* fair-value feeds of both tokens registered through the timelock.  Two   *)
(* of its histories are followed: DCA orders from block 2 on, and limit    *)
(* orders from block 5 on (the orders of the other kind were cancelled     *)
(* before, and the DCA orders do not look at the nonces spent).            *)
(***************************************************************************)
EXTENDS OrderExecutorV3

CONSTANTS a1, r1, r2, x1, u1, usdc, weth, eth, f1, none, zeroHash,
          p1, d1, d2, l1, l2, l3

MCAssets == {usdc, weth, eth}

MCTokenUnit == [t \in MCAssets |-> 1000]

\* Three chunks of 10000, 10001 and 10001 units of USDC, each owed 6 WETH units.
Dca ==
    [owner |-> u1, tokenIn |-> usdc, tokenOut |-> weth,
     amountIn |-> 30002, minAmountOut |-> 20, maxSlippageBps |-> 500,
     orderType |-> "DCA", condition |-> "ABOVE", targetPrice |-> 0,
     priceFeed |-> none, expiry |-> 6, nonce |-> 1, router |-> r1,
     routerDataHash |-> zeroHash, dcaInterval |-> 2, dcaTotal |-> 3]

\* Sells when the trigger price is at most 2.
Limit ==
    [owner |-> u1, tokenIn |-> usdc, tokenOut |-> weth,
     amountIn |-> 10001, minAmountOut |-> 8, maxSlippageBps |-> 400,
     orderType |-> "LIMIT", condition |-> "BELOW", targetPrice |-> 2,
     priceFeed |-> f1, expiry |-> 6, nonce |-> 7, router |-> r1,
     routerDataHash |-> p1, dcaInterval |-> 0, dcaTotal |-> 0]

\* d2's chunks are below MIN_ORDER_AMOUNT; l2 replaces l1 (same nonce) the other
\* way round, selling WETH for USDC through a router that is not whitelisted yet;
\* l3 signs a slippage above the cap.
MCOrder ==
    [o \in Orders |->
        CASE o = d1 -> Dca
          [] o = d2 -> [Dca EXCEPT !.amountIn = 29999]
          [] o = l1 -> Limit
          [] o = l2 -> [Limit EXCEPT !.tokenIn = weth, !.tokenOut = usdc,
                                     !.orderType = "STOP_LOSS", !.expiry = 7,
                                     !.router = r2]
          [] o = l3 -> [Limit EXCEPT !.maxSlippageBps = 5000, !.minAmountOut = 1]]

Round(p, at) == [answer |-> p, updatedAt |-> at, complete |-> TRUE]

MCFeedStaleness == [f \in Feeds |-> 2]

\* A price that triggers and values 1000 units of tokenIn at one of tokenOut; the same
\* without a usable USD feed; with tokenOut twice as dear, so that the signed
\* minimum is above the oracle floor; a price that does not trigger.  The same
\* prices value l2, whose floor 4 units of USDC and 6 wei meet together.  A round
\* is stale as a trigger two blocks after it was written, or three where the
\* feed has bounds; as a USD price three blocks after.
ReadsAt(at) ==
    {[sequencerUp |-> TRUE, trigger |-> Round(2, at), in |-> Round(1, at), out |-> Round(1000, at)],
     [sequencerUp |-> FALSE, trigger |-> Round(2, at), in |-> Round(1, at), out |-> Round(1000, at)],
     [sequencerUp |-> TRUE, trigger |-> Round(2, at), in |-> Round(1, at), out |-> Round(2000, at)],
     [sequencerUp |-> TRUE, trigger |-> Round(3, at), in |-> Round(0, at), out |-> Round(1000, at)]}

MCReads == ReadsAt(2) \cup ReadsAt(5)

MCOracleConfigs == {[maxStaleness |-> 2, minPrice |-> 1, maxPrice |-> 0]}

\* The deployed contract: bootstrap and both feeds queued in block 0, the feeds
\* executed in block 1; before the DCA history starts, a change of r2 was
\* queued and cancelled, too, which leaves no announcement within the bound.
Deployed(block, cancelled, spent, extra) ==
    LET feeds == {TokenFeed(usdc, f1), TokenFeed(weth, f1)} IN
    /\ now = block
    /\ admin = a1
    /\ paused = FALSE
    /\ bootstrapped = TRUE
    /\ whitelistedRouters = {r1}
    /\ whitelistedExecutors = {x1}
    /\ timelockActions = {}
    /\ pendingExecutorChanges = [x \in Executors |-> NoProposal]
    /\ oracleConfigs = [f \in Feeds |-> Unregistered]
    /\ tokenUsdFeeds = [t \in Assets |-> CASE t = usdc -> f1
                                           [] t = weth -> f1
                                           [] OTHER    -> NoFeed]
    /\ held = [t \in Assets |-> 0]
    /\ announced = {[payload |-> p, at |-> 0] : p \in feeds \cup extra}
    /\ genesis = {[payload |-> RouterChange(r1, TRUE), at |-> 0],
                  [payload |-> ExecutorChange(x1, TRUE), at |-> 0]}
    /\ effects = {[payload |-> p, queuedAt |-> 0, at |-> 1] : p \in feeds}
    /\ nonceBitmap = {<<u1, n>> : n \in spent}
    /\ cancelledOrders = cancelled
    /\ dcaExecutions = [o \in Orders |-> 0]
    /\ dcaLastExecution = [o \in Orders |-> 0]
    /\ ledger = [o \in Orders |-> NoFills]

DcaOrders == {o \in Orders : IsDca(o)}

MCInit ==
    \/ Deployed(2, Orders \ DcaOrders, {1, 7}, {RouterChange(r2, TRUE)})
    \/ Deployed(5, DcaOrders, {1}, {})

MCSpec == MCInit /\ [][Next]_vars
=============================================================================
