--------------------------- MODULE OrderExecutorV3 ---------------------------
(***************************************************************************)
(* The fills of TeraSwapOrderExecutorV3 on top of its administration       *)
(* (TimelockGovernance): executeOrder by a whitelisted keeper, cancelOrder *)
(* and invalidateUnorderedNonces by the owners.                            *)
(*                                                                         *)
(* An order stands for its EIP-712 hash and is one its owner signed: a     *)
(* call with any other signature reverts.  What executeOrder reads from    *)
(* outside (feeds, the router's output, whether the owner's wallet accepts *)
(* ETH) is a parameter of the action; whether the owner's balance and      *)
(* allowance cover the chunk only decides whether the call reverts.        *)
(* Prices and amounts are integers on the scales of the code, with         *)
(* TokenUnit[t] for 10^decimals and USD prices already at 18 decimals.     *)
(***************************************************************************)
EXTENDS TimelockGovernance, Integers

CONSTANTS
    Owners,          \* users
    Nonces,          \* positions of the nonce bitmap
    Orders,          \* hashes of the signed orders
    Order,           \* the signed struct of each order
    Routes,          \* router calldata, by hash
    ZeroHash,        \* routerDataHash = bytes32(0)
    WETH,            \* the wrapped-ETH token
    NoTrigger,       \* priceFeed = address(0)
    TokenUnit,       \* 10^tokenDecimals of each token
    MaxStaleness,    \* MAX_STALENESS
    FeedStaleness,   \* maxStaleness of each fair-value feed, 0 for the default
    Reads,           \* what a fill may read of the feeds
    TokenOutputs,    \* amounts of tokenOut a router may return
    EthOutputs       \* amounts of ETH a router may return

FeeBps            == 10
BpsDenominator    == 10000
MinOrderAmount    == 10000
MaxOrderSlippage  == 500

OrderRecords ==
    [owner : Owners, tokenIn : Assets, tokenOut : Assets,
     amountIn : Nat, minAmountOut : Nat, maxSlippageBps : Nat,
     orderType : {"LIMIT", "STOP_LOSS", "DCA"}, condition : {"ABOVE", "BELOW"},
     targetPrice : Nat, priceFeed : Feeds \cup {NoTrigger}, expiry : Nat,
     nonce : Nonces, router : Routers, routerDataHash : Routes \cup {ZeroHash},
     dcaInterval : Nat, dcaTotal : Nat]

\* latestRoundData() of a feed; complete is answeredInRound >= roundId.
Rounds == [answer : Int, updatedAt : Nat, complete : BOOLEAN]

ASSUME OrderAssumption ==
    /\ Order \in [Orders -> OrderRecords]
    /\ \A o \in Orders : Order[o].tokenIn # ETH /\ Order[o].tokenOut # ETH
    /\ ZeroHash \notin Routes
    /\ WETH \in Assets \ {ETH}
    /\ NoTrigger \notin Feeds
    /\ TokenUnit \in [Assets -> Nat \ {0}]
    /\ MaxStaleness \in Nat
    /\ FeedStaleness \in [Feeds -> Nat]
    /\ Reads \subseteq [sequencerUp : BOOLEAN, trigger : Rounds, in : Rounds, out : Rounds]
    /\ TokenOutputs \subseteq Nat /\ EthOutputs \subseteq Nat

VARIABLES
    nonceBitmap,       \* the <<owner, nonce>> bits that are set
    cancelledOrders,
    dcaExecutions,
    dcaLastExecution,
    ledger             \* history: what the Transfer events say of each order

fillVars == <<nonceBitmap, cancelledOrders, dcaExecutions, dcaLastExecution, ledger>>
vars     == <<govVars, fillVars>>

\* fills: OrderExecuted events; firstAt: block of the first; pulled: tokenIn
\* taken from the owner; fee: sent to feeRecipient; got, gotEth: delivered to
\* the owner; fair, fairGot: fair value of the fills that were priced by the
\* feeds and delivered in kind, and what those fills delivered.
NoFills == [fills |-> 0, firstAt |-> 0, pulled |-> 0, fee |-> 0,
            got |-> 0, gotEth |-> 0, fair |-> 0, fairGot |-> 0]

Ledgers == [fills : Nat, firstAt : Nat, pulled : Nat, fee : Nat,
            got : Nat, gotEth : Nat, fair : Nat, fairGot : Nat]

FillInit ==
    /\ nonceBitmap = {}
    /\ cancelledOrders = {}
    /\ dcaExecutions = [o \in Orders |-> 0]
    /\ dcaLastExecution = [o \in Orders |-> 0]
    /\ ledger = [o \in Orders |-> NoFills]

Init == GovInit /\ FillInit

-----------------------------------------------------------------------------
(* The checks of executeOrder, in the order of the code.                    *)

IsDca(o) == Order[o].orderType = "DCA"

NonceOf(o) == <<Order[o].owner, Order[o].nonce>>

\* Slip: the signed slippage is not held against the cap.
AdmissibleUncapped(by, o) ==
    /\ by \in whitelistedExecutors
    /\ ~paused
    /\ Order[o].minAmountOut # 0
    /\ Order[o].amountIn >= MinOrderAmount
    /\ o \notin cancelledOrders
    /\ now <= Order[o].expiry
    /\ Order[o].router \in whitelistedRouters

\* Slip: the router of the signed order is trusted as it is.
AdmissibleAnyRouter(by, o) ==
    /\ by \in whitelistedExecutors
    /\ ~paused
    /\ Order[o].maxSlippageBps <= MaxOrderSlippage
    /\ Order[o].minAmountOut # 0
    /\ Order[o].amountIn >= MinOrderAmount
    /\ o \notin cancelledOrders
    /\ now <= Order[o].expiry

\* Caller, pause, signed bounds, order state, router.
Admissible(by, o) ==
    /\ by \in whitelistedExecutors
    /\ ~paused
    /\ Order[o].maxSlippageBps <= MaxOrderSlippage
    /\ Order[o].minAmountOut # 0
    /\ Order[o].amountIn >= MinOrderAmount
    /\ o \notin cancelledOrders
    /\ now <= Order[o].expiry
    /\ Order[o].router \in whitelistedRouters

\* A non-DCA order pins its calldata; a DCA order leaves it to the keeper.
RouteAllowed(o, routerData) ==
    ~IsDca(o) => /\ Order[o].routerDataHash # ZeroHash
                 /\ routerData = Order[o].routerDataHash

\* Slip: the minimum size is asked of the order and not of its chunks.
DcaDueAnyChunk(o) ==
    /\ Order[o].dcaTotal # 0
    /\ Order[o].dcaInterval # 0
    /\ dcaExecutions[o] < Order[o].dcaTotal
    /\ now >= dcaLastExecution[o] + Order[o].dcaInterval

DcaDue(o) ==
    /\ Order[o].dcaTotal # 0
    /\ Order[o].dcaInterval # 0
    /\ dcaExecutions[o] < Order[o].dcaTotal
    /\ now >= dcaLastExecution[o] + Order[o].dcaInterval
    /\ Order[o].amountIn \div Order[o].dcaTotal >= MinOrderAmount

NonceFree(o) == NonceOf(o) \notin nonceBitmap

Due(o) == IF IsDca(o) THEN DcaDue(o) ELSE NonceFree(o)

\* amountIn * k / dcaTotal: what the first k chunks pull together.
Cumulative(o, k) == (Order[o].amountIn * k) \div Order[o].dcaTotal

\* Slip: every chunk is amountIn / dcaTotal, rounded down.
ExecuteAmountPerChunk(o) ==
    IF IsDca(o) THEN Order[o].amountIn \div Order[o].dcaTotal ELSE Order[o].amountIn

ExecuteAmount(o) ==
    LET k == dcaExecutions[o] IN
    IF ~IsDca(o) THEN Order[o].amountIn
    ELSE IF k = Order[o].dcaTotal - 1
         THEN Order[o].amountIn - Cumulative(o, k)
         ELSE Cumulative(o, k + 1) - Cumulative(o, k)

Fee(amount) == (amount * FeeBps) \div BpsDenominator

\* The signed minimum, scaled to the chunk.
ScaledMin(o, amount) ==
    IF IsDca(o) THEN (Order[o].minAmountOut * amount) \div Order[o].amountIn
    ELSE Order[o].minAmountOut

-----------------------------------------------------------------------------
(* Feeds.                                                                   *)

Fresh(read, staleness) == now - read.updatedAt <= staleness

\* _checkPriceCondition: an order without a trigger feed is unconditional.
PriceConditionMet(o, read) ==
    LET feed   == Order[o].priceFeed
        config == oracleConfigs[feed]
        bounded == config # Unregistered
        staleness == IF bounded /\ config.maxStaleness > 0
                     THEN config.maxStaleness ELSE MaxStaleness
    IN feed # NoTrigger =>
        /\ read.answer > 0
        /\ Fresh(read, staleness)
        /\ read.complete
        /\ bounded => /\ config.minPrice > 0 => read.answer >= config.minPrice
                      /\ config.maxPrice > 0 => read.answer <= config.maxPrice
        /\ IF Order[o].condition = "ABOVE" THEN read.answer >= Order[o].targetPrice
                                           ELSE read.answer <= Order[o].targetPrice

\* _readFeedUsd: anything but a positive, fresh and complete round of a
\* registered feed counts as no feed.
UsdPriced(t, read) ==
    LET feed      == tokenUsdFeeds[t]
        staleness == IF FeedStaleness[feed] > 0 THEN FeedStaleness[feed]
                                                ELSE MaxStaleness
    IN /\ feed # NoFeed
       /\ read.answer > 0
       /\ Fresh(read, staleness)
       /\ read.complete

HasFeed(o, net, sequencerUp, readIn, readOut) ==
    /\ net # 0
    /\ sequencerUp
    /\ UsdPriced(Order[o].tokenIn, readIn)
    /\ UsdPriced(Order[o].tokenOut, readOut)

\* _fairValueOut: two floored divisions, through USD.
FairOut(o, net, readIn, readOut) ==
    LET usdValue == (net * readIn.answer) \div TokenUnit[Order[o].tokenIn]
    IN  (usdValue * TokenUnit[Order[o].tokenOut]) \div readOut.answer

OracleFloor(o, fair) ==
    (fair * (BpsDenominator - Order[o].maxSlippageBps)) \div BpsDenominator

\* Slip: the oracle floor replaces the signed minimum.
LargerIsFirst(a, b) == a

Larger(a, b) == IF a >= b THEN a ELSE b

-----------------------------------------------------------------------------
(* Delivery: what the owner is sent of the router's two outputs.            *)

StandardDelivery(floorOut, tok) == tok >= floorOut

EthDelivery(o, floorOut, tok, eth) ==
    tok < floorOut /\ Order[o].tokenOut = WETH /\ eth >= floorOut

\* Both amounts are added, whatever the two units are.
MixedDelivery(o, floorOut, tok, eth) ==
    /\ tok < floorOut
    /\ ~EthDelivery(o, floorOut, tok, eth)
    /\ tok + eth >= floorOut

\* A delivery in the unit of the floor: tokenOut, or the ETH that WETH wraps.
InKind(o, dEth) == dEth = 0 \/ Order[o].tokenOut = WETH

\* The fill of order o, pulling `amount', that delivers dTok and dEth of the
\* router's tok and eth.  Output that is not delivered stays in the contract,
\* and then its whole balance of tokenIn is refunded.
Settle(o, amount, tok, eth, dTok, dEth, fair) ==
    /\ nonceBitmap' = IF IsDca(o) THEN nonceBitmap
                                  ELSE nonceBitmap \cup {NonceOf(o)}
    /\ dcaExecutions' = [dcaExecutions EXCEPT ![o] = IF IsDca(o) THEN @ + 1 ELSE @]
    /\ dcaLastExecution' = [dcaLastExecution EXCEPT ![o] = IF IsDca(o) THEN now ELSE @]
    /\ held' = [held EXCEPT ![Order[o].tokenOut] = @ + (tok - dTok),
                            ![ETH]               = @ + (eth - dEth),
                            ![Order[o].tokenIn]  = 0]
    /\ ledger' = [ledger EXCEPT ![o] =
         [fills   |-> @.fills + 1,
          firstAt |-> IF @.fills = 0 THEN now ELSE @.firstAt,
          pulled  |-> @.pulled + amount,
          fee     |-> @.fee + Fee(amount),
          got     |-> @.got + dTok,
          gotEth  |-> @.gotEth + dEth,
          fair    |-> IF InKind(o, dEth) THEN @.fair + fair ELSE @.fair,
          fairGot |-> IF fair # 0 /\ InKind(o, dEth) THEN @.fairGot + dTok + dEth
                                                    ELSE @.fairGot]]

\* reads: the sequencer's status and the rounds of the trigger feed and of the
\* two USD feeds, none from the future.  An owner that refuses ETH is sent the
\* wrapped amount where the order is for WETH, and reverts a mixed delivery.
ExecuteOrder(by, o, routerData, reads, tok, eth, takesEth) ==
    LET amount   == ExecuteAmount(o)
        net      == amount - Fee(amount)
        min      == ScaledMin(o, amount)
        priced   == HasFeed(o, net, reads.sequencerUp, reads.in, reads.out)
        fair     == IF priced THEN FairOut(o, net, reads.in, reads.out) ELSE 0
        floorOut == IF priced THEN Larger(OracleFloor(o, fair), min) ELSE min
    IN /\ \A round \in {reads.trigger, reads.in, reads.out} : round.updatedAt <= now
       /\ Admissible(by, o)
       /\ RouteAllowed(o, routerData)
       /\ Due(o)
       /\ PriceConditionMet(o, reads.trigger)
       /\ min # 0
       /\ priced => fair # 0
       /\ \/ /\ StandardDelivery(floorOut, tok)
             /\ Settle(o, amount, tok, eth, tok, 0, fair)
          \/ /\ EthDelivery(o, floorOut, tok, eth)
             /\ Settle(o, amount, tok, eth, 0, eth, fair)
          \/ /\ MixedDelivery(o, floorOut, tok, eth)
             /\ eth > 0 => takesEth
             /\ Settle(o, amount, tok, eth, tok, eth, fair)
       /\ UNCHANGED <<modes, admin, whitelists, queues, oracles, history,
                      cancelledOrders>>

-----------------------------------------------------------------------------
(* What an owner can do.                                                    *)

\* Slip: the nonce is marked instead of the order hash.
CancelOrderByNonce(by, o) ==
    /\ by = Order[o].owner
    /\ cancelledOrders' = cancelledOrders \cup {NonceOf(o)}
    /\ UNCHANGED <<govVars, nonceBitmap, dcaExecutions, dcaLastExecution, ledger>>

CancelOrder(by, o) ==
    /\ by = Order[o].owner
    /\ cancelledOrders' = cancelledOrders \cup {o}
    /\ UNCHANGED <<govVars, nonceBitmap, dcaExecutions, dcaLastExecution, ledger>>

\* Slip: the mask flips bits instead of setting them.
FlipUnorderedNonces(by, mask) ==
    LET bits == {<<by, n>> : n \in mask} IN
    /\ nonceBitmap' = (nonceBitmap \ bits) \cup (bits \ nonceBitmap)
    /\ UNCHANGED <<govVars, cancelledOrders, dcaExecutions, dcaLastExecution, ledger>>

\* The mask only ever sets bits.
InvalidateUnorderedNonces(by, mask) ==
    /\ nonceBitmap' = nonceBitmap \cup {<<by, n>> : n \in mask}
    /\ UNCHANGED <<govVars, cancelledOrders, dcaExecutions, dcaLastExecution, ledger>>

Fill ==
    \E by \in Executors, o \in Orders, routerData \in Routes, reads \in Reads,
       tok \in TokenOutputs, eth \in EthOutputs, takesEth \in BOOLEAN :
        ExecuteOrder(by, o, routerData, reads, tok, eth, takesEth)

OwnerAct ==
    \E by \in Owners :
        \/ \E o \in Orders : CancelOrder(by, o)
        \/ \E mask \in SUBSET Nonces : InvalidateUnorderedNonces(by, mask)

Administer == GovNext /\ UNCHANGED fillVars

Next == Fill \/ OwnerAct \/ Administer

Spec == Init /\ [][Next]_vars

-----------------------------------------------------------------------------
(***************************************************************************)
(* Properties.                                                             *)
(***************************************************************************)

\* The types of the contract's storage and of the ledger.
TypeOK ==
    /\ GovTypeOK
    /\ nonceBitmap \subseteq Owners \X Nonces
    /\ cancelledOrders \subseteq Orders
    /\ dcaExecutions \in [Orders -> Nat]
    /\ dcaLastExecution \in [Orders -> Nat]
    /\ ledger \in [Orders -> Ledgers]

Received(o) == ledger[o].got + ledger[o].gotEth

\* A nonce buys one fill: a non-DCA order fills at most once, and of the orders
\* that share an owner and a nonce (an order and its replacement) at most one
\* ever fills.
NonceSpentOnce ==
    \A o \in Orders : ~IsDca(o) =>
        /\ ledger[o].fills <= 1
        /\ \A p \in Orders :
            /\ ~IsDca(p) /\ p # o /\ NonceOf(p) = NonceOf(o)
            => ledger[o].fills = 0 \/ ledger[p].fills = 0

\* After k fills a DCA order has pulled exactly floor(amountIn * k / dcaTotal)
\* from its owner: rounding never makes the chunks drift, they never exceed
\* amountIn, and the last one completes it to the unit.
DcaPullsExactly ==
    \A o \in Orders : IsDca(o) =>
        /\ dcaExecutions[o] = ledger[o].fills
        /\ ledger[o].fills > 0 =>
            /\ ledger[o].fills <= Order[o].dcaTotal
            /\ ledger[o].pulled = Cumulative(o, ledger[o].fills)
            /\ ledger[o].pulled <= Order[o].amountIn
            /\ ledger[o].fills = Order[o].dcaTotal =>
                ledger[o].pulled = Order[o].amountIn

\* k fills of a DCA order span at least k - 1 intervals: however the keeper
\* retries, catches up or runs twice, it never fills ahead of the schedule.
DcaKeepsItsPace ==
    \A o \in Orders : IsDca(o) /\ ledger[o].fills > 0 =>
        /\ dcaLastExecution[o] >=
              ledger[o].firstAt + (ledger[o].fills - 1) * Order[o].dcaInterval
        /\ dcaLastExecution[o] <= now

\* Over its whole life an order delivers, per unit pulled, at least its signed
\* minimum, up to less than one unit of rounding per fill: scaling the minimum
\* to chunks costs a completed DCA order less than dcaTotal units.  Wei are
\* counted as units of tokenOut, as the contract counts them: for another token
\* than WETH this is what its floor means and not what the owner signed.
MinOutputOverLifetime ==
    \A o \in Orders :
        Received(o) * Order[o].amountIn + ledger[o].fills * (Order[o].amountIn - 1)
            >= Order[o].minAmountOut * ledger[o].pulled

\* The fills priced by the feeds and delivered in kind lose at most
\* MAX_ORDER_SLIPPAGE_BPS of their fair value together (up to one unit of
\* rounding per fill), whatever the signed bound of the order and the calldata
\* of the keeper.  A mixed delivery for another token than WETH has no such
\* bound: its wei are held against a floor in units of the token, and a fill can
\* meet the oracle floor with hardly any value in it.
LossBoundedByCap ==
    \A o \in Orders :
        (ledger[o].fairGot + ledger[o].fills) * BpsDenominator
            >= ledger[o].fair * (BpsDenominator - MaxOrderSlippage)

\* No fill is free and none is overcharged: every fill, the smallest DCA chunk
\* included, pays at least the fee of MIN_ORDER_AMOUNT, and all of them together
\* at most FEE_BPS of what they pulled.
FeeWithinBand ==
    \A o \in Orders :
        /\ ledger[o].fee >= ledger[o].fills * Fee(MinOrderAmount)
        /\ ledger[o].fee * BpsDenominator <= ledger[o].pulled * FeeBps

\* An order that may not move any more: stopped by its owner, by time, by its
\* own completion or by the administration.
Stopped(o) ==
    \/ paused
    \/ o \in cancelledOrders
    \/ now > Order[o].expiry
    \/ Order[o].router \notin whitelistedRouters
    \/ ~IsDca(o) /\ NonceOf(o) \in nonceBitmap
    \/ IsDca(o) /\ ledger[o].fills = Order[o].dcaTotal

\* The owner's word is final: no step moves tokens of a stopped order, and no
\* step, of the administration included, takes back a cancellation or a spent
\* or invalidated nonce.
StoppedOrdersDoNotMove ==
    [][/\ \A o \in Orders : Stopped(o) => ledger'[o] = ledger[o]
       /\ cancelledOrders \subseteq cancelledOrders'
       /\ nonceBitmap \subseteq nonceBitmap']_vars

\* Every fill went through a router that the event log had shown, by the
\* bootstrap or by an announcement at least the timelock earlier.
FillsUseAnnouncedRouters ==
    [][\A o \in Orders : ledger'[o] # ledger[o] =>
        LET grant == RouterChange(Order[o].router, TRUE)
        IN  InGenesis(grant) \/ AnnouncedInTime(grant)]_vars

\* The orders as OrderLife sees them.
TermsOf(o) == [total |-> IF IsDca(o) THEN Order[o].dcaTotal ELSE 1, recurring |-> IsDca(o)]

RivalsOf(o) == {p \in Orders : ~IsDca(p) /\ NonceOf(p) = NonceOf(o)}

Elapsed == {o \in Orders : IsDca(o) => now >= dcaLastExecution[o] + Order[o].dcaInterval}

Closed ==
    {o \in Orders : \/ o \in cancelledOrders
                    \/ now > Order[o].expiry
                    \/ ~IsDca(o) /\ NonceOf(o) \in nonceBitmap}

Life == INSTANCE OrderLife WITH
            Terms  <- {TermsOf(o) : o \in Orders},
            Rivals <- [o \in Orders |-> RivalsOf(o)],
            terms  <- [o \in Orders |-> TermsOf(o)],
            fills  <- [o \in Orders |-> ledger[o].fills],
            due    <- Elapsed,
            closed <- Closed

\* The contract implements OrderLife: every OrderExecuted event is a fill of an
\* order that is open and due and has a fill left, a fill closes exactly the
\* orders that share its nonce, and no other call fills, reopens or hurries one.
FollowsOrderLife == Life!Spec
=============================================================================
