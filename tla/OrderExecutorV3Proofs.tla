------------------------ MODULE OrderExecutorV3Proofs ------------------------
(***************************************************************************)
(* The safety of the fills for every set of signed orders, every feed      *)
(* reading, router output and administration.                              *)
(*                                                                         *)
(* A fill is first reduced to what matters of it (SoundFill): which chunk  *)
(* it pulls, that what it delivers meets both floors, and the assignments  *)
(* of Settle.  The inductive invariant ties the contract's counters to the *)
(* ledger (CountersMatch) and a filled nonce to its bit (FilledNonceIsSet);*)
(* the administration's part is GovInv, of which only `held' is touched.   *)
(***************************************************************************)
EXTENDS OrderExecutorV3, TimelockGovernanceProofs

-----------------------------------------------------------------------------
(* Products and floored quotients of naturals: the arithmetic of uint256   *)
(* where nothing overflows.                                                *)

LEMMA QuotientBounds ==
    ASSUME NEW n \in Nat, NEW d \in Nat, d # 0
    PROVE  /\ n \div d \in Nat
           /\ d * (n \div d) <= n
           /\ n < d * (n \div d) + d
OBVIOUS

LEMMA ProductMonotone ==
    ASSUME NEW a \in Nat, NEW b \in Nat, NEW c \in Nat, a <= b
    PROVE  a * c <= b * c /\ c * a <= c * b
OBVIOUS

LEMMA ProductReflectsLess ==
    ASSUME NEW a \in Int, NEW b \in Int, NEW d \in Nat, d # 0, d * a < d * b
    PROVE  a < b
OBVIOUS

LEMMA QuotientAtLeast ==
    ASSUME NEW q \in Nat, NEW n \in Nat, NEW d \in Nat, d # 0, d * q <= n
    PROVE  q <= n \div d
<1>1. d * q < d * (n \div d) + d /\ n \div d \in Nat
  BY QuotientBounds
<1>2. d * q < d * (n \div d + 1)
  BY <1>1
<1>3. q < n \div d + 1
  BY <1>1, <1>2, ProductReflectsLess
<1> QED BY <1>1, <1>3

LEMMA QuotientMonotone ==
    ASSUME NEW m \in Nat, NEW n \in Nat, NEW d \in Nat, d # 0, m <= n
    PROVE  m \div d <= n \div d
<1>1. m \div d \in Nat /\ d * (m \div d) <= m
  BY QuotientBounds
<1>2. d * (m \div d) <= n
  BY <1>1
<1> QED BY <1>1, <1>2, QuotientAtLeast

LEMMA QuotientOfProduct ==
    ASSUME NEW a \in Nat, NEW d \in Nat, d # 0
    PROVE  (a * d) \div d = a
<1>1. a <= (a * d) \div d
  BY QuotientAtLeast
<1>2. (a * d) \div d \in Nat /\ d * ((a * d) \div d) <= a * d
  BY QuotientBounds
<1>3. d * ((a * d) \div d) < d * (a + 1)
  BY <1>2
<1>4. (a * d) \div d < a + 1
  BY <1>2, <1>3, ProductReflectsLess
<1> QED BY <1>1, <1>2, <1>4

\* The floor of a sum is at least the sum of the floors.
LEMMA QuotientOfSum ==
    ASSUME NEW m \in Nat, NEW n \in Nat, NEW d \in Nat, d # 0
    PROVE  m \div d + n \div d <= (m + n) \div d
<1>1. /\ m \div d \in Nat /\ d * (m \div d) <= m
      /\ n \div d \in Nat /\ d * (n \div d) <= n
  BY QuotientBounds
<1>2. d * (m \div d + n \div d) <= m + n
  BY <1>1
<1> QED BY <1>1, <1>2, QuotientAtLeast

\* The k-th multiple of a share of a: at most a, all of it at the last one, and
\* each further step at least the rounded-down share.
LEMMA CumulativeShares ==
    ASSUME NEW a \in Nat, NEW t \in Nat, t # 0, NEW k \in Nat, k < t
    PROVE  /\ (a * k) \div t \in Nat
           /\ (a * (k + 1)) \div t \in Nat
           /\ (a * k) \div t + a \div t <= (a * (k + 1)) \div t
           /\ (a * (k + 1)) \div t <= a
           /\ k = t - 1 => (a * (k + 1)) \div t = a
<1>1. a * k \in Nat /\ a * (k + 1) \in Nat /\ a * (k + 1) = a * k + a
  OBVIOUS
<1>2. (a * k) \div t \in Nat /\ (a * (k + 1)) \div t \in Nat
  BY <1>1, QuotientBounds
<1>3. (a * k) \div t + a \div t <= (a * (k + 1)) \div t
  BY <1>1, QuotientOfSum
<1>4. (a * (k + 1)) \div t <= a
  <2>1. a * (k + 1) <= a * t /\ a * t \in Nat
    BY ProductMonotone
  <2>2. (a * (k + 1)) \div t <= (a * t) \div t
    BY <1>1, <2>1, QuotientMonotone
  <2> QED BY <2>2, QuotientOfProduct
<1>5. k = t - 1 => (a * (k + 1)) \div t = a
  BY QuotientOfProduct
<1> QED BY <1>2, <1>3, <1>4, <1>5

-----------------------------------------------------------------------------
(* The inductive invariant of the fills, and what a fill does.             *)

\* The counter of a DCA order is the number of its fills, no other order has
\* one, and an order that never filled has pulled nothing.
CountersMatch ==
    \A o \in Orders :
        /\ dcaExecutions[o] = IF IsDca(o) THEN ledger[o].fills ELSE 0
        /\ ledger[o].fills = 0 => ledger[o].pulled = 0

\* A non-DCA order that filled did so once and its nonce bit is set.
FilledNonceIsSet ==
    \A o \in Orders : ~IsDca(o) /\ ledger[o].fills # 0 =>
        ledger[o].fills = 1 /\ NonceOf(o) \in nonceBitmap

FillInv ==
    /\ GovInv
    /\ TypeOK
    /\ CountersMatch
    /\ FilledNonceIsSet
    /\ NonceSpentOnce
    /\ DcaPullsExactly
    /\ DcaKeepsItsPace
    /\ MinOutputOverLifetime
    /\ LossBoundedByCap
    /\ FeeWithinBand

\* A fill of o that pulls `amount' and delivers dTok and dEth of tok and eth.
SoundFill(o, amount, tok, eth, dTok, dEth, fair) ==
    /\ amount = ExecuteAmount(o)
    /\ {tok, eth, dTok, dEth, fair} \subseteq Nat
    /\ dTok <= tok /\ dEth <= eth
    /\ dTok + dEth >= ScaledMin(o, amount)
    /\ dTok + dEth >= OracleFloor(o, fair)
    /\ Settle(o, amount, tok, eth, dTok, dEth, fair)

-----------------------------------------------------------------------------
LEMMA OrderTypes ==
    ASSUME NEW o \in Orders
    PROVE  /\ Order[o].amountIn \in Nat /\ Order[o].minAmountOut \in Nat
           /\ Order[o].maxSlippageBps \in Nat /\ Order[o].dcaTotal \in Nat
           /\ Order[o].dcaInterval \in Nat /\ Order[o].expiry \in Nat
           /\ Order[o].tokenIn \in Assets /\ Order[o].tokenOut \in Assets
           /\ NonceOf(o) \in Owners \X Nonces
BY OrderAssumption DEF OrderAssumption, OrderRecords, NonceOf

\* What the ledger of an order holds.
LEMMA LedgerTypes ==
    ASSUME TypeOK, NEW o \in Orders
    PROVE  /\ ledger[o] \in Ledgers
           /\ ledger[o].fills \in Nat /\ ledger[o].firstAt \in Nat
           /\ ledger[o].pulled \in Nat /\ ledger[o].fee \in Nat
           /\ ledger[o].got \in Nat /\ ledger[o].gotEth \in Nat
           /\ ledger[o].fair \in Nat /\ ledger[o].fairGot \in Nat
           /\ dcaExecutions[o] \in Nat /\ dcaLastExecution[o] \in Nat
BY DEF TypeOK, Ledgers

\* The chunk that is due: at least the minimum order amount, and for a DCA
\* order exactly what is missing to the next cumulative share.
LEMMA ChunkFacts ==
    ASSUME TypeOK, NEW by, NEW o \in Orders, Admissible(by, o), Due(o)
    PROVE  /\ ExecuteAmount(o) \in Nat
           /\ ExecuteAmount(o) >= MinOrderAmount
           /\ IsDca(o) =>
                LET k == dcaExecutions[o] IN
                /\ k < Order[o].dcaTotal
                /\ Cumulative(o, k) \in Nat
                /\ Cumulative(o, k + 1) = Cumulative(o, k) + ExecuteAmount(o)
                /\ Cumulative(o, k + 1) <= Order[o].amountIn
                /\ k + 1 = Order[o].dcaTotal => Cumulative(o, k + 1) = Order[o].amountIn
<1> DEFINE a == Order[o].amountIn
           t == Order[o].dcaTotal
           k == dcaExecutions[o]
<1>1. CASE ~IsDca(o)
  BY <1>1, OrderTypes DEF ExecuteAmount, Admissible
<1>2. CASE IsDca(o)
  <2>1. /\ a \in Nat /\ t \in Nat /\ t # 0 /\ k \in Nat /\ k < t
        /\ a \div t >= MinOrderAmount
    BY <1>2, OrderTypes, LedgerTypes DEF Due, DcaDue
  <2>2. /\ Cumulative(o, k) = (a * k) \div t
        /\ Cumulative(o, k + 1) = (a * (k + 1)) \div t
        /\ ExecuteAmount(o) = IF k = t - 1 THEN a - Cumulative(o, k)
                              ELSE Cumulative(o, k + 1) - Cumulative(o, k)
    BY <1>2 DEF Cumulative, ExecuteAmount
  <2> HIDE DEF a, t, k
  <2>3. /\ (a * k) \div t \in Nat
        /\ (a * (k + 1)) \div t \in Nat
        /\ (a * k) \div t + a \div t <= (a * (k + 1)) \div t
        /\ (a * (k + 1)) \div t <= a
        /\ k = t - 1 => (a * (k + 1)) \div t = a
    BY <2>1, CumulativeShares
  <2>4. a \div t \in Nat /\ MinOrderAmount \in Nat
    BY <2>1, QuotientBounds DEF MinOrderAmount
  <2>5. ExecuteAmount(o) = Cumulative(o, k + 1) - Cumulative(o, k)
    BY <2>2, <2>3
  <2>6. ExecuteAmount(o) \in Nat /\ ExecuteAmount(o) >= MinOrderAmount
    BY <2>1, <2>2, <2>3, <2>4, <2>5
  <2>7. Cumulative(o, k + 1) = Cumulative(o, k) + ExecuteAmount(o)
    BY <2>2, <2>3, <2>5
  <2>8. k + 1 = t => k = t - 1
    BY <2>1
  <2> QED BY <2>1, <2>2, <2>3, <2>6, <2>7, <2>8 DEF a, t, k
<1> QED BY <1>1, <1>2

\* The fee is a natural number, at most the amount, and in the band.
LEMMA FeeFacts ==
    ASSUME NEW amount \in Nat
    PROVE  /\ Fee(amount) \in Nat /\ Fee(amount) <= amount
           /\ Fee(amount) * BpsDenominator <= amount * FeeBps
           /\ amount >= MinOrderAmount => Fee(amount) >= Fee(MinOrderAmount)
BY DEF Fee, BpsDenominator, FeeBps, MinOrderAmount

LEMMA FairOutType ==
    ASSUME NEW o \in Orders, NEW net \in Nat, NEW readIn \in Rounds, NEW readOut \in Rounds,
           readIn.answer > 0, readOut.answer > 0
    PROVE  FairOut(o, net, readIn, readOut) \in Nat
<1> DEFINE value == (net * readIn.answer) \div TokenUnit[Order[o].tokenIn]
<1>1. /\ TokenUnit[Order[o].tokenIn] \in Nat \ {0}
      /\ TokenUnit[Order[o].tokenOut] \in Nat
      /\ readIn.answer \in Nat /\ readOut.answer \in Nat \ {0}
  BY OrderTypes, OrderAssumption DEF OrderAssumption, Rounds
<1>2. value \in Nat
  <2>1. net * readIn.answer \in Nat
    BY <1>1
  <2> QED BY <1>1, <2>1, QuotientBounds
<1>3. value * TokenUnit[Order[o].tokenOut] \in Nat
  BY <1>1, <1>2
<1> HIDE DEF value
<1>4. (value * TokenUnit[Order[o].tokenOut]) \div readOut.answer \in Nat
  BY <1>1, <1>3, QuotientBounds
<1> QED BY <1>4 DEF FairOut, value

\* The part of the signed minimum that a chunk owes.
LEMMA ScaledMinFacts ==
    ASSUME NEW by, NEW o \in Orders, Admissible(by, o), NEW amount \in Nat,
           IsDca(o) \/ amount = Order[o].amountIn
    PROVE  /\ ScaledMin(o, amount) \in Nat
           /\ ScaledMin(o, amount) * Order[o].amountIn + Order[o].amountIn - 1
                  >= Order[o].minAmountOut * amount
<1> DEFINE a == Order[o].amountIn
           m == Order[o].minAmountOut
<1>1. a \in Nat /\ a # 0 /\ m \in Nat
  BY OrderTypes DEF Admissible, MinOrderAmount
<1>2. CASE IsDca(o)
  <2>1. ScaledMin(o, amount) = (m * amount) \div a
    BY <1>2 DEF ScaledMin
  <2>2. m * amount \in Nat
    BY <1>1
  <2> HIDE DEF a, m
  <2>3. (m * amount) \div a \in Nat /\ m * amount < a * ((m * amount) \div a) + a
    BY <1>1, <2>2, QuotientBounds
  <2> QED BY <1>1, <2>1, <2>2, <2>3 DEF a, m
<1>3. CASE ~IsDca(o)
  <2>1. ScaledMin(o, amount) = m /\ amount = a
    BY <1>3 DEF ScaledMin
  <2> QED BY <1>1, <2>1
<1> QED BY <1>2, <1>3

\* Every delivery of executeOrder settles a sound fill.
LEMMA ExecuteOrderIsSound ==
    ASSUME TypeOK, NEW by, NEW o \in Orders, NEW routerData, NEW reads \in Reads,
           NEW tok \in TokenOutputs, NEW eth \in EthOutputs, NEW takesEth,
           ExecuteOrder(by, o, routerData, reads, tok, eth, takesEth)
    PROVE  /\ Admissible(by, o) /\ Due(o)
           /\ UNCHANGED <<modes, admin, whitelists, queues, oracles, history,
                          cancelledOrders>>
           /\ \E dTok, dEth, fair :
                  SoundFill(o, ExecuteAmount(o), tok, eth, dTok, dEth, fair)
<1> DEFINE amount   == ExecuteAmount(o)
           net      == amount - Fee(amount)
           min      == ScaledMin(o, amount)
           priced   == HasFeed(o, net, reads.sequencerUp, reads.in, reads.out)
           fair     == IF priced THEN FairOut(o, net, reads.in, reads.out) ELSE 0
           floorOut == IF priced THEN Larger(OracleFloor(o, fair), min) ELSE min
<1>1. Admissible(by, o) /\ Due(o)
  BY DEF ExecuteOrder
<1>2. amount \in Nat /\ net \in Nat /\ min \in Nat /\ tok \in Nat /\ eth \in Nat
  <2>1. amount \in Nat
    BY <1>1, ChunkFacts
  <2>2. Fee(amount) \in Nat /\ Fee(amount) <= amount
    BY <2>1, FeeFacts
  <2>3. IsDca(o) \/ amount = Order[o].amountIn
    BY DEF ExecuteAmount
  <2>4. min \in Nat
    BY <1>1, <2>1, <2>3, ScaledMinFacts
  <2>5. tok \in Nat /\ eth \in Nat
    BY OrderAssumption DEF OrderAssumption
  <2> QED BY <2>1, <2>2, <2>4, <2>5
<1>3. fair \in Nat
  <2>1. CASE priced
    <3>1. reads.in \in Rounds /\ reads.out \in Rounds
      BY OrderAssumption DEF OrderAssumption
    <3>2. reads.in.answer > 0 /\ reads.out.answer > 0
      BY <2>1 DEF HasFeed, UsdPriced
    <3> QED BY <1>2, <2>1, <3>1, <3>2, FairOutType
  <2>2. CASE ~priced
    BY <2>2
  <2> QED BY <2>1, <2>2
<1>4. OracleFloor(o, fair) \in Nat /\ floorOut >= OracleFloor(o, fair) /\ floorOut >= min
  <2>1. /\ Order[o].maxSlippageBps \in Nat
        /\ Order[o].maxSlippageBps <= MaxOrderSlippage
    BY <1>1, OrderTypes DEF Admissible
  <2>2. fair * (BpsDenominator - Order[o].maxSlippageBps) \in Nat
    BY <1>3, <2>1 DEF BpsDenominator, MaxOrderSlippage
  <2>3. OracleFloor(o, fair) \in Nat
    BY <2>2, QuotientBounds DEF OracleFloor, BpsDenominator
  <2>4. CASE priced
    BY <1>2, <2>3, <2>4 DEF Larger
  <2>5. CASE ~priced
    <3>1. OracleFloor(o, fair) = 0
      BY <2>1, <2>5 DEF OracleFloor, BpsDenominator
    <3> QED BY <1>2, <2>5, <3>1
  <2> QED BY <2>3, <2>4, <2>5
<1>5. /\ UNCHANGED <<modes, admin, whitelists, queues, oracles, history,
                     cancelledOrders>>
      /\ \/ /\ StandardDelivery(floorOut, tok)
            /\ Settle(o, amount, tok, eth, tok, 0, fair)
         \/ /\ EthDelivery(o, floorOut, tok, eth)
            /\ Settle(o, amount, tok, eth, 0, eth, fair)
         \/ /\ MixedDelivery(o, floorOut, tok, eth)
            /\ Settle(o, amount, tok, eth, tok, eth, fair)
  BY DEF ExecuteOrder
<1>6. floorOut \in Nat
  BY <1>2, <1>4 DEF Larger
<1> HIDE DEF amount, net, min, priced, fair, floorOut
<1>7. CASE StandardDelivery(floorOut, tok) /\ Settle(o, amount, tok, eth, tok, 0, fair)
  <2>1. SoundFill(o, amount, tok, eth, tok, 0, fair)
    BY <1>2, <1>3, <1>4, <1>6, <1>7 DEF SoundFill, StandardDelivery, amount, min
  <2> QED BY <1>1, <1>5, <2>1 DEF amount
<1>8. CASE EthDelivery(o, floorOut, tok, eth) /\ Settle(o, amount, tok, eth, 0, eth, fair)
  <2>1. SoundFill(o, amount, tok, eth, 0, eth, fair)
    BY <1>2, <1>3, <1>4, <1>6, <1>8 DEF SoundFill, EthDelivery, amount, min
  <2> QED BY <1>1, <1>5, <2>1 DEF amount
<1>9. CASE MixedDelivery(o, floorOut, tok, eth) /\ Settle(o, amount, tok, eth, tok, eth, fair)
  <2>1. SoundFill(o, amount, tok, eth, tok, eth, fair)
    BY <1>2, <1>3, <1>4, <1>6, <1>9 DEF SoundFill, MixedDelivery, amount, min
  <2> QED BY <1>1, <1>5, <2>1 DEF amount
<1> QED BY <1>5, <1>7, <1>8, <1>9

-----------------------------------------------------------------------------
(* A sound fill preserves the invariant.                                    *)

\* What Settle assigns, order by order.
LEMMA SettleFacts ==
    ASSUME FillInv, NEW by, NEW o \in Orders, Admissible(by, o), Due(o),
           NEW tok, NEW eth, NEW dTok, NEW dEth, NEW fair,
           SoundFill(o, ExecuteAmount(o), tok, eth, dTok, dEth, fair)
    PROVE  /\ ledger' \in [Orders -> Ledgers]
           /\ \A p \in Orders \ {o} :
                /\ ledger'[p] = ledger[p]
                /\ dcaExecutions'[p] = dcaExecutions[p]
                /\ dcaLastExecution'[p] = dcaLastExecution[p]
           /\ ledger'[o].fills = ledger[o].fills + 1
           /\ ledger'[o].firstAt = IF ledger[o].fills = 0 THEN now ELSE ledger[o].firstAt
           /\ ledger'[o].pulled = ledger[o].pulled + ExecuteAmount(o)
           /\ ledger'[o].fee = ledger[o].fee + Fee(ExecuteAmount(o))
           /\ ledger'[o].got = ledger[o].got + dTok
           /\ ledger'[o].gotEth = ledger[o].gotEth + dEth
           /\ ledger'[o].fair = IF InKind(o, dEth) THEN ledger[o].fair + fair
                                                  ELSE ledger[o].fair
           /\ ledger'[o].fairGot = IF fair # 0 /\ InKind(o, dEth)
                                     THEN ledger[o].fairGot + dTok + dEth
                                     ELSE ledger[o].fairGot
           /\ dcaExecutions'[o] = dcaExecutions[o] + IF IsDca(o) THEN 1 ELSE 0
           /\ dcaLastExecution'[o] = IF IsDca(o) THEN now ELSE dcaLastExecution[o]
           /\ nonceBitmap' = IF IsDca(o) THEN nonceBitmap
                                         ELSE nonceBitmap \cup {NonceOf(o)}
<1>1. TypeOK /\ GovTypeOK
  BY DEF FillInv, GovInv
<1>2. /\ ExecuteAmount(o) \in Nat /\ Fee(ExecuteAmount(o)) \in Nat
      /\ dTok \in Nat /\ dEth \in Nat /\ fair \in Nat /\ now \in Nat
  BY <1>1, ChunkFacts, FeeFacts DEF SoundFill, GovTypeOK
<1> DEFINE old == ledger[o]
           new == [fills   |-> old.fills + 1,
                   firstAt |-> IF old.fills = 0 THEN now ELSE old.firstAt,
                   pulled  |-> old.pulled + ExecuteAmount(o),
                   fee     |-> old.fee + Fee(ExecuteAmount(o)),
                   got     |-> old.got + dTok,
                   gotEth  |-> old.gotEth + dEth,
                   fair    |-> IF InKind(o, dEth) THEN old.fair + fair ELSE old.fair,
                   fairGot |-> IF fair # 0 /\ InKind(o, dEth)
                                 THEN old.fairGot + dTok + dEth ELSE old.fairGot]
<1>3. ledger' = [ledger EXCEPT ![o] = new]
  BY DEF SoundFill, Settle
<1>4. new \in Ledgers
  BY <1>1, <1>2, LedgerTypes DEF Ledgers
<1>5. /\ ledger \in [Orders -> Ledgers]
      /\ dcaExecutions \in [Orders -> Nat] /\ dcaLastExecution \in [Orders -> Nat]
  BY <1>1 DEF TypeOK
<1>6. ledger'[o] = new /\ ledger' \in [Orders -> Ledgers]
  <2> HIDE DEF new
  <2> QED BY <1>3, <1>4, <1>5
<1>7. \A p \in Orders \ {o} : ledger'[p] = ledger[p]
  <2> HIDE DEF new
  <2> QED BY <1>3, <1>5
<1>8. /\ dcaExecutions' = [dcaExecutions EXCEPT ![o] = IF IsDca(o) THEN @ + 1 ELSE @]
      /\ dcaLastExecution' = [dcaLastExecution EXCEPT ![o] = IF IsDca(o) THEN now ELSE @]
      /\ nonceBitmap' = IF IsDca(o) THEN nonceBitmap ELSE nonceBitmap \cup {NonceOf(o)}
  BY DEF SoundFill, Settle
<1>9. /\ dcaExecutions'[o] = dcaExecutions[o] + IF IsDca(o) THEN 1 ELSE 0
      /\ dcaLastExecution'[o] = IF IsDca(o) THEN now ELSE dcaLastExecution[o]
      /\ \A p \in Orders \ {o} : /\ dcaExecutions'[p] = dcaExecutions[p]
                                /\ dcaLastExecution'[p] = dcaLastExecution[p]
  BY <1>5, <1>8
<1> QED BY <1>6, <1>7, <1>8, <1>9

LEMMA FillPreservesTypes ==
    ASSUME FillInv, NEW by, NEW o \in Orders, Admissible(by, o), Due(o),
           NEW tok, NEW eth, NEW dTok, NEW dEth, NEW fair,
           SoundFill(o, ExecuteAmount(o), tok, eth, dTok, dEth, fair),
           UNCHANGED <<modes, admin, whitelists, queues, oracles, history,
                       cancelledOrders>>
    PROVE  GovInv' /\ TypeOK'
<1>1. TypeOK /\ GovTypeOK /\ GovInv
  BY DEF FillInv, GovInv
<1>2. held' \in [Assets -> Nat]
  <2> DEFINE tokLeft == tok - dTok
             ethLeft == eth - dEth
  <2>1. tokLeft \in Nat /\ ethLeft \in Nat /\ held \in [Assets -> Nat]
    BY <1>1 DEF SoundFill, GovTypeOK
  <2>2. /\ Order[o].tokenIn \in Assets /\ Order[o].tokenOut \in Assets
        /\ ETH \in Assets
    BY OrderTypes, GovernanceAssumption DEF GovernanceAssumption
  <2>3. held' = [held EXCEPT ![Order[o].tokenOut] = @ + tokLeft,
                             ![ETH]               = @ + ethLeft,
                             ![Order[o].tokenIn]  = 0]
    BY DEF SoundFill, Settle
  <2> HIDE DEF tokLeft, ethLeft
  <2> QED BY <2>1, <2>2, <2>3
<1>3. GovTypeOK'
  BY <1>1, <1>2 DEF GovTypeOK, modes, whitelists, queues, oracles, history
<1>4. GovInv'
  <2>1. /\ now' >= now /\ UNCHANGED <<admin, whitelists, tokenUsdFeeds, history>>
        /\ timelockActions' = timelockActions
        /\ pendingExecutorChanges' = pendingExecutorChanges
    BY <1>1 DEF GovTypeOK, modes, queues, oracles
  <2> QED BY <1>1, <1>3, <2>1, QuietStep
<1>5. TypeOK'
  <2>1. ledger' \in [Orders -> Ledgers]
    BY SettleFacts
  <2>2. nonceBitmap' \subseteq Owners \X Nonces
    BY <1>1, OrderTypes, SettleFacts DEF TypeOK
  <2>3. dcaExecutions' \in [Orders -> Nat] /\ dcaLastExecution' \in [Orders -> Nat]
    BY <1>1 DEF TypeOK, GovTypeOK, SoundFill, Settle
  <2> QED BY <1>1, <1>3, <2>1, <2>2, <2>3 DEF TypeOK
<1> QED BY <1>4, <1>5

LEMMA FillPreservesCounters ==
    ASSUME FillInv, NEW by, NEW o \in Orders, Admissible(by, o), Due(o),
           NEW tok, NEW eth, NEW dTok, NEW dEth, NEW fair,
           SoundFill(o, ExecuteAmount(o), tok, eth, dTok, dEth, fair), now' = now
    PROVE  /\ CountersMatch' /\ FilledNonceIsSet' /\ NonceSpentOnce'
           /\ DcaPullsExactly' /\ DcaKeepsItsPace'
<1> USE DEF FillInv
<1>1. /\ \A p \in Orders \ {o} :
           /\ ledger'[p] = ledger[p]
           /\ dcaExecutions'[p] = dcaExecutions[p]
           /\ dcaLastExecution'[p] = dcaLastExecution[p]
      /\ ledger'[o].fills = ledger[o].fills + 1
      /\ ledger'[o].firstAt = IF ledger[o].fills = 0 THEN now ELSE ledger[o].firstAt
      /\ ledger'[o].pulled = ledger[o].pulled + ExecuteAmount(o)
      /\ dcaExecutions'[o] = dcaExecutions[o] + IF IsDca(o) THEN 1 ELSE 0
      /\ dcaLastExecution'[o] = IF IsDca(o) THEN now ELSE dcaLastExecution[o]
      /\ nonceBitmap' = IF IsDca(o) THEN nonceBitmap ELSE nonceBitmap \cup {NonceOf(o)}
  BY SettleFacts
<1>2. /\ \A p \in Orders : /\ ledger[p].fills \in Nat /\ ledger[p].pulled \in Nat
                          /\ ledger[p].firstAt \in Nat
                          /\ dcaExecutions[p] \in Nat /\ dcaLastExecution[p] \in Nat
      /\ now \in Nat
  BY LedgerTypes DEF TypeOK, GovTypeOK
<1>3. CountersMatch'
  <2>1. ExecuteAmount(o) \in Nat
    BY ChunkFacts
  <2> QED BY <1>1, <1>2, <2>1 DEF CountersMatch
<1>4. ASSUME ~IsDca(o) PROVE ledger[o].fills = 0 /\ NonceOf(o) \notin nonceBitmap
  BY <1>4, <1>2 DEF Due, NonceFree, FilledNonceIsSet
<1>5. FilledNonceIsSet'
  BY <1>1, <1>2, <1>4 DEF FilledNonceIsSet
<1>6. NonceSpentOnce'
  <2> SUFFICES ASSUME NEW q \in Orders, ~IsDca(q)
               PROVE  /\ ledger'[q].fills <= 1
                      /\ \A p \in Orders :
                          /\ ~IsDca(p) /\ p # q /\ NonceOf(p) = NonceOf(q)
                          => ledger'[q].fills = 0 \/ ledger'[p].fills = 0
    BY DEF NonceSpentOnce
  <2>1. ledger'[q].fills <= 1
    BY <1>1, <1>2, <1>4 DEF NonceSpentOnce
  <2>2. ASSUME NEW p \in Orders, ~IsDca(p), p # q, NonceOf(p) = NonceOf(q)
        PROVE  ledger'[q].fills = 0 \/ ledger'[p].fills = 0
    BY <1>1, <1>2, <1>4, <2>2 DEF NonceSpentOnce, FilledNonceIsSet
  <2> QED BY <2>1, <2>2
<1>7. DcaPullsExactly'
  <2> SUFFICES ASSUME NEW q \in Orders, IsDca(q)
               PROVE  /\ dcaExecutions'[q] = ledger'[q].fills
                      /\ ledger'[q].fills > 0 =>
                          /\ ledger'[q].fills <= Order[q].dcaTotal
                          /\ ledger'[q].pulled = Cumulative(q, ledger'[q].fills)
                          /\ ledger'[q].pulled <= Order[q].amountIn
                          /\ ledger'[q].fills = Order[q].dcaTotal =>
                              ledger'[q].pulled = Order[q].amountIn
    BY DEF DcaPullsExactly, Cumulative
  <2>1. CASE q # o
    BY <1>1, <2>1 DEF DcaPullsExactly
  <2>2. CASE q = o
    <3> DEFINE k == dcaExecutions[o]
    <3>1. /\ ExecuteAmount(o) \in Nat /\ k < Order[o].dcaTotal
          /\ Cumulative(o, k) \in Nat
          /\ Cumulative(o, k + 1) = Cumulative(o, k) + ExecuteAmount(o)
          /\ Cumulative(o, k + 1) <= Order[o].amountIn
          /\ k + 1 = Order[o].dcaTotal => Cumulative(o, k + 1) = Order[o].amountIn
      BY <2>2, ChunkFacts
    <3>2. k = ledger[o].fills /\ ledger'[o].fills = k + 1 /\ k \in Nat
          /\ dcaExecutions'[o] = k + 1
      BY <1>1, <1>2, <2>2 DEF CountersMatch
    <3>3. ledger[o].pulled = Cumulative(o, k)
      <4>1. CASE k = 0
        <5>1. Order[o].amountIn \in Nat /\ Order[o].dcaTotal \in Nat \ {0}
          BY OrderTypes, <3>1, <3>2
        <5>2. Cumulative(o, 0) = 0
          BY <5>1 DEF Cumulative
        <5> QED BY <3>2, <4>1, <5>2 DEF CountersMatch
      <4>2. CASE k # 0
        BY <2>2, <3>2, <4>2 DEF DcaPullsExactly
      <4> QED BY <4>1, <4>2
    <3> HIDE DEF k
    <3>4. k + 1 <= Order[o].dcaTotal
      BY <3>1, <3>2, OrderTypes
    <3> QED BY <1>1, <2>2, <3>1, <3>2, <3>3, <3>4
  <2> QED BY <2>1, <2>2
<1>8. DcaKeepsItsPace'
  <2> SUFFICES ASSUME NEW q \in Orders, IsDca(q), ledger'[q].fills > 0
               PROVE  /\ dcaLastExecution'[q] >=
                           ledger'[q].firstAt + (ledger'[q].fills - 1) * Order[q].dcaInterval
                      /\ dcaLastExecution'[q] <= now
    BY DEF DcaKeepsItsPace
  <2>1. CASE q # o
    BY <1>1, <2>1 DEF DcaKeepsItsPace
  <2>2. CASE q = o
    <3> DEFINE interval == Order[o].dcaInterval
               n == ledger[o].fills
    <3>1. interval \in Nat /\ n \in Nat /\ now >= dcaLastExecution[o] + interval
      BY <1>2, <2>2, OrderTypes DEF Due, DcaDue
    <3>2. n # 0 => dcaLastExecution[o] >= ledger[o].firstAt + (n - 1) * interval
      BY <1>2, <2>2 DEF DcaKeepsItsPace
    <3>3. (n - 1) * interval + interval = n * interval
      BY <3>1
    <3>4. n # 0 => now >= ledger[o].firstAt + n * interval
      BY <1>2, <3>1, <3>2, <3>3
    <3>5. /\ ledger'[o].fills - 1 = n
          /\ ledger'[o].firstAt = IF n = 0 THEN now ELSE ledger[o].firstAt
          /\ dcaLastExecution'[o] = now
      BY <1>1, <3>1, <2>2
    <3>6. n = 0 => n * interval = 0
      BY <3>1
    <3> HIDE DEF n, interval
    <3>7. now >= ledger'[o].firstAt + n * interval
      BY <1>2, <3>4, <3>5, <3>6
    <3> QED BY <1>2, <2>2, <3>5, <3>7 DEF interval
  <2> QED BY <2>1, <2>2
<1> QED BY <1>3, <1>5, <1>6, <1>7, <1>8

\* The bounds on the money of a fill add up over the life of the order.
LEMMA FillPreservesBounds ==
    ASSUME FillInv, NEW by, NEW o \in Orders, Admissible(by, o), Due(o),
           NEW tok, NEW eth, NEW dTok, NEW dEth, NEW fair,
           SoundFill(o, ExecuteAmount(o), tok, eth, dTok, dEth, fair)
    PROVE  MinOutputOverLifetime' /\ LossBoundedByCap' /\ FeeWithinBand'
<1> USE DEF FillInv
<1> DEFINE amount == ExecuteAmount(o)
           d      == dTok + dEth
           old    == ledger[o]
           new    == ledger'[o]
<1>1. /\ \A p \in Orders \ {o} : ledger'[p] = ledger[p]
      /\ new.fills = old.fills + 1
      /\ new.pulled = old.pulled + amount
      /\ new.fee = old.fee + Fee(amount)
      /\ new.got = old.got + dTok
      /\ new.gotEth = old.gotEth + dEth
      /\ new.fair = IF InKind(o, dEth) THEN old.fair + fair ELSE old.fair
      /\ new.fairGot = IF fair # 0 /\ InKind(o, dEth) THEN old.fairGot + dTok + dEth
                                                      ELSE old.fairGot
  BY SettleFacts
<1>2. /\ old.fills \in Nat /\ old.pulled \in Nat /\ old.fee \in Nat
      /\ old.got \in Nat /\ old.gotEth \in Nat
      /\ old.fair \in Nat /\ old.fairGot \in Nat
  BY LedgerTypes
<1>3. /\ amount \in Nat /\ amount >= MinOrderAmount
      /\ dTok \in Nat /\ dEth \in Nat /\ d \in Nat /\ fair \in Nat
      /\ d >= ScaledMin(o, amount) /\ d >= OracleFloor(o, fair)
  BY ChunkFacts DEF SoundFill
<1> HIDE DEF amount
<1>4. MinOutputOverLifetime'
  <2> SUFFICES ASSUME NEW p \in Orders
               PROVE  (ledger'[p].got + ledger'[p].gotEth) * Order[p].amountIn
                          + ledger'[p].fills * (Order[p].amountIn - 1)
                        >= Order[p].minAmountOut * ledger'[p].pulled
    BY DEF MinOutputOverLifetime, Received
  <2>1. CASE p # o
    BY <1>1, <2>1 DEF MinOutputOverLifetime, Received
  <2>2. CASE p = o
    <3> DEFINE ai == Order[o].amountIn
               m  == Order[o].minAmountOut
               sm == ScaledMin(o, amount)
               r  == old.got + old.gotEth
    <3>1. /\ ai \in Nat /\ m \in Nat /\ sm \in Nat
          /\ sm * ai + ai - 1 >= m * amount
      <4>1. IsDca(o) \/ amount = Order[o].amountIn
        BY DEF ExecuteAmount, amount
      <4> QED BY <1>3, <4>1, OrderTypes, ScaledMinFacts
    <3>2. r * ai + old.fills * (ai - 1) >= m * old.pulled
      BY DEF MinOutputOverLifetime, Received
    <3>3. r \in Nat /\ new.got + new.gotEth = r + d
      BY <1>1, <1>2, <1>3
    <3> HIDE DEF ai, m, sm, r, d
    <3>4. sm * ai <= d * ai
      BY <1>3, <3>1, ProductMonotone DEF sm
    <3>5. d * ai + (ai - 1) >= m * amount
      <4>1. d * ai \in Nat /\ sm * ai \in Nat /\ m * amount \in Nat
        BY <1>3, <3>1
      <4> QED BY <3>1, <3>4, <4>1
    <3>6. /\ (r + d) * ai = r * ai + d * ai
          /\ (old.fills + 1) * (ai - 1) = old.fills * (ai - 1) + (ai - 1)
          /\ m * (old.pulled + amount) = m * old.pulled + m * amount
      BY <1>2, <1>3, <3>1, <3>3
    <3>7. /\ r * ai \in Int /\ d * ai \in Int /\ old.fills * (ai - 1) \in Int
          /\ m * old.pulled \in Int /\ m * amount \in Int
      BY <1>2, <1>3, <3>1, <3>3
    <3>8. (r + d) * ai + (old.fills + 1) * (ai - 1) >= m * (old.pulled + amount)
      BY <3>1, <3>2, <3>5, <3>6, <3>7
    <3> QED BY <1>1, <2>2, <3>3, <3>8 DEF ai, m
  <2> QED BY <2>1, <2>2
<1>5. LossBoundedByCap'
  <2> SUFFICES ASSUME NEW p \in Orders
               PROVE  (ledger'[p].fairGot + ledger'[p].fills) * BpsDenominator
                        >= ledger'[p].fair * (BpsDenominator - MaxOrderSlippage)
    BY DEF LossBoundedByCap
  <2>1. CASE p # o
    BY <1>1, <2>1 DEF LossBoundedByCap
  <2>2. CASE p = o
    <3> DEFINE slip == Order[o].maxSlippageBps
               kept == fair * (BpsDenominator - slip)
    <3>1. slip \in Nat /\ slip <= 500
      BY OrderTypes DEF Admissible, MaxOrderSlippage
    <3>2. (old.fairGot + old.fills) * 10000 >= old.fair * 9500
      BY DEF LossBoundedByCap, BpsDenominator, MaxOrderSlippage
    <3>3. kept \in Nat /\ kept >= fair * 9500
      <4>1. 10000 - slip \in Nat /\ 9500 <= 10000 - slip
        BY <3>1
      <4> QED BY <1>3, <4>1, ProductMonotone DEF BpsDenominator
    <3>4. OracleFloor(o, fair) = kept \div 10000
      BY DEF OracleFloor, BpsDenominator
    <3> HIDE DEF slip, kept
    <3>5. (d + 1) * 10000 >= fair * 9500
      BY <1>3, <3>3, <3>4
    <3>6. new.fairGot \in Nat /\ new.fair \in Nat /\ new.fills \in Nat
      BY <1>1, <1>2, <1>3
    <3>7. ASSUME InKind(o, dEth)
          PROVE  (new.fairGot + new.fills) * 10000 >= new.fair * 9500
      <4>1. /\ new.fair = old.fair + fair
            /\ new.fairGot + new.fills
                  >= old.fairGot + old.fills + (IF fair = 0 THEN 0 ELSE d + 1)
        BY <1>1, <1>2, <1>3, <3>7
      <4> QED BY <1>2, <1>3, <3>2, <3>5, <3>6, <4>1
    <3>8. ASSUME ~InKind(o, dEth)
          PROVE  (new.fairGot + new.fills) * 10000 >= new.fair * 9500
      <4>1. new.fair = old.fair /\ new.fairGot = old.fairGot /\ new.fills = old.fills + 1
        BY <1>1, <3>8
      <4> QED BY <1>2, <3>2, <3>6, <4>1
    <3>9. (new.fairGot + new.fills) * 10000 >= new.fair * 9500
      BY <3>7, <3>8
    <3> QED BY <2>2, <3>9 DEF BpsDenominator, MaxOrderSlippage
  <2> QED BY <2>1, <2>2
<1>6. FeeWithinBand'
  <2> SUFFICES ASSUME NEW p \in Orders
               PROVE  /\ ledger'[p].fee >= ledger'[p].fills * Fee(MinOrderAmount)
                      /\ ledger'[p].fee * BpsDenominator <= ledger'[p].pulled * FeeBps
    BY DEF FeeWithinBand
  <2>1. CASE p # o
    BY <1>1, <2>1 DEF FeeWithinBand
  <2>2. CASE p = o
    <3>1. /\ Fee(amount) \in Nat /\ Fee(amount) * 10000 <= amount * 10
          /\ Fee(amount) >= 10
      BY <1>3, FeeFacts DEF Fee, BpsDenominator, FeeBps, MinOrderAmount
    <3>2. old.fee >= old.fills * 10 /\ old.fee * 10000 <= old.pulled * 10
      BY DEF FeeWithinBand, Fee, BpsDenominator, FeeBps, MinOrderAmount
    <3>3. /\ new.fee >= new.fills * 10
          /\ new.fee * 10000 <= new.pulled * 10
      BY <1>1, <1>2, <1>3, <3>1, <3>2
    <3>4. Fee(MinOrderAmount) = 10
      BY DEF Fee, BpsDenominator, FeeBps, MinOrderAmount
    <3> QED BY <2>2, <3>3, <3>4 DEF BpsDenominator, FeeBps
  <2> QED BY <2>1, <2>2
<1> QED BY <1>4, <1>5, <1>6

-----------------------------------------------------------------------------
LEMMA InitEstablishesFillInv == Init => FillInv
<1> SUFFICES ASSUME Init PROVE FillInv
  OBVIOUS
<1>1. GovInv
  BY InitEstablishesGovInv DEF Init
<1>2. TypeOK
  BY <1>1 DEF GovInv, Init, FillInit, TypeOK, NoFills, Ledgers
<1>3. \A o \in Orders : ledger[o].fills = 0 /\ ledger[o].pulled = 0 /\ dcaExecutions[o] = 0
  BY DEF Init, FillInit, NoFills
<1>4. /\ CountersMatch /\ FilledNonceIsSet /\ NonceSpentOnce
      /\ DcaPullsExactly /\ DcaKeepsItsPace
  BY <1>3 DEF CountersMatch, FilledNonceIsSet, NonceSpentOnce, DcaPullsExactly,
              DcaKeepsItsPace
<1>5. MinOutputOverLifetime /\ LossBoundedByCap /\ FeeWithinBand
  <2>1. \A o \in Orders : ledger[o] = NoFills
    BY DEF Init, FillInit
  <2>2. \A o \in Orders : Order[o].amountIn \in Nat /\ Order[o].minAmountOut \in Nat
    BY OrderTypes
  <2> QED BY <2>1, <2>2 DEF MinOutputOverLifetime, Received, LossBoundedByCap,
             FeeWithinBand, NoFills, Fee, BpsDenominator, FeeBps, MinOrderAmount,
             MaxOrderSlippage
<1> QED BY <1>1, <1>2, <1>4, <1>5 DEF FillInv

\* A step that moves no funds and takes back no nonce.
LEMMA NoFillStep ==
    ASSUME FillInv, GovInv', TypeOK', UNCHANGED <<dcaExecutions, dcaLastExecution, ledger>>,
           nonceBitmap \subseteq nonceBitmap', now' >= now
    PROVE  FillInv'
<1> USE DEF FillInv
<1>1. CountersMatch' /\ NonceSpentOnce' /\ DcaPullsExactly'
  BY DEF CountersMatch, NonceSpentOnce, DcaPullsExactly, Cumulative
<1>2. FilledNonceIsSet'
  BY DEF FilledNonceIsSet
<1>3. DcaKeepsItsPace'
  <2> SUFFICES ASSUME NEW o \in Orders, IsDca(o), ledger[o].fills > 0
               PROVE  dcaLastExecution[o] <= now'
    BY DEF DcaKeepsItsPace
  <2>1. dcaLastExecution[o] \in Nat /\ now \in Nat /\ now' \in Nat
    BY LedgerTypes DEF TypeOK, GovTypeOK
  <2> QED BY <2>1 DEF DcaKeepsItsPace
<1>4. MinOutputOverLifetime' /\ LossBoundedByCap' /\ FeeWithinBand'
  BY DEF MinOutputOverLifetime, Received, LossBoundedByCap, FeeWithinBand
<1> QED BY <1>1, <1>2, <1>3, <1>4

LEMMA FillStep ==
    ASSUME FillInv, Fill PROVE FillInv'
<1>1. PICK by \in Executors, o \in Orders, routerData \in Routes, reads \in Reads,
           tok \in TokenOutputs, eth \in EthOutputs, takesEth \in BOOLEAN :
               ExecuteOrder(by, o, routerData, reads, tok, eth, takesEth)
  BY DEF Fill
<1>2. /\ Admissible(by, o) /\ Due(o)
      /\ UNCHANGED <<modes, admin, whitelists, queues, oracles, history,
                     cancelledOrders>>
      /\ \E dTok, dEth, fair :
             SoundFill(o, ExecuteAmount(o), tok, eth, dTok, dEth, fair)
  BY <1>1, ExecuteOrderIsSound DEF FillInv
<1>3. PICK dTok, dEth, fair : SoundFill(o, ExecuteAmount(o), tok, eth, dTok, dEth, fair)
  BY <1>2
<1>4. now' = now
  BY <1>2 DEF modes
<1>5. GovInv' /\ TypeOK'
  BY <1>2, <1>3, FillPreservesTypes
<1>6. /\ CountersMatch' /\ FilledNonceIsSet' /\ NonceSpentOnce'
      /\ DcaPullsExactly' /\ DcaKeepsItsPace'
  BY <1>2, <1>3, <1>4, FillPreservesCounters
<1>7. MinOutputOverLifetime' /\ LossBoundedByCap' /\ FeeWithinBand'
  BY <1>2, <1>3, FillPreservesBounds
<1> QED BY <1>5, <1>6, <1>7 DEF FillInv

LEMMA TimeMovesForward ==
    ASSUME GovTypeOK, [GovNext]_govVars PROVE now' >= now
<1>1. \/ now' = now
      \/ Tick
  <2>1. \A by, p : Queue(by, p) => now' = now
    BY DEF Queue, modes
  <2>2. \A by, a, p : Consume(by, a, p) => now' = now
    BY DEF Consume, modes
  <2>3. \A by \in Accounts, r \in Routers, s \in BOOLEAN :
            \/ QueueRouterChange(by, r, s)
            \/ \E a \in timelockActions : ExecuteRouterChange(by, a, r, s)
            => now' = now
    BY <2>1, <2>2 DEF QueueRouterChange, ExecuteRouterChange
  <2>4. \A by, new \in Accounts :
            \/ QueueAdminChange(by, new)
            \/ \E a \in timelockActions : ExecuteAdminChange(by, a, new)
            => now' = now
    BY <2>1, <2>2 DEF QueueAdminChange, ExecuteAdminChange
  <2>5. \A by \in Accounts, t \in Assets :
            \/ QueueSweep(by, t)
            \/ \E a \in timelockActions : ExecuteSweep(by, a, t)
            => now' = now
    BY <2>1, <2>2 DEF QueueSweep, ExecuteSweep
  <2>6. \A by \in Accounts, t \in Assets, f \in Feeds :
            \/ QueueTokenUsdFeed(by, t, f)
            \/ \E a \in timelockActions : ExecuteTokenUsdFeed(by, a, t, f)
            => now' = now
    BY <2>1, <2>2 DEF QueueTokenUsdFeed, ExecuteTokenUsdFeed
  <2>7. \A by \in Accounts, x \in Executors :
            \/ \E s \in BOOLEAN : ProposeExecutor(by, x, s)
            \/ ExecuteExecutorChange(by, x)
            \/ CancelExecutorProposal(by, x)
            => now' = now
    BY DEF ProposeExecutor, ExecuteExecutorChange, CancelExecutorProposal, modes
  <2>8. \A by \in Accounts :
            \/ \E a \in timelockActions : CancelTimelockAction(by, a)
            \/ \E rs \in SUBSET Routers, xs \in SUBSET Executors : Bootstrap(by, rs, xs)
            \/ \E f \in Feeds, config \in OracleConfigs : SetOracleConfig(by, f, config)
            \/ \E status \in BOOLEAN : SetPaused(by, status)
            => now' = now
    BY DEF CancelTimelockAction, Bootstrap, SetOracleConfig, SetPaused, modes
  <2>9. \A t \in Assets : Donate(t) => now' = now
    BY DEF Donate, modes
  <2>10. UNCHANGED govVars => now' = now
    BY DEF govVars, modes
  <2> QED BY <2>3, <2>4, <2>5, <2>6, <2>7, <2>8, <2>9, <2>10 DEF GovNext
<1> QED BY <1>1 DEF GovTypeOK, Tick

LEMMA OwnerStep ==
    ASSUME FillInv, OwnerAct PROVE FillInv'
<1>1. /\ UNCHANGED <<govVars, dcaExecutions, dcaLastExecution, ledger>>
      /\ nonceBitmap \subseteq nonceBitmap'
      /\ nonceBitmap' \subseteq Owners \X Nonces
      /\ cancelledOrders' \subseteq Orders
  BY DEF FillInv, TypeOK, OwnerAct, CancelOrder, InvalidateUnorderedNonces
<1>2. GovInv' /\ now' >= now
  BY <1>1, StepPreservesGovInv, TimeMovesForward DEF FillInv, GovInv
<1>3. TypeOK'
  BY <1>1, <1>2 DEF FillInv, TypeOK, GovInv
<1> QED BY <1>1, <1>2, <1>3, NoFillStep

LEMMA AdministrationStep ==
    ASSUME FillInv, [GovNext]_govVars, UNCHANGED fillVars PROVE FillInv'
<1>1. GovInv' /\ now' >= now
  BY StepPreservesGovInv, TimeMovesForward DEF FillInv, GovInv
<1>2. TypeOK'
  BY <1>1 DEF FillInv, TypeOK, GovInv, fillVars
<1> QED BY <1>1, <1>2, NoFillStep DEF fillVars

LEMMA StepPreservesFillInv == FillInv /\ [Next]_vars => FillInv'
<1> SUFFICES ASSUME FillInv, [Next]_vars PROVE FillInv'
  OBVIOUS
<1>1. CASE Fill
  BY <1>1, FillStep
<1>2. CASE OwnerAct
  BY <1>2, OwnerStep
<1>3. CASE Administer
  BY <1>3, AdministrationStep DEF Administer
<1>4. CASE UNCHANGED vars
  BY <1>4, AdministrationStep DEF vars
<1> QED BY <1>1, <1>2, <1>3, <1>4 DEF Next

\* The inductive invariant holds in every reachable state.
THEOREM FillInvariance == Spec => []FillInv
BY InitEstablishesFillInv, StepPreservesFillInv, PTL DEF Spec

-----------------------------------------------------------------------------
(* The properties that the runs check on small instances.                   *)

\* The storage and the ledger have their types.
THEOREM TypeCorrect == Spec => []TypeOK
<1>1. FillInv => TypeOK
  BY DEF FillInv
<1> QED BY <1>1, FillInvariance, PTL

\* A nonce buys one fill, of one of the orders that carry it.
THEOREM NoncesSpentOnce == Spec => []NonceSpentOnce
<1>1. FillInv => NonceSpentOnce
  BY DEF FillInv
<1> QED BY <1>1, FillInvariance, PTL

\* The chunks of a DCA order never drift from the cumulative shares of amountIn,
\* and the last one completes it exactly.
THEOREM DcaIsExact == Spec => []DcaPullsExactly
<1>1. FillInv => DcaPullsExactly
  BY DEF FillInv
<1> QED BY <1>1, FillInvariance, PTL

\* A DCA order never fills ahead of its schedule.
THEOREM DcaIsPaced == Spec => []DcaKeepsItsPace
<1>1. FillInv => DcaKeepsItsPace
  BY DEF FillInv
<1> QED BY <1>1, FillInvariance, PTL

\* Rounding the minimum per chunk costs less than one unit per fill over the
\* life of an order.
THEOREM MinOutputHolds == Spec => []MinOutputOverLifetime
<1>1. FillInv => MinOutputOverLifetime
  BY DEF FillInv
<1> QED BY <1>1, FillInvariance, PTL

\* The fills that the feeds price and that are delivered in the order's token (or
\* in ETH for WETH) lose at most the cap of their fair value.
THEOREM LossIsBounded == Spec => []LossBoundedByCap
<1>1. FillInv => LossBoundedByCap
  BY DEF FillInv
<1> QED BY <1>1, FillInvariance, PTL

\* Every fill pays a fee, and all of them together at most the rate.
THEOREM FeesInBand == Spec => []FeeWithinBand
<1>1. FillInv => FeeWithinBand
  BY DEF FillInv
<1> QED BY <1>1, FillInvariance, PTL

\* A stopped order does not move, and neither a cancellation nor a spent nonce
\* is ever taken back.
THEOREM StoppedOrdersStayStopped == Spec => StoppedOrdersDoNotMove
<1> DEFINE Holds == /\ \A o \in Orders : Stopped(o) => ledger'[o] = ledger[o]
                    /\ cancelledOrders \subseteq cancelledOrders'
                    /\ nonceBitmap \subseteq nonceBitmap'
<1>1. FillInv /\ [Next]_vars => [Holds]_vars
  <2> SUFFICES ASSUME FillInv, Next PROVE Holds
    OBVIOUS
  <2>1. CASE Fill
    <3>1. PICK by \in Executors, p \in Orders, routerData \in Routes, reads \in Reads,
               tok \in TokenOutputs, eth \in EthOutputs, takesEth \in BOOLEAN :
                   ExecuteOrder(by, p, routerData, reads, tok, eth, takesEth)
      BY <2>1 DEF Fill
    <3>2. /\ Admissible(by, p) /\ Due(p) /\ UNCHANGED cancelledOrders
          /\ \E dTok, dEth, fair :
                 SoundFill(p, ExecuteAmount(p), tok, eth, dTok, dEth, fair)
      BY <3>1, ExecuteOrderIsSound DEF FillInv
    <3>3. PICK dTok, dEth, fair : SoundFill(p, ExecuteAmount(p), tok, eth, dTok, dEth, fair)
      BY <3>2
    <3>4. /\ \A o \in Orders \ {p} : ledger'[o] = ledger[o]
          /\ nonceBitmap \subseteq nonceBitmap'
      BY <3>2, <3>3, SettleFacts
    <3>5. ~Stopped(p)
      <4>1. ledger[p].fills \in Nat /\ Order[p].dcaTotal \in Nat /\ now \in Nat
            /\ Order[p].expiry \in Nat
        BY LedgerTypes, OrderTypes DEF FillInv, TypeOK, GovTypeOK
      <4>2. CASE IsDca(p)
        <5>1. ledger[p].fills # Order[p].dcaTotal
          BY <3>2, <4>1, <4>2 DEF Due, DcaDue, FillInv, CountersMatch
        <5> QED BY <3>2, <4>1, <4>2, <5>1 DEF Stopped, Admissible
      <4>3. CASE ~IsDca(p)
        BY <3>2, <4>1, <4>3 DEF Stopped, Admissible, Due, NonceFree
      <4> QED BY <4>2, <4>3
    <3> QED BY <3>2, <3>4, <3>5
  <2>2. CASE OwnerAct
    BY <2>2 DEF OwnerAct, CancelOrder, InvalidateUnorderedNonces
  <2>3. CASE Administer
    BY <2>3 DEF Administer, fillVars
  <2> QED BY <2>1, <2>2, <2>3 DEF Next
<1> QED BY <1>1, FillInvariance, PTL DEF Spec, StoppedOrdersDoNotMove, Holds

\* No fill goes through a router that was not announced a full timelock earlier
\* or part of the bootstrap.
THEOREM RoutersOfFillsAnnounced == Spec => FillsUseAnnouncedRouters
<1> DEFINE Grant(o) == RouterChange(Order[o].router, TRUE)
           Holds == \A o \in Orders : ledger'[o] # ledger[o] =>
                        InGenesis(Grant(o)) \/ AnnouncedInTime(Grant(o))
<1>1. FillInv /\ [Next]_vars => [Holds]_vars
  <2> SUFFICES ASSUME FillInv, Next PROVE Holds
    OBVIOUS
  <2>1. CASE Fill
    <3>1. PICK by \in Executors, p \in Orders, routerData \in Routes, reads \in Reads,
               tok \in TokenOutputs, eth \in EthOutputs, takesEth \in BOOLEAN :
                   ExecuteOrder(by, p, routerData, reads, tok, eth, takesEth)
      BY <2>1 DEF Fill
    <3>2. /\ Admissible(by, p) /\ Due(p)
          /\ \E dTok, dEth, fair :
                 SoundFill(p, ExecuteAmount(p), tok, eth, dTok, dEth, fair)
      BY <3>1, ExecuteOrderIsSound DEF FillInv
    <3>3. PICK dTok, dEth, fair : SoundFill(p, ExecuteAmount(p), tok, eth, dTok, dEth, fair)
      BY <3>2
    <3>4. \A o \in Orders \ {p} : ledger'[o] = ledger[o]
      BY <3>2, <3>3, SettleFacts
    <3>5. InGenesis(Grant(p)) \/ AnnouncedInTime(Grant(p))
      BY <3>2 DEF Admissible, FillInv, GovInv, EveryPrivilegeWasAnnounced
    <3> QED BY <3>4, <3>5
  <2>2. CASE OwnerAct \/ Administer
    BY <2>2 DEF OwnerAct, CancelOrder, InvalidateUnorderedNonces, Administer, fillVars
  <2> QED BY <2>1, <2>2 DEF Next
<1> QED BY <1>1, FillInvariance, PTL DEF Spec, FillsUseAnnouncedRouters, Holds

-----------------------------------------------------------------------------
(* The contract implements OrderLife, for every set of signed orders and   *)
(* every administration.  The inductive invariant of the fills is needed   *)
(* for the number of fills only: that the ledger of a DCA order agrees     *)
(* with its counter, and that the nonce of a filled order is set.          *)

LEMMA LifeInit == Init => Life!Init
<1> SUFFICES ASSUME Init PROVE Life!Init
  OBVIOUS
<1>1. [o \in Orders |-> ledger[o].fills] = [o \in Orders |-> 0]
  BY DEF Init, FillInit, NoFills
<1> QED BY <1>1 DEF Life!Init, Life!Signed, Elapsed, Closed

\* The fill of an open and due order: it has a fill left.
LEMMA FillIsLifeFill ==
    ASSUME FillInv, NEW by, NEW o \in Orders, Admissible(by, o), Due(o),
           UNCHANGED <<now, cancelledOrders>>,
           NEW tok, NEW eth, NEW dTok, NEW dEth, NEW fair,
           SoundFill(o, ExecuteAmount(o), tok, eth, dTok, dEth, fair)
    PROVE  Life!Fill(o)
<1>1. /\ now \in Nat /\ ledger[o].fills \in Nat
      /\ \A p \in Orders : /\ Order[p].dcaInterval \in Nat /\ Order[p].dcaTotal \in Nat
                           /\ Order[p].expiry \in Nat /\ dcaLastExecution[p] \in Nat
  BY OrderTypes, LedgerTypes DEF FillInv, TypeOK, GovTypeOK
<1>2. /\ \A p \in Orders \ {o} : /\ ledger'[p] = ledger[p]
                                /\ dcaLastExecution'[p] = dcaLastExecution[p]
      /\ ledger'[o].fills = ledger[o].fills + 1
      /\ dcaLastExecution'[o] = IF IsDca(o) THEN now ELSE dcaLastExecution[o]
      /\ nonceBitmap' = IF IsDca(o) THEN nonceBitmap ELSE nonceBitmap \cup {NonceOf(o)}
  BY SettleFacts
<1>3. o \in Orders \ Closed /\ o \in Elapsed /\ ledger[o].fills < TermsOf(o).total
  <2>1. CASE IsDca(o)
    BY <1>1, <2>1 DEF Closed, Elapsed, TermsOf, Admissible, Due, DcaDue, FillInv, CountersMatch
  <2>2. CASE ~IsDca(o)
    BY <1>1, <2>2 DEF Closed, Elapsed, TermsOf, Admissible, Due, NonceFree, FillInv,
                      FilledNonceIsSet
  <2> QED BY <2>1, <2>2
<1>4. [p \in Orders |-> ledger[p].fills]' =
          [[p \in Orders |-> ledger[p].fills] EXCEPT ![o] = @ + 1]
  BY <1>2
<1>5. Elapsed' = IF IsDca(o) THEN Elapsed \ {o} ELSE Elapsed
  <2>1. \A p \in Orders \ {o} : p \in Elapsed' <=> p \in Elapsed
    BY <1>2 DEF Elapsed, IsDca
  <2>2. CASE IsDca(o)
    <3>1. Order[o].dcaInterval # 0
      BY <2>2 DEF Due, DcaDue
    <3>2. o \notin Elapsed'
      BY <1>1, <1>2, <2>2, <3>1 DEF Elapsed, IsDca
    <3> QED BY <2>1, <2>2, <3>2 DEF Elapsed
  <2>3. CASE ~IsDca(o)
    BY <2>1, <2>3 DEF Elapsed, IsDca
  <2> QED BY <2>2, <2>3
<1>6. Closed' = IF IsDca(o) THEN Closed ELSE Closed \cup RivalsOf(o)
  BY <1>2 DEF Closed, RivalsOf, IsDca, NonceOf
<1>7. Life!CanFill(o)
  BY <1>3 DEF Life!CanFill, Life!Signed
<1>8. [p \in Orders |-> TermsOf(p)][o].recurring = IsDca(o)
      /\ [p \in Orders |-> RivalsOf(p)][o] = RivalsOf(o)
  BY DEF TermsOf
<1> QED BY <1>4, <1>5, <1>6, <1>7, <1>8 DEF Life!Fill

\* Every other call, and time, only close orders and make them due.
LEMMA NoFillIsLifePass ==
    ASSUME FillInv, FillInv', UNCHANGED <<dcaLastExecution, ledger>>, now' >= now,
           cancelledOrders \subseteq cancelledOrders', nonceBitmap \subseteq nonceBitmap'
    PROVE  Life!Pass
<1>1. /\ now \in Nat /\ now' \in Nat
      /\ \A p \in Orders : /\ Order[p].dcaInterval \in Nat /\ Order[p].expiry \in Nat
                           /\ dcaLastExecution[p] \in Nat
  BY OrderTypes, LedgerTypes DEF FillInv, TypeOK, GovTypeOK
<1>2. Closed \subseteq Closed'
  BY <1>1 DEF Closed, IsDca, NonceOf
<1>3. Elapsed \subseteq Elapsed'
  BY <1>1 DEF Elapsed, IsDca
<1> QED BY <1>2, <1>3 DEF Life!Pass

\* The contract implements OrderLife: what OrderKeeper relies on, and what every
\* owner is promised, holds of the code for every number of orders and keepers.
THEOREM ContractFollowsOrderLife == Spec => FollowsOrderLife
<1>1. FillInv /\ FillInv' /\ [Next]_vars => [Life!Next]_Life!vars
  <2> SUFFICES ASSUME FillInv, FillInv', [Next]_vars PROVE Life!Next
    OBVIOUS
  <2>1. CASE Fill
    <3>1. PICK by \in Executors, o \in Orders, routerData \in Routes, reads \in Reads,
               tok \in TokenOutputs, eth \in EthOutputs, takesEth \in BOOLEAN :
                   ExecuteOrder(by, o, routerData, reads, tok, eth, takesEth)
      BY <2>1 DEF Fill
    <3>2. /\ Admissible(by, o) /\ Due(o)
          /\ UNCHANGED <<modes, cancelledOrders>>
          /\ \E dTok, dEth, fair :
                 SoundFill(o, ExecuteAmount(o), tok, eth, dTok, dEth, fair)
      BY <3>1, ExecuteOrderIsSound DEF FillInv
    <3>3. PICK dTok, dEth, fair : SoundFill(o, ExecuteAmount(o), tok, eth, dTok, dEth, fair)
      BY <3>2
    <3>4. Life!Fill(o)
      BY <3>2, <3>3, FillIsLifeFill DEF modes
    <3> QED BY <3>4 DEF Life!Next
  <2>2. CASE OwnerAct
    <3>1. /\ UNCHANGED <<now, dcaLastExecution, ledger>>
          /\ cancelledOrders \subseteq cancelledOrders'
          /\ nonceBitmap \subseteq nonceBitmap'
      BY <2>2 DEF OwnerAct, CancelOrder, InvalidateUnorderedNonces, govVars, modes
    <3>2. now' >= now
      BY <3>1 DEF FillInv, TypeOK, GovTypeOK
    <3> QED BY <3>1, <3>2, NoFillIsLifePass DEF Life!Next
  <2>3. CASE Administer \/ UNCHANGED vars
    <3>1. [GovNext]_govVars /\ UNCHANGED fillVars
      BY <2>3 DEF Administer, vars
    <3>2. now' >= now
      BY <3>1, TimeMovesForward DEF FillInv, TypeOK
    <3> QED BY <3>1, <3>2, NoFillIsLifePass DEF Life!Next, fillVars
  <2> QED BY <2>1, <2>2, <2>3 DEF Next
<1> QED BY <1>1, LifeInit, FillInvariance, PTL DEF Spec, FollowsOrderLife, Life!Spec
=============================================================================
