# TeraSwap: a TLA+ verification project

TeraSwap is a DEX aggregator: a web application that quotes and builds swaps
over a dozen liquidity sources, a contract that fills orders signed in advance
(limit, stop-loss, DCA), a keeper process that sends those fills, and monitors
that take a misbehaving source out of service. This directory models the parts
that hold state across steps and actors, checks them with TLC on small instances
and proves with TLAPS, for every value of the constants, every safety property
that the runs check, and that the contract implements the abstract specification
of an order's life that the keeper's model stands on. `src/` is the repository's root
throughout; `PROJECT.json` gives, for every definition, the lines it was
translated from.

## 1. Inventory

| Part | State it keeps | Operations | Talks to | What is hard | Modelled in |
|---|---|---|---|---|---|
| **Executor contract V3**, `src/contracts/order-engine/TeraSwapOrderExecutorV3.sol` | nonce bitmap, cancelled orders, DCA counters and times, whitelists, timelock queue, executor proposals, feeds, trigger bounds, pause, admin | `executeOrder`, `cancelOrder`, `invalidateUnorderedNonces`; queue / cancel / execute of routers, admin, sweeps and feeds; `proposeExecutor` …; `bootstrap`, `pause`, `setOracleConfig` | owner, keeper, admin, tokens, feeds, router | long legal call sequences, windows, rounding, stale feeds, revocation between check and fill | `TimelockGovernance`, `OrderExecutorV3` |
| **Keeper**, `src/contracts/order-engine/executor/` | `orders` and `order_executions` tables, retry maps in memory, locks by row status and age | a tick every 30 s: unlock, fetch, lock, check, build, send, wait, write; the backfill tool | contract (by RPC), Supabase, `/api/swap` | ticks overlap; lock (60 s) shorter than receipt wait (180 s); writes by id; crashes; lost requests | `OrderKeeper` |
| **Orders API**, `src/src/app/api/orders/` | the same tables | create, cancel | browser, keeper (through the tables) | cancellation against a running tick | `OrderKeeper` |
| **Keeper's RPC pause and event watcher**, `rpc-auth.js`, `event-watcher.js` | streaks of rejections, pause; last block read, failure count | on RPC success / error; poll | RPC, alerts | polls overlap; a pause must end; muted outage alerts; restarts | `RpcAuth`, `KeeperRpc` |
| **Source monitor**, `src/src/lib/monitoring-loop.ts`, `source-state-machine.ts`, `quorum-check.ts`, `rate-limit-watch.ts`, `circuit-breaker.ts` | one JSON status per source in KV, a cache per instance, tick lock, halt flag, cooldown | tick (health, fingerprints, quorum, alerts, recovery, breaker); `/disable`, `/lock`, `/activate`, `/cleartrip`; kill-switch endpoint; swap validation | KV, sources, operators; the halt flag is read by `/api/quote` and `/api/swap` | read-modify-write of whole records by several instances, KV failures, killed invocations, timers that interact | `SourceStateMachine`, `SourceMonitor` |
| **Quote path**, `src/src/lib/api.ts`, `meta-quote-cache.ts`, `quote-cache.ts`, `adapters/circuit-breaker.ts` | KV cache, per-instance dampener and LRU cache, coalesced fetch, in-memory breaker per source with a KV copy | quote, build a swap, report an outcome | KV, third-party APIs | caches in a row, writes that land late, late answers to an open breaker, half-open probes | `SourceBreaker`, `QuotePath` |
| **Split swap**, `src/src/hooks/useSplitSwap.ts` | React state (status, planned legs) and refs (abort, executing, context) | `execute`, `confirmPlan`, `reset`, effects on a switch | wallet, `/api/swap` | overlapping async invocations share refs; switches of chain or account | `SplitSwap` |
| **Swap panel**, `src/src/hooks/useSwap.ts`, `src/src/components/SwapBox.tsx` | React state (status, pending swap or CoW order), wagmi mutation, receipt poll | `execute`, `confirmSwap`, `confirmCowOrder`, `reset`, the walk over the sources | wallet, `/api/swap`, CoW API | invocations outlive a switch; clicks on a screen that lags; two watchers of one receipt | `SwapSession` |
| Price sources, price quorum, floors | none (per fill) | pure decisions | Chainlink, DefiLlama, CoinGecko | ties, tolerances, rounding | — |
| Rate limiters, alerting | counters in KV | check, emit, grace | KV, Telegram, mail, Discord | read-then-write, fallback | — |
| Order hooks, other pages | React state, local encrypted store | sign, cancel | wallet, API | serialised saves | — |
| Contract V2, fee collector, analytics, scripts, database outside the order engine | — | — | — | see section 8 | — |

What makes each of them correct:

* *Contract*: no power over fills that the event log did not show one delay
  earlier; a nonce buys one fill; a DCA order pulls exactly its amount, never
  ahead of its interval; an order gets its signed minimum and, delivered in the
  token it was signed for, loses a bounded share of fair value over its whole
  life; nothing moves after the owner, time or the administration stopped it.
* *Keeper and API*: the table never claims more than the chain did; only the
  order's own misses use up its retries; no lock and no order hangs for good.
* *RPC pause and watcher*: no admin event is skipped while the process lives, an
  outage is never silent, a pause ends.
* *Monitor*: a P0 disable stays; a health disable was earned; ticks exclude each
  other; a healthy source comes back; mass disablement ends in a halt.
* *Quote path*: the age of a served quote is bounded; a request is answered; a
  source that works again is asked again.
* *Split swap*: no leg leaves twice, a plan is confirmed where it was built. *Swap
  panel*: what was signed is not offered again, an order is signed where it was built,
  a reviewed transaction was held against its quote. In both, a busy state is left again.

Every hazard found, covered or not, is listed with its line in `PROJECT.json`.

## 2. Modules

```
OrderLife                         what the contract promises of an order (abstract)
TimelockGovernance                the contract's administration
  ├ TimelockGovernanceProofs
  └ OrderExecutorV3               fills, composed with the administration; implements OrderLife
      └ OrderExecutorV3Proofs     invariants and refinement (EXTENDS TimelockGovernanceProofs)
OrderKeeper                       order rows: API, keeper ticks, clock, backfill; drives an OrderLife
  └ OrderKeeperProofs
RpcAuth                           the monitor of rejected RPC calls
  └ KeeperRpc                     balance read and event watcher around it
      └ KeeperRpcProofs
SourceStateMachine                operations on one status record
  └ SourceMonitor                 ticks, operator calls, KV and caches, breaker
      └ SourceMonitorProofs
SourceBreaker                     the in-memory breaker of one source
  └ QuotePath                     requests, caches, fan-out
      └ QuotePathProofs
SplitSwap                         useSplitSwap
  └ SplitSwapProofs
SwapSession                       useSwap with SwapBox
  └ SwapSessionProofs
MC*                               instances for TLC, where a .cfg alone does not do
```

Definitions commented *Slip* are plausible mistakes in the definition that
follows them. No specification uses them; each is an independent reading aid
for what the property it is paired with in `PROJECT.json` ("mutants") catches.

### TimelockGovernance
One action per administrative function; the parameter `by` is `msg.sender`.
`now` counts blocks. `timelockActions` is the mapping of queued hashes, a record
per pending payload; `announced`, `genesis` and `effects` are the event log
(`TimelockQueued` and `ExecutorChangeProposed`, the bootstrap's, `TimelockExecuted` and
`ExecutorChangeExecuted`) that watchers rely on. `Donate` is a
plain ERC-20 transfer to the contract, the reason a sweep has something to take.

### OrderExecutorV3
`Order` maps an id to the signed struct; a signature is an id's being in
`Orders`. `ExecuteOrder` is the whole of `executeOrder`: admission, route,
schedule, fee, price condition, fair value, floor, the three delivery paths and
the settlement. What feeds and routers answer is chosen from `Reads`,
`TokenOutputs` and `EthOutputs`. `ledger` records per order what a block explorer
could sum up: fills, amounts pulled, delivered, fees, and the fair value of the fills
that the feeds priced and that were delivered *in kind* (`InKind`: in `tokenOut`, or in ETH
for WETH).

### OrderLife
The abstract specification between contract and keeper: orders with their terms,
fills, whether a fill is due, and whether the order is closed. `OrderExecutorV3`
implements it: `Life` maps the ledger to `fills`, elapsed intervals to `due`, and
cancellations, spent nonces and expiry to `closed`; every step of fills and
administration is a step of `OrderLife` or a stutter (`FollowsOrderLife`).
`OrderKeeper` does not model the contract again: its chain *is* an instance of
`OrderLife`, so that what the keeper's properties suppose of the contract is what
the contract was shown to do.

### OrderKeeper
One row per order and any number of overlapping ticks. A tick's actions are the
steps between its awaits: unlock stale rows, fetch, per order expire / back off /
lock, `canExecute`, build, send, wait, write, record. It decides from the row as it
fetched it (`tick[t].rows`) and writes by id (`Write`), and a lost or refused write
goes unnoticed, as the code does. Elapsed time is not measured: a lock may age, an
interval elapse, an order expire and a receipt be given up at any moment. Prices,
routes, gas, freezes and pauses only decide *that* an order is put off or missed,
so `PutOff`, `HoldBack`, `SkipByGasTier`, `InfraMiss`, `OrderMiss` are open choices.
Left out because it only adds what is already possible: `pruneInfraMisses`, the idle
cadence, the fallbacks for columns a migration has not yet added, and a revert no tick
waits for. Left out, too, is the limit of the query for active orders (section 5). `lockOrder` tells a lost race by `/0` in `content-range`; the model takes the
code's reading of that answer.

### RpcAuth, KeeperRpc
`RpcAuth` is the monitor object: a streak of rejections per method, streaks that go
stale with time, a pause while a streak is at its threshold. `KeeperRpc` has its two
kinds of callers: the cycle's balance read, and the watcher's polls, of which a new
one starts at every interval whether or not the last has ended. A poll is number,
check, logs, alert, done; it reads `lastBlock` at its check and writes it at its
end, so that overlapping polls may move it back. `silent` counts the failed polls nobody
was told of. A crash forgets streaks and last block. A cycle that finds no active orders
reports a success even while paused, one that finds some does not: which of the two it is
is a choice (`CycleEnds`). What an order's calls come to is caught in the cycle, so that a
streak of the origin `cycle` itself is left out.

### SourceStateMachine, SourceMonitor
A timestamp is its age, capped at the threshold it is compared with; counters
likewise. A tick is five actions (start, health, fingerprints, quorum, wrap-up),
an operator's call two (read, write): other instances run between them. `Save`
writes the whole record of an instance's copy, and each write or read may fail
(`faults`). `history` is what really happened to the source, against which the
record is judged. Choices that follow the code and surprise: a failed read yields
the default, *active* record; the kill-switch endpoint and the validator reuse
the copy an earlier invocation left; the statuses that the rate-limit watch
compares are the same objects. Assumed: an instance serves one request at a
time. Nothing in quote routing reads the status; only the halt flag is enforced.

### SourceBreaker, QuotePath
One pair and amount in one server instance; a quote is its age. A request reads the
dampener and KV, joins or leads the coalesced fetch, asks the fan-out (its LRU cache,
then the source behind its breaker), and stores. Kind `direct` is everything that
calls the source without these caches: other amounts and swap builds, which report to
the same breaker. A KV read or write succeeds, fails or times out; a write that timed
out may still land, up to `KvDelay` later. What KV holds at the start stands for
what other instances wrote, and `Init` for a restarted instance. Refusals ahead of all this
(halt flag, rate limit, bad parameters) change nothing here.

### SplitSwap
A state of `planner` per invocation of `execute` and of `signer` per invocation of
`confirmPlan`; all of them share the refs and the React state. `view` is what the
last render put on the screen, which is what a click acts on: `Render` lags
behind the state. `context` is chain and account as one value. What a
leg's checks compare is their outcome: reviewed, skipped, or the plan stops. A switch and
the effects it triggers are one step, here and in `SwapSession`.

### SwapSession
`flow` is an invocation of `execute`. It walks to the next source on a failure and fills
the review. `view` is the last render, as in `SplitSwap`: `ConfirmSwap` and
`ConfirmCowOrder` take status and review from it, which is what their closures hold, and
set the state, which only `Render` brings to the screen. So a second click before the render
asks the wallet again. Each request for a signature is a *signing*: `tx[s]` or `order[s]` with
the flow it is `of`. `mutation` is the transaction wagmi watches, `poll` the one the fallback
asks for, `late` the time limit. Answers, timers and switches come after the render and are
rendered before the next click.
`quoted` and the `floor` of a frozen transaction keep the one data dependence the
properties tell apart: a source that is not on `QUOTE_FLOOR_SKIP_SOURCES` needs its own
quote to be held against.

## 3. Runs

| Run | Shows | Bounds, and why they are enough |
|---|---|---|
| `governance` | the four governance invariants from the constructor on | two accounts (the role moves and comes back), one router, one keeper, two tokens, four blocks, two announcements: a grant and a revocation, or a change and an admin transfer, overlap, expire and are executed in both orders. Delays of one block keep every window reachable. |
| `fills` | exact pulls, lifetime minimum, bounded loss, fee band, announced routers; every step is one of `OrderLife`'s | two histories. Two DCA orders of three chunks (a first, a middle, a last one) with an amount that does not divide by three and one with chunks below the fee minimum; feeds answer, are down, or value above and below the minimum. And a limit order that sells USDC for WETH, its replacement (same nonce) that sells WETH for USDC through a router that is announced and executed in the run, and an order with a slippage above the cap. A floor of 8 can be met by 4 units and 6 wei, in kind for WETH and not for USDC. 7 blocks with interval 2. |
| `keeper_safety` | `RowNeverAheadOfChain` | two ticks and two transactions are the least for two fills of one row to cross; one fault: with a lost write, a failed tick *or* a crash. The failure ladder, which the property does not read, has one rung. |
| `keeper_liveness` | retries are earned, locks end, orders settle | two ticks, one transaction, a ladder of two misses, one fault |
| `keeper_rpc` | no event skipped, no silent outage, pauses end, events are reported | two polls (the least for `lastBlock` to move back), two blocks with events, a provider that changes twice (ok, rejecting, down and back), a restart, thresholds of two |
| `monitor_safety` | P0 disables hold, health disables are earned (their window as long as only ticks write), ticks exclude each other | two instances, one source, one operator call, one fault; a window of three periods, longer than a failing streak needs |
| `monitor_liveness` | sources recover, mass disablement halts | one source with every answer a probe or quote can give; one call, one fault |
| `quote_path` | quotes stay fresh, requests are answered, a source is asked again | two requests (a leader and one that joins or probes beside it), a failure threshold of 2, cooldowns of 1 and 2 so that the longer one of a 429 can be cut short, lifetimes of 1 (LRU) and 2 (dampener, KV), writes one unit late, one change of the source |
| `split_swap` | legs leave once, plans are confirmed where built, only the wallet blocks | two legs, two invocations of `execute` and two of `confirmPlan` (an old one beside a new one), two contexts and two switches (away and back) |
| `swap_session` | what was signed is asked for again only by a click on an old screen, orders signed where built, reviewed swaps are priced, sent swaps settle | two chains and one account that also disconnects, two switches (away and back; an account that disconnects and connects again takes every path of the effects), two flows (an old one beside a new one), two signings (two clicks on one screen, or one click on each of two), one fallback source |
| `kill_switch` | **finding** | two instances, one call, no fault |
| `swap_stale` | **finding** | as `swap_session`, with two accounts |

`CHECK_DEADLOCK FALSE` is set where the bounds (`MaxTime`, `MaxTxs`, `MaxCalls`,
`MaxFaults`, `MaxFlows`, `MaxExecutions`, `MaxSignings`, `MaxSwitches`, one life of an order) let a run
end; no part waits on a lock another holds. `keeper_rpc` checks deadlock.
Constants commented *bound* in the modules exist only for TLC; symmetry is used only
in runs without liveness (ticks and instances are interchangeable).

Sums and amounts are unbounded integers in the models. The contract's arithmetic is
checked by the compiler (0.8), and an overflow reverts, which is a step not taken.

## 4. Fairness

* *Keeper*: weak fairness of each tick's start and steps, and of the clock
  (`Expire`, `LockAges`). `setInterval` starts ticks for ever, node runs what it
  started, pm2 restarts the process (`autorestart`), and every await has a timeout
  that ends it. Users, operators, fills and reverts are not fair.
* *RPC pause and watcher*: the same scheduler: weak fairness of the cycle, of each poll's
  start and steps, of the ageing of streaks and of the restart. The provider owes
  nothing: `PauseEnds` and `EventsAreReported` suppose what they need of it.
* *Monitor*: weak fairness of the cron's tick, of the clock, and of running an
  invocation on (unless killed); strong fairness of the quorum phase, because every
  `QUORUM_TICK_INTERVAL`-th tick is a quorum tick. `SourcesRecover` supposes the
  source behaves from some time on and its record shows no 429 any more; what
  happens otherwise is described at the end of section 5.
* *Quote path*: time passes, writes end once overdue, and a request goes on where its promise
  settles: every call of a source and every KV call of a request has a timeout. The first
  read of the breakers' statuses has none and is not fair. Callers owe nothing.
* *Split swap*: React renders, the server answers or fails, the wait for a receipt is
  bounded. *Swap panel*: React renders, the timers fire and requests are answered or fail.
  In both, users, wallets and the chain owe nothing.
* The contract has no liveness of its own: anyone may refrain from calling it.

## 5. Findings

| Run | The code | Says otherwise |
|---|---|---|
| `kill_switch` | a tick that read a status before the kill-switch wrote it saves its copy afterwards: the source is active again | the endpoint's header |
| `swap_stale` | the effects on a switch clear the review but do not stop an `executeStandardSwap` under way, which then opens it with the old chain's transaction; `confirmSwap`, unlike `confirmCowOrder`, compares neither chain nor account | the comment above those effects |

Each is quoted with its lines in `PROJECT.json`. Met while modelling, without a run of its
own:

* *Contract*: the third delivery path (`TeraSwapOrderExecutorV3.sol:600`) adds wei to units of
  `tokenOut` whatever `tokenOut` is, and compares the sum with the floor. For any token
  but WETH that floor then bounds nothing: `floorOut` wei meet it, be it the signed minimum
  or the oracle floor of a pair with good feeds, and the owner receives next to nothing. The
  code says of that floor that "a generous keeper quote can never fill below EITHER the oracle
  bound or the user's own minimum" (lines 534-535). A router must return ETH for it; of a DCA
  order the keeper chooses the calldata. The model has it as it is (`MixedDelivery`), and in `fills`
  the order for USDC is filled with 4 units and 6 wei against a floor of 8 units. The properties
  do not claim what is false here: `LossBoundedByCap` speaks of fills delivered in kind only, and
  `MinOutputOverLifetime` counts wei as the contract does, which for a token other than WETH
  says what the contract checks and not what the owner signed.
  Of a delivery in one asset, the other asset a router returned stays in the contract until a timelocked
  sweep. `canExecute` does not read `paused`, so a pause climbs the keeper's failure ladder.
* *Keeper*: a tick adds one to the failure count it fetched (`retry-policy.js:836`); if another
  tick's fill has reset the row meanwhile, the order fails although its row shows no miss
  (against `schema.sql:82`). A terminal row can be put back to another status by a
  tick that locked it earlier. `fetchActiveOrders` asks for the 15 oldest active rows
  (`executor.js:671`): as many limit orders whose price is not reached keep every younger order
  from being tried until one of them ends.
* *Monitor*: the quorum that clears a 429 of the quote path is skipped when rate limits
  leave too few active sources (`quorum-check.ts:395`, against `source-state-machine.ts:51`).
  "Before" and "after" of the rate-limit watch are the same objects
  (`monitoring-loop.ts:344`), so the end of an episode that `rate-limit-watch.ts:10`
  promises is never announced. `checkAutoRecovery` (`source-state-machine.ts:512`) resets
  `failureCount` and keeps `failingSince`: when a disable or activation has written an older record back, that
  field is from before the last answer, so a later health disable need not span
  `minFailingWindowMs` (against lines 42 and 412; see section 6). An unreadable KV record counts as active and may be
  written back; a disable for a reason that is not P0 replaces a P0 disable and then expires.
* *Quote path*: `api.ts:119` says cached quotes stop when the sequencer check turns, but KV
  and dampener answer before it is asked. A late success while the breaker is open ends
  the longer cooldown of a 429 early; half open, every concurrent request is let through;
  a caller that excluded the source leaves it half open. KV writes that land late
  make some hits older than the 15 s of `meta-quote-cache.ts:12`. The read behind
  `circuit-breaker.ts:302` ("can never block on KV") has no timeout.
* *Split swap*: a new `execute` clears `abortRef`, so a signing loop that a switch was to
  stop goes on and asks the wallet for its next leg on the other chain
  (`useSplitSwap.ts:201` says it stops).
* *Swap panel*: nothing stops a second click on Confirm before React has rendered the first
  (`useSwap.ts:1183` and `:1039`): both hold the same review, and the wallet is asked to send
  the swap, or to sign the order, twice. `useSplitSwap.ts:570-572` describes the case and guards
  against it with a ref; the panel has none. `SignedAgainOnlyUnrendered` says that this is the only way.
  A timed-out swap offers a retry while its transaction is pending; the
  CoW poll ends after 120 s although the order is valid for 30 minutes; a disconnect
  during the walk leaves `simulating` on the screen; the acknowledgement of an unpriced
  swap survives a change of chain.

## 6. Proofs

Every theorem holds for all values of the constants that satisfy the assumptions of the
modules, which are weaker than the code enforces and which TLC evaluates in every run:

* `TimelockGovernance`, `OrderExecutorV3`: positive delays, a no-feed value outside `Feeds`,
  orders of the signed types, whatever amounts they sign;
* `OrderKeeper`: a DCA order has at least two chunks, the failure ladder at least one rung;
* `KeeperRpc`, `RpcAuth`: the three methods are among `Methods`, limits are positive;
* `SourceStateMachine`, `SourceMonitor`: what `validateThresholds` lets through; a lock that
  outlives an invocation (55 s and 30 s); finitely many sources;
* `SourceBreaker`, `QuotePath`: positive lifetimes, a dampener that keeps a quote no longer
  than KV does (5 s and 12 s);
* `SplitSwap`, `SwapSession`: at least one leg; `None` and the missing wallet are no context,
  no account and no number.

The bounds of the models (`MaxTxs`, `MaxFaults`, `MaxFlows`, …) are arbitrary naturals in the proofs,
so the theorems hold for any number of transactions, faults, invocations and switches.

*Administration* (`TimelockGovernanceProofs`). `GovInv` strengthens the four
invariants. That an executed change was announced in time is not inductive: it
follows from what is known of the change while it is pending. So `QueueJustified`
and `ProposalsJustified` say that every pending change carries its announcement, its
exact delay and has not been executed; `EffectsJustified` and `EffectsDistinct` carry
that over to the log. `GovInvariance` has one step per action; the theorems
`GovTypeCorrect`, `PrivilegesAnnounced`, `AnnouncementsExecuteOnce` and
`RevocationsHold` follow.

*Fills* (`OrderExecutorV3Proofs`). A fill is first reduced to `SoundFill`: which
chunk it pulls, that what it delivers meets both floors (the sum of both units, of which
`LossIsBounded` uses the deliveries in kind), and the settlement. Each
invariant then needs one lemma on a single fill and the floor-division lemmas of the same module:
consecutive cumulative floors telescope (`DcaIsExact`), each scaled minimum loses
less than one unit (`MinOutputHolds`), each fee rounds down but not to nothing
(`FeesInBand`). `CountersMatch` ties `dcaExecutions` to the ledger and
`FilledNonceIsSet` a filled order to its bit; without them neither the pace nor the
nonce theorem is inductive. Two action properties (`StoppedOrdersStayStopped`,
`RoutersOfFillsAnnounced`) follow from the same invariant.
`NonceSpentOnce`, `DcaKeepsItsPace` and `StoppedOrdersDoNotMove` are proved for the contract;
the run `fills` checks what they say of an order through `FollowsOrderLife`.

*Refinement* (`OrderExecutorV3Proofs`). `ContractFollowsOrderLife` proves that every behaviour of
the contract is one of `OrderLife` under the mapping of `Life`. A fill is `Fill` by the
invariant of the fills (the order is not closed, is due, and has fills left); every other
step is `Pass`: it only closes orders or lets intervals elapse, since the clock does not
run back and bits and cancellations are never cleared.

*Keeper* (`OrderKeeperProofs`). A tick computes what it writes from the row it fetched, so
bounding the rows is not enough: `TickSound` bounds every tick's copies as well, by the
fills the chain has and the misses the order has caused, both of which only grow.
`ChainOK` numbers the fills: the transactions that succeeded have distinct ranks among
them. With it a tick's `executed + 1` is a count the chain has reached
(a transaction it waits for succeeds, if at all, after the fetch), the backfill's rank is
one, and `RowsFollowTheChain` follows, its part on `order_executions` by the pigeonhole
principle. `FailuresAreEarned` needs only the copies' failure counts.

*Watcher* (`KeeperRpcProofs`). That no event is skipped depends on where every running
poll began: `PollsStandOnAlerts` says that all events below a poll's range were handed
over, and those of its range too once it is about to write `lastBlock`. So whichever of
the overlapping polls writes last, forwards or backwards, the invariant holds.
`WatcherTypeCorrect` needs that a poll's range lies between the first block and the head.
`OutagesAreHeard` rests on `SilenceIsCounted`: no more failed polls went unheard than the
watcher itself counts in a row.

*Monitor* (`SourceMonitorProofs`). Records are written back whole, so what holds of the stored
records has to hold of every copy that an invocation may still write: `CopiesSound` for
types, `P0Held` for P0 disables, `StreaksHeld` for failing streaks. `P0Held` speaks of the copies that *decide*
what is written (a tick's, an activation's), since the others force a disable; a P0 disable counts as held only
if nobody else had a copy, so each later writer has read it. In a tick the quorum touches
active copies and the timer those of other causes, and an activation is refused unless confirmed. `TicksAreAlone` needs
`LockHeld`: without faults the lock is as old as the tick that took it. The record's operations
are lemmas of their own (`HealthCheckFacts`, `AutoRecoverFacts`, …), the phases of a tick one lemma
(`PhaseStep`).
The proof of `HealthDisablesAreEarned` failed on a first version of the property, which
claimed the window at all times: a call may revive a `failingSince`
that a probe had cleared, and the timed recovery does not clear it. TLC finds the
counterexample as soon as an infrastructure error is among the probe's answers
(`ProbeAnswers = {"ok", "fail", "infra"}`, `MaxFaults = 0`, 36 states). The property now claims
the window as long as no call has written a status, and the number of failures always.

*Quote path* (`QuotePathProofs`). An entry's age and the time it has left run against each
other, so `LifetimesAreBounded` bounds their sum, and `WritesAreFresh` the age of a write by
how long it has been under way. `QuotesStayFresh` follows for both caches because the dampener
does not keep a quote longer than KV.

*Split swap* (`SplitSwapProofs`). The refs are shared, so the invariant follows the plan instead of the
invocation: a plan on the screen was frozen by the one invocation of `execute` that ended with it, the stamp
beside it is its own context or wiped by a reset (`ReviewIsOfItsContext`), and nobody signs
it unless a signing or a reset has come between (`ReviewIsUnsigned`). `SignedOnce` and with it
`LegsAreSentOnce` follow, and `ConfirmedWhereBuilt` from the comparison with the stamp.

*Swap panel* (`SwapSessionProofs`). A flow that runs has nothing signed and ends when it freezes
(`FrozenIsOver`, `UnsignedBeforeReview`). What the *state* puts up for confirmation is unsigned
(`ReviewIsUnsigned`): a click takes the review of a transaction away, while that of an order stays in a
status that no click confirms. A rendered screen is the state, so `SignedAgainOnlyByOldScreens` follows;
nothing is claimed of a screen that lags. `ReviewsArePriced` needs that what is simulated was held against
a quote (`SimulatedIsPriced`).

Only model-checked: all liveness (`LocksAreReleased`, `OrdersSettle`, `PauseEnds`,
`EventsAreReported`, `SourcesRecover`, `MassDisablementHalts`, `RequestsAreAnswered`,
`SourceIsAskedAgain`, `OnlyTheWalletBlocks`, `SentSwapSettles`), since proofs about fairness
and `ENABLED` are beyond the prover. What the two findings violate is false and has no theorem.
The modules use no `RECURSIVE` operator; where a proof needs a least element, as for the next leg
(`LeastNatural` in `SplitSwapProofs`), it takes a minimal set under strict inclusion instead of
induction.

## 7. Plan

Done: contract (modelled, checked, proved, refined); keeper, RPC pause and watcher, monitor,
quote path, split swap and swap panel (modelled, checked, safety proved). Next, in this
order:

1. **Monitor**: the window of a health disable under calls, once `failingSince` is reset
   with the count.
2. **Pure decisions**, as operators against reference definitions: the price quorum
   (`order-floor.js`), the interquartile filter and median (`quorum-check.ts`), the
   low-quorum demotion (`quote-quorum.ts`).
3. **Sliding-window rate limiter** and **alert deduplication**, both over a KV store
   that fails; the **order hooks** (`useOrderEngine.ts`).

## 8. Not modelled

Contract V2 (superseded; same fills, fewer checks), the fee collector (one call, no
state between calls but its router list), signature recovery, hashing and reentrancy
guards of V3 (a signature is membership of `Orders`; a guarded call is one action),
ERC-20 tokens that take a fee on transfer. Of the keeper: parsing and classification of
errors, price and route requests, gas, metrics, boot checks, the published copy of the
pause flag. Of the monitor: the heartbeat, on-chain scan, keeper health, message texts, and
how the quorum computes an outlier (a choice here). Of the quote path: cache keys, ranking,
adapters, gates and rate limits. Of the application: the search for a split, approvals and
permits, `useQuote`, `useOrderEngine`, gasless and CoW limit orders, pages, components,
styles, analytics, portfolio, token catalogs, scripts. `PROJECT.json` lists each with
its reason.
