----------------------------- MODULE OrderKeeper -----------------------------
(***************************************************************************)
(* The life of an order in the orders table: created and cancelled by the  *)
(* orders API, filled by the keeper (executor.js), repaired by the         *)
(* operators' backfill tool, while the contract and the clock go on.       *)
(*                                                                         *)
(* The keeper is one process.  Its interval starts a tick every 30 s       *)
(* whether or not the previous one has ended, so ticks overlap: a tick     *)
(* waits for a receipt up to 180 s, while the lock it holds, a row in      *)
(* status "executing", is released by any later tick after 60 s.  Ticks    *)
(* decide from the rows they fetched at their start, and write by id.      *)
(*                                                                         *)
(* Of the contract the keeper sees what OrderLife says of an order;        *)
(* OrderExecutorV3 implements it.                                          *)
(*                                                                         *)
(* Elapsed time is not measured: a lock ages, a DCA interval elapses, an   *)
(* order expires and a receipt is given up at any moment.  What a price, a *)
(* route, a gas tier or a freeze decides is a choice of the action.        *)
(***************************************************************************)
EXTENDS Naturals, FiniteSets, Functions

CONSTANTS
    Orders,             \* ids of the rows
    Ticks,              \* ticks that may run at once
    DcaTotal,           \* chunks of a DCA order
    MaxCycleFailures,   \* MAX_CYCLE_FAILURES
    MaxTxs,             \* bound: transactions sent
    MaxFaults           \* bound: lost requests, failed ticks and crashes

ASSUME KeeperAssumption ==
    /\ DcaTotal \in Nat /\ DcaTotal >= 2
    /\ MaxCycleFailures \in Nat \ {0}
    /\ MaxTxs \in Nat /\ MaxFaults \in Nat

VARIABLES
    row,         \* the orders table
    lockOld,     \* rows whose updated_at is more than LOCK_TIMEOUT_MS ago
    executions,  \* tx_hash of the rows of order_executions
    terms,       \* the signed orders, and
    fills,       \* what the contract knows of them:
    due,         \* fills, elapsed intervals
    expired,     \* and orders past their expiry
    txs,         \* the executeOrder transactions sent
    tick,        \* what each tick executes
    missed,      \* orders with an entry in orderRetries or orderInfraMisses
    repair,      \* the fill an operator is recording, and the row it read
    orderMisses, \* misses caused by the order itself, counted up to the cap
    faults

contract == <<terms, fills, due, expired>>

vars == <<row, lockOld, executions, contract, txs, tick, missed, repair, orderMisses,
          faults>>

\* Every variable but the table's and the ticks'.
world == <<executions, contract, txs, repair>>

Limit == [total |-> 1, recurring |-> FALSE]

Dca == [total |-> DcaTotal, recurring |-> TRUE]

\* Orders share no nonce.
Life == INSTANCE OrderLife WITH
            Terms  <- {Limit, Dca},
            Rivals <- [o \in Orders |-> {}],
            closed <- expired

Statuses == {"active", "executing", "executed", "cancelled", "expired", "failed"}

Rows == [status : Statuses, executed : 0 .. DcaTotal,
         failures : 0 .. MaxCycleFailures, error : {"none", "permanent", "retries"}]

NoRow == [status |-> "absent", executed |-> 0, failures |-> 0, error |-> "none"]

TxIds == 1 .. MaxTxs

NoTx == 0

\* A transaction of an order; rank is its number among the order's fills.
TxStates == {"unsent", "pending", "success", "reverted"}

Txs == [order : Orders, state : TxStates \ {"unsent"}, rank : 0 .. DcaTotal]
           \cup {[state |-> "unsent"]}

\* What the keeper uses of a row it fetched: the status was "active".
Counts == [executed : 0 .. DcaTotal, failures : 0 .. MaxCycleFailures]

CountsOf(o) == [executed |-> row[o].executed, failures |-> row[o].failures]

\* A tick and the rows it fetched and has not finished with.
Rest == [pc |-> "rest", rows |-> <<>>, tx |-> NoTx]

Steps == {"check", "build", "wait", "record"}

NoRepair == [tx |-> NoTx]

\* What the backfill tool uses of the row it read.
RepairReads == [open : BOOLEAN, executed : 0 .. DcaTotal]

TypeOK ==
    /\ row \in [Orders -> Rows \cup {NoRow}]
    /\ Life!Signed = {o \in Orders : row[o] # NoRow}
    /\ lockOld \subseteq Orders
    /\ executions \subseteq {x \in TxIds : txs[x].state = "success"}
    /\ \A o \in Life!Signed : terms[o] \in {Limit, Dca}
    /\ fills \in [Orders -> 0 .. DcaTotal]
    /\ due \subseteq Orders
    /\ expired \subseteq Orders
    /\ txs \in [TxIds -> Txs]
    /\ \A t \in Ticks :
        /\ DOMAIN tick[t].rows \subseteq Orders
        /\ \A o \in DOMAIN tick[t].rows : tick[t].rows[o] \in Counts
        /\ \/ tick[t].pc \in {"rest", "fetch", "order"}
           \/ tick[t].pc \in Steps /\ tick[t].order \in DOMAIN tick[t].rows
        /\ tick[t].tx # NoTx <=> tick[t].pc \in {"wait", "record"}
    /\ missed \subseteq Orders
    /\ repair # NoRepair => txs[repair.tx].state = "success" /\ repair.read \in RepairReads
    /\ orderMisses \in [Orders -> 0 .. MaxCycleFailures]
    /\ faults \in 0 .. MaxFaults

Init ==
    /\ row = [o \in Orders |-> NoRow]
    /\ lockOld = {}
    /\ executions = {}
    /\ terms = <<>>
    /\ fills = [o \in Orders |-> 0]
    /\ due = Orders
    /\ expired = {}
    /\ txs = [x \in TxIds |-> [state |-> "unsent"]]
    /\ tick = [t \in Ticks |-> Rest]
    /\ missed = {}
    /\ repair = NoRepair
    /\ orderMisses = [o \in Orders |-> 0]
    /\ faults = 0

Fault == faults < MaxFaults /\ faults' = faults + 1

-----------------------------------------------------------------------------
(* The table.  A PATCH names the columns it writes and restarts updated_at. *)

Patch(o, r) ==
    /\ row' = [row EXCEPT ![o] = r]
    /\ lockOld' = lockOld \ {o}
    /\ UNCHANGED faults

\* A PATCH by id, whatever the row's status is by now.  supabaseFetch's answer
\* is not checked, or only logged: a refused or lost request goes unnoticed.
Write(o, r) == Patch(o, r) \/ (UNCHANGED <<row, lockOld>> /\ Fault)

WithStatus(o, status) == [row[o] EXCEPT !.status = status]

-----------------------------------------------------------------------------
(* The contract, the clock and the user. *)

IsDca(o) == terms[o].recurring

\* What canExecute and executeOrder require of the order's own progress.  The
\* owner's cancellation on chain, the price, the router, the balances and the pause
\* only refuse more: PutOff, HoldBack, OrderMiss and Revert are possible at any time.
Executable(o) == Life!CanFill(o)

CreateOrder(o, t) ==
    /\ row[o] = NoRow
    /\ row' = [row EXCEPT ![o].status = "active"]
    /\ Life!Sign(o, t)
    /\ UNCHANGED <<lockOld, executions, txs, tick, missed, repair, orderMisses, faults>>

\* PATCH /api/orders/:id: one UPDATE ... WHERE status = 'active'.
CancelRow(o) ==
    /\ row[o].status = "active"
    /\ Patch(o, WithStatus(o, "cancelled"))
    /\ UNCHANGED <<tick, missed, orderMisses, world>>

Expire(o) ==
    /\ row[o] # NoRow
    /\ o \notin expired
    /\ Life!Close(o)
    /\ UNCHANGED <<row, lockOld, executions, txs, tick, missed, repair, orderMisses,
                   faults>>

IntervalElapses(o) ==
    /\ o \notin due
    /\ Life!Elapse(o)
    /\ UNCHANGED <<row, lockOld, executions, txs, tick, missed, repair, orderMisses,
                   faults>>

LockAges(o) ==
    /\ row[o].status = "executing"
    /\ o \notin lockOld
    /\ lockOld' = lockOld \cup {o}
    /\ UNCHANGED <<row, tick, missed, orderMisses, faults, world>>

Fill(x) ==
    LET o == txs[x].order IN
    /\ txs[x].state = "pending"
    /\ Life!Fill(o)
    /\ txs' = [txs EXCEPT ![x].state = "success", ![x].rank = fills'[o]]
    /\ UNCHANGED <<row, lockOld, executions, tick, missed, repair, orderMisses, faults>>

\* The order's state, the market or the floor refuses the transaction.  A revert
\* that no tick waits for changes nothing, and is left out.
Revert(x) ==
    /\ txs[x].state = "pending"
    /\ \E t \in Ticks : tick[t].tx = x
    /\ txs' = [txs EXCEPT ![x].state = "reverted"]
    /\ UNCHANGED <<row, lockOld, executions, contract, tick, missed, repair,
                   orderMisses, faults>>

-----------------------------------------------------------------------------
(* A tick: unlock stale rows, fetch, then every order in turn. *)

\* Slip: rows whose updated_at is old are looked for under "active".
AfterUnlockOfActive(o) ==
    IF row[o].status = "active" /\ o \in lockOld THEN WithStatus(o, "active") ELSE row[o]

AfterUnlock(o) ==
    IF row[o].status = "executing" /\ o \in lockOld THEN WithStatus(o, "active") ELSE row[o]

UnlockStaleOrders(t) ==
    /\ tick[t].pc = "rest"
    /\ \/ /\ row' = [o \in Orders |-> AfterUnlock(o)]
          /\ lockOld' = {o \in lockOld : AfterUnlock(o) = row[o]}
          /\ UNCHANGED faults
       \/ UNCHANGED <<row, lockOld>> /\ Fault
    /\ tick' = [tick EXCEPT ![t].pc = "fetch"]
    /\ UNCHANGED <<missed, orderMisses, world>>

Active == {o \in Orders : row[o].status = "active"}

\* The tick that has nothing left to do rests.
Continue(rows) ==
    IF DOMAIN rows = {} THEN Rest ELSE [pc |-> "order", rows |-> rows, tx |-> NoTx]

\* A failed query answers no rows, and a paused keeper attempts none.  Left out: the
\* limit of the query, MAX_BATCH * 3 of the oldest rows, behind which younger orders
\* wait; and that misses of orders that are gone are forgotten here
\* (pruneInfraMisses), for an entry that is kept only lets more be skipped.
FetchActiveOrders(t) ==
    /\ tick[t].pc = "fetch"
    /\ \/ tick' = [tick EXCEPT ![t] = Continue([o \in Active |-> CountsOf(o)])] /\ UNCHANGED faults
       \/ tick' = [tick EXCEPT ![t] = Rest] /\ Fault
    /\ UNCHANGED <<row, lockOld, missed, orderMisses, world>>

Finished(t, o) ==
    tick' = [tick EXCEPT ![t] = Continue(Restrict(@.rows, DOMAIN @.rows \ {o}))]

\* Slip: an expired order is skipped, and its row stays as it is.
RecordExpiryNowhere(t, o) ==
    /\ tick[t].pc = "order" /\ o \in DOMAIN tick[t].rows
    /\ o \in expired
    /\ missed' = missed \ {o}
    /\ Finished(t, o)
    /\ UNCHANGED <<row, lockOld, orderMisses, faults, world>>

RecordExpiry(t, o) ==
    /\ tick[t].pc = "order" /\ o \in DOMAIN tick[t].rows
    /\ o \in expired
    /\ Write(o, WithStatus(o, "expired"))
    /\ missed' = missed \ {o}
    /\ Finished(t, o)
    /\ UNCHANGED <<orderMisses, world>>

\* There is a miss to back off from; whether the backoff has elapsed is a choice.
MayBeInBackoff(t, o) == o \in missed \/ tick[t].rows[o].failures > 0

SkipInBackoff(t, o) ==
    /\ tick[t].pc = "order" /\ o \in DOMAIN tick[t].rows
    /\ o \notin expired
    /\ MayBeInBackoff(t, o)
    /\ Finished(t, o)
    /\ UNCHANGED <<row, lockOld, missed, orderMisses, faults, world>>

At(t, step, o) == [tick EXCEPT ![t] = [pc |-> step, rows |-> @.rows, order |-> o, tx |-> NoTx]]

\* UPDATE ... WHERE status = 'active'; the answer that it took the row may be lost.
LockOrder(t, o) ==
    /\ tick[t].pc = "order" /\ o \in DOMAIN tick[t].rows
    /\ o \notin expired
    /\ IF row[o].status = "active"
       THEN /\ row' = [row EXCEPT ![o].status = "executing"]
            /\ lockOld' = lockOld \ {o}
            /\ \/ tick' = At(t, "check", o) /\ UNCHANGED faults
               \/ Finished(t, o) /\ Fault
       ELSE Finished(t, o) /\ UNCHANGED <<row, lockOld, faults>>
    /\ UNCHANGED <<missed, orderMisses, world>>

CanExecute(t) ==
    /\ tick[t].pc = "check"
    /\ Executable(tick[t].order)
    /\ tick' = At(t, "build", tick[t].order)
    /\ UNCHANGED <<row, lockOld, missed, orderMisses, faults, world>>

\* Back to "active" without a miss.
Unlock(o) ==
    /\ Write(o, WithStatus(o, "active"))
    /\ UNCHANGED <<missed, orderMisses, world>>

\* No order data, a freeze, no executor for the order, or canExecute says no.
PutOff(t) ==
    /\ tick[t].pc = "check"
    /\ Unlock(tick[t].order)
    /\ Finished(t, tick[t].order)

\* An unusable pinned route, no price quorum, the floor, the cap, a deviation, the
\* gas tier or the submission policy.
HoldBack(t) ==
    /\ tick[t].pc = "build"
    /\ Unlock(tick[t].order)
    /\ Finished(t, tick[t].order)

\* Gas above every tier: the other orders are left for a later tick, too.
SkipByGasTier(t) ==
    /\ tick[t].pc = "build"
    /\ Unlock(tick[t].order)
    /\ tick' = [tick EXCEPT ![t] = Rest]

-----------------------------------------------------------------------------
(* Misses: handleExecutionFailure and the pinned routes. *)

\* One miss more than n, counted up to the cap (bound): beyond it the plans are alike.
OneMore(n) == IF n < MaxCycleFailures THEN n + 1 ELSE n

\* Slip: every miss counts, as before ADR-026.
MissPlanCountingAll(t, o, cause) ==
    LET n == OneMore(tick[t].rows[o].failures) IN
    CASE o \in expired -> WithStatus(o, "expired")
      [] o \notin expired /\ n < MaxCycleFailures /\ cause # "permanent" ->
            [row[o] EXCEPT !.status = "active", !.failures = n]
      [] OTHER ->
            [row[o] EXCEPT !.status = "failed", !.failures = n,
                           !.error = IF cause = "permanent" THEN cause ELSE "retries"]

\* planFailureHandling, on the row as the tick fetched it.
MissPlan(t, o, cause) ==
    LET n == OneMore(tick[t].rows[o].failures) IN
    CASE o \in expired -> WithStatus(o, "expired")
          [] o \notin expired /\ cause = "infra" -> WithStatus(o, "active")
          [] o \notin expired /\ cause = "permanent" ->
                [row[o] EXCEPT !.status = "failed", !.error = "permanent", !.failures = n]
          [] o \notin expired /\ cause = "order" /\ n < MaxCycleFailures ->
                [row[o] EXCEPT !.status = "active", !.failures = n]
          [] OTHER ->
                [row[o] EXCEPT !.status = "failed", !.error = "retries", !.failures = n]

HandleExecutionFailure(t, o, cause) ==
    LET plan == MissPlan(t, o, cause) IN
    /\ Write(o, plan)
    /\ missed' = IF plan.status = "active" THEN missed \cup {o} ELSE missed \ {o}
    /\ orderMisses' = IF cause = "infra" THEN orderMisses
                      ELSE [orderMisses EXCEPT ![o] = OneMore(@)]
    /\ Finished(t, o)
    /\ UNCHANGED world

\* The request for the lock throws: the order is put back without the lock.
LockThrows(t, o) ==
    /\ tick[t].pc = "order" /\ o \in DOMAIN tick[t].rows
    /\ o \notin expired
    /\ HandleExecutionFailure(t, o, "infra")

\* An RPC or transport error before anything was sent, or /api/swap unreachable.
InfraMiss(t) ==
    /\ tick[t].pc \in {"check", "build"}
    /\ HandleExecutionFailure(t, tick[t].order, "infra")

\* What a revert's text says of the order: a retry may help, or cannot.
RevertCauses == {"order", "permanent"}

\* No route for a DCA chunk, or the gas estimate of the transaction reverts.
OrderMiss(t, cause) ==
    /\ tick[t].pc = "build"
    /\ HandleExecutionFailure(t, tick[t].order, cause)

\* The pinned route of a limit order reverts in the estimate: not a miss.
PinnedRouteRevert(t) ==
    LET o == tick[t].order IN
    /\ tick[t].pc = "build"
    /\ ~IsDca(o)
    /\ Write(o, WithStatus(o, "active"))
    /\ missed' = missed \cup {o}
    /\ Finished(t, o)
    /\ UNCHANGED <<orderMisses, world>>

-----------------------------------------------------------------------------
(* The transaction and its receipt. *)

\* The estimate succeeds on the latest block, which shows no pending transaction.
WriteContract(t) ==
    \E x \in TxIds :
        /\ tick[t].pc = "build"
        /\ Executable(tick[t].order)
        /\ \A y \in TxIds : txs[y].state = "unsent" <=> y >= x
        /\ txs' = [txs EXCEPT ![x] = [order |-> tick[t].order, state |-> "pending", rank |-> 0]]
        /\ tick' = [tick EXCEPT ![t].pc = "wait", ![t].tx = x]
        /\ UNCHANGED <<row, lockOld, executions, contract, missed, repair,
                       orderMisses, faults>>

\* Slip: the count is raised in the table, and not from the row that was fetched.
FillPatchInTable(t) ==
    LET o == tick[t].order
        n == row[o].executed + 1
    IN  IF ~IsDca(o)
        THEN [row[o] EXCEPT !.status = "executed", !.failures = 0]
        ELSE [row[o] EXCEPT !.status = IF n >= DcaTotal THEN "executed" ELSE "active",
                            !.executed = n, !.failures = 0]

\* Slip: the chunk after this one is taken for the last.
FillPatchOneAhead(t) ==
    LET o == tick[t].order
        n == tick[t].rows[o].executed + 1
    IN  IF ~IsDca(o)
        THEN [row[o] EXCEPT !.status = "executed", !.failures = 0]
        ELSE [row[o] EXCEPT !.status = IF n + 1 >= DcaTotal THEN "executed" ELSE "active",
                            !.executed = n, !.failures = 0]

\* nextOrderStatus and resetRetryStateFields, on the row as the tick fetched it.
FillPatch(t) ==
    LET o == tick[t].order
        n == tick[t].rows[o].executed + 1
    IN  IF ~IsDca(o)
        THEN [row[o] EXCEPT !.status = "executed", !.failures = 0]
        ELSE [row[o] EXCEPT !.status = IF n >= DcaTotal THEN "executed" ELSE "active",
                            !.executed = n, !.failures = 0]

ReceiptSuccess(t) ==
    LET o == tick[t].order IN
    /\ tick[t].pc = "wait"
    /\ txs[tick[t].tx].state = "success"
    /\ Write(o, FillPatch(t))
    /\ missed' = missed \ {o}
    /\ tick' = [tick EXCEPT ![t].pc = "record"]
    /\ UNCHANGED <<orderMisses, world>>

ReceiptReverted(t) ==
    /\ tick[t].pc = "wait"
    /\ txs[tick[t].tx].state = "reverted"
    /\ HandleExecutionFailure(t, tick[t].order, "order")

\* waitForTransactionReceipt gives up, or the fill's PATCH throws.
ReceiptUnavailable(t) ==
    /\ tick[t].pc = "wait"
    /\ HandleExecutionFailure(t, tick[t].order, "infra")

RecordExecutionRow(t) ==
    /\ tick[t].pc = "record"
    /\ \/ executions' = executions \cup {tick[t].tx} /\ UNCHANGED faults
       \/ UNCHANGED executions /\ Fault
    /\ \/ Finished(t, tick[t].order)
       \/ tick' = [tick EXCEPT ![t] = Rest] \* MAX_BATCH
    /\ UNCHANGED <<row, lockOld, contract, txs, missed, repair, orderMisses>>

-----------------------------------------------------------------------------
(* Failures of the process, and the operators' repair. *)

\* A request of the failure handler throws out of executeCycle.
TickFails(t) ==
    /\ tick[t].pc \notin {"rest", "record"}
    /\ Fault
    /\ tick' = [tick EXCEPT ![t] = Rest]
    /\ UNCHANGED <<row, lockOld, missed, orderMisses, world>>

Crash ==
    /\ Fault
    /\ tick' = [t \in Ticks |-> Rest]
    /\ missed' = {}
    /\ UNCHANGED <<row, lockOld, orderMisses, world>>

\* The fills that list-missing-fills.mjs reports.
Missing == {x \in TxIds : txs[x].state = "success"} \ executions

\* backfill-execution.mjs.
BackfillRead(x) ==
    /\ repair = NoRepair
    /\ x \in Missing
    /\ LET r == row[txs[x].order] IN
       repair' = [tx |-> x, read |-> [open |-> r.status \in {"active", "executing"},
                                      executed |-> r.executed]]
    /\ UNCHANGED <<row, lockOld, executions, contract, txs, tick, missed,
                   orderMisses, faults>>

\* computeOrderPatch, on the row as the tool read it.
BackfillPatch(o, read, rank) ==
    [row[o] EXCEPT
        !.executed = IF read.executed < rank THEN rank ELSE @,
        !.status = IF ~read.open THEN @
                   ELSE IF rank >= terms[o].total THEN "executed" ELSE "active"]

BackfillWrite ==
    LET x == repair.tx
        o == txs[x].order
        r == BackfillPatch(o, repair.read, txs[x].rank)
    IN  /\ repair # NoRepair
        /\ \/ executions' = executions \cup {x} /\ Write(o, r)
           \/ /\ Fault
              /\ row' = [row EXCEPT ![o] = r]
              /\ lockOld' = lockOld \ {o}
              /\ UNCHANGED executions
        /\ repair' = NoRepair
        /\ UNCHANGED <<contract, txs, tick, missed, orderMisses>>

-----------------------------------------------------------------------------
\* What a running tick does next.
TickStep(t) ==
    \/ FetchActiveOrders(t)
    \/ \E o \in Orders : \/ RecordExpiry(t, o) \/ SkipInBackoff(t, o)
                        \/ LockOrder(t, o) \/ LockThrows(t, o)
    \/ CanExecute(t) \/ PutOff(t) \/ HoldBack(t) \/ SkipByGasTier(t)
    \/ InfraMiss(t) \/ \E cause \in RevertCauses : OrderMiss(t, cause)
    \/ PinnedRouteRevert(t)
    \/ WriteContract(t)
    \/ ReceiptSuccess(t) \/ ReceiptReverted(t) \/ ReceiptUnavailable(t)
    \/ RecordExecutionRow(t)

UserStep(o) ==
    (\E t \in {Limit, Dca} : CreateOrder(o, t)) \/ CancelRow(o)

Next ==
    \/ \E t \in Ticks : UnlockStaleOrders(t) \/ TickStep(t) \/ TickFails(t)
    \/ \E o \in Orders : UserStep(o) \/ Expire(o) \/ IntervalElapses(o) \/ LockAges(o)
    \/ \E x \in TxIds : Fill(x) \/ Revert(x) \/ BackfillRead(x)
    \/ BackfillWrite
    \/ Crash

Spec == Init /\ [][Next]_vars

\* The interval starts a tick when none runs, node runs the ticks it started, pm2
\* restarts the process, and time passes.  Nothing is assumed of users, operators
\* and transactions.
Fairness ==
    /\ \A t \in Ticks : WF_vars(UnlockStaleOrders(t)) /\ WF_vars(TickStep(t))
    /\ \A o \in Orders : WF_vars(Expire(o)) /\ WF_vars(LockAges(o))

FairSpec == Spec /\ Fairness

-----------------------------------------------------------------------------
(* Properties *)

\* The table never claims more than the chain did: dca_executed and the execution
\* rows count fills that happened, and an order shown as executed has no chunk
\* left, whichever ticks, repairs and lost writes met on its row.
RowNeverAheadOfChain ==
    \A o \in Orders :
        /\ row[o].executed <= fills[o]
        /\ Cardinality({x \in executions : txs[x].order = o}) <= fills[o]
        /\ row[o].status = "executed" => fills[o] = terms[o].total

\* ADR-026: misses that are the keeper's, its provider's or its store's never burn
\* an order.  The ladder counts no more misses than the order caused itself, and
\* an order that fails for its retries caused MAX_CYCLE_FAILURES of them.
FailureIsEarned ==
    \A o \in Orders :
        /\ row[o].failures <= orderMisses[o]
        /\ row[o].error = "retries" => orderMisses[o] = MaxCycleFailures

\* A row does not stay locked: the tick that holds it ends the lock, or a later
\* one finds it stale, also when the process died with the lock held.
LocksAreReleased ==
    \A o \in Orders : row[o].status = "executing" ~> row[o].status # "executing"

\* Every order comes to rest: at the latest its expiry takes it off the keeper's
\* list for good, although ticks that locked it before put it back.
OrdersSettle ==
    \A o \in Orders : <>[](row[o].status \notin {"active", "executing"})
=============================================================================
