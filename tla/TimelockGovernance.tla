------------------------- MODULE TimelockGovernance -------------------------
(***************************************************************************)
(* The administration of TeraSwapOrderExecutorV3: the admin role, the      *)
(* timelocked changes (router whitelist, admin transfer, sweep, fair-value *)
(* feeds), the executor proposals with their own 48 h clock, the one-time  *)
(* bootstrap and the emergency pause.                                      *)
(*                                                                         *)
(* Every public function is one transaction, hence one action.  A call     *)
(* that reverts changes nothing, so it is a stuttering step: the guards of *)
(* an action are the negations of the function's reverts.  Several         *)
(* transactions may share a block, so `now' (block.timestamp) only moves   *)
(* in Tick.                                                                *)
(***************************************************************************)
EXTENDS Naturals, FiniteSets

CONSTANTS
    Accounts,        \* addresses that may call the contract or become admin
    Routers,         \* DEX routers that may be whitelisted
    Executors,       \* keeper signers that may be whitelisted
    Assets,          \* ERC-20 tokens and ETH
    ETH,             \* the asset that address(0) names in a sweep
    Feeds,           \* Chainlink aggregators, with the scale they are registered at
    NoFeed,          \* tokenUsdFeeds[t].registered = false
    OracleConfigs,   \* per-feed bounds: records [maxStaleness, minPrice, maxPrice]
    Unregistered,    \* oracleConfigs[f].registered = false
    InitialAdmin,    \* the constructor's _admin
    RouterDelay,     \* TIMELOCK_ROUTER_CHANGE
    AdminDelay,      \* TIMELOCK_ADMIN_TRANSFER
    SweepDelay,      \* TIMELOCK_SWEEP
    ExecutorDelay,   \* TIMELOCK_EXECUTOR_CHANGE
    OracleDelay,     \* TIMELOCK_ORACLE_CHANGE
    Grace,           \* TIMELOCK_GRACE
    MaxTime,         \* bound on block.timestamp
    MaxAnnounced,    \* bound on the number of queued changes
    MaxDonated       \* bound on what strangers send to the contract

ASSUME GovernanceAssumption ==
    /\ InitialAdmin \in Accounts
    /\ ETH \in Assets
    /\ NoFeed \notin Feeds
    /\ OracleConfigs \subseteq [maxStaleness : Nat, minPrice : Nat, maxPrice : Nat]
    /\ Unregistered \notin OracleConfigs
    /\ {RouterDelay, AdminDelay, SweepDelay, ExecutorDelay, OracleDelay}
           \subseteq Nat \ {0}
    /\ {Grace, MaxTime, MaxAnnounced, MaxDonated} \subseteq Nat

VARIABLES
    now,                     \* block.timestamp
    admin,
    paused,
    bootstrapped,
    whitelistedRouters,      \* the routers mapped to true
    whitelistedExecutors,    \* the executors mapped to true
    timelockActions,         \* the queued actions that exist
    pendingExecutorChanges,  \* proposals, one per executor at most
    oracleConfigs,           \* the bounds of each trigger feed, or Unregistered
    tokenUsdFeeds,           \* the fair-value feed of each token, or NoFeed
    held,                    \* what the contract owns of each asset
    announced,               \* history: TimelockQueued / ExecutorChangeProposed
    genesis,                 \* history: Bootstrap events
    effects                  \* history: TimelockExecuted / ExecutorChangeExecuted

modes      == <<now, paused, bootstrapped>>
whitelists == <<whitelistedRouters, whitelistedExecutors>>
queues     == <<timelockActions, pendingExecutorChanges>>
oracles    == <<oracleConfigs, tokenUsdFeeds>>
history    == <<announced, genesis, effects>>

govVars == <<modes, admin, whitelists, queues, oracles, held, history>>

-----------------------------------------------------------------------------
(* The hashed payloads: keccak256(abi.encode(tag, arguments)) is injective, *)
(* so a payload is the record of what is hashed.                            *)

RouterChange(r, s)   == [op |-> "setRouter", target |-> r, value |-> s]
AdminChange(a)       == [op |-> "setAdmin", target |-> a, value |-> TRUE]
Sweep(t)             == [op |-> "sweep", target |-> t, value |-> TRUE]
TokenFeed(t, f)      == [op |-> "setTokenUsdFeed", target |-> t, value |-> f]
ExecutorChange(x, s) == [op |-> "setExecutor", target |-> x, value |-> s]

TimelockPayloads ==
    {RouterChange(r, s) : r \in Routers, s \in BOOLEAN}
        \cup {AdminChange(a) : a \in Accounts}
        \cup {Sweep(t) : t \in Assets}
        \cup {TokenFeed(t, f) : t \in Assets, f \in Feeds}

ExecutorPayloads == {ExecutorChange(x, s) : x \in Executors, s \in BOOLEAN}

Payloads == TimelockPayloads \cup ExecutorPayloads

\* The delay of a change, by its kind.
Delay(p) ==
    CASE p.op = "setRouter"       -> RouterDelay
      [] p.op = "setAdmin"        -> AdminDelay
      [] p.op = "sweep"           -> SweepDelay
      [] p.op = "setTokenUsdFeed" -> OracleDelay
      [] OTHER                    -> ExecutorDelay

\* actionId = keccak256(actionHash, block.timestamp): a payload and the block
\* it was queued in.  An existing TimelockAction is its id with readyAt.
Actions == [payload : TimelockPayloads, queuedAt : Nat, readyAt : Nat]

Proposals == [proposed : BOOLEAN, newStatus : BOOLEAN,
              proposedAt : Nat, executeAfter : Nat]

NoProposal == [proposed |-> FALSE, newStatus |-> FALSE,
               proposedAt |-> 0, executeAfter |-> 0]

-----------------------------------------------------------------------------
GovInit ==
    /\ now = 0
    /\ admin = InitialAdmin
    /\ paused = FALSE
    /\ bootstrapped = FALSE
    /\ whitelistedRouters = {}
    /\ whitelistedExecutors = {}
    /\ timelockActions = {}
    /\ pendingExecutorChanges = [x \in Executors |-> NoProposal]
    /\ oracleConfigs = [f \in Feeds |-> Unregistered]
    /\ tokenUsdFeeds = [t \in Assets |-> NoFeed]
    /\ held = [t \in Assets |-> 0]
    /\ announced = {}
    /\ genesis = {}
    /\ effects = {}

Announce(p) ==
    /\ Cardinality(announced) < MaxAnnounced
    /\ announced' = announced \cup {[payload |-> p, at |-> now]}

-----------------------------------------------------------------------------
(* Queueing.  The four queue functions differ only in payload and delay.    *)

ReadyAt(p) == now + Delay(p)

\* An action of the same payload queued in the same block is TimelockAlreadyQueued.
Queue(by, p) ==
    /\ by = admin
    /\ \A a \in timelockActions : ~(a.payload = p /\ a.queuedAt = now)
    /\ timelockActions' = timelockActions \cup
           {[payload |-> p, queuedAt |-> now, readyAt |-> ReadyAt(p)]}
    /\ Announce(p)
    /\ UNCHANGED <<modes, admin, whitelists, pendingExecutorChanges, oracles,
                   held, genesis, effects>>

QueueRouterChange(by, r, s) == Queue(by, RouterChange(r, s))
QueueAdminChange(by, a)     == Queue(by, AdminChange(a))
QueueSweep(by, t)           == Queue(by, Sweep(t))
QueueTokenUsdFeed(by, t, f) == t # ETH /\ Queue(by, TokenFeed(t, f))

CancelTimelockAction(by, a) ==
    /\ by = admin
    /\ a \in timelockActions
    /\ timelockActions' = timelockActions \ {a}
    /\ UNCHANGED <<modes, admin, whitelists, pendingExecutorChanges, oracles,
                   held, history>>

-----------------------------------------------------------------------------
(* Executing a queued action: it exists, its delay has passed, its grace    *)
(* window has not, the caller's arguments hash to it, and it is deleted.    *)

\* Slip: the delay compared one second short.
InWindowEarly(readyAt) == now + 1 >= readyAt /\ now <= readyAt + Grace

InWindow(readyAt) == now >= readyAt /\ now <= readyAt + Grace

\* Slip: the queued action is not deleted when it is executed.
ConsumeWithoutDelete(by, a, p) ==
    /\ by = admin
    /\ a \in timelockActions
    /\ InWindow(a.readyAt)
    /\ a.payload = p
    /\ effects' = effects \cup
           {[payload |-> p, queuedAt |-> a.queuedAt, at |-> now]}
    /\ UNCHANGED <<modes, whitelistedExecutors, queues, oracleConfigs,
                   announced, genesis>>

Consume(by, a, p) ==
    /\ by = admin
    /\ a \in timelockActions
    /\ InWindow(a.readyAt)
    /\ a.payload = p
    /\ timelockActions' = timelockActions \ {a}
    /\ effects' = effects \cup
           {[payload |-> p, queuedAt |-> a.queuedAt, at |-> now]}
    /\ UNCHANGED <<modes, whitelistedExecutors, pendingExecutorChanges,
                   oracleConfigs, announced, genesis>>

\* Slip: the router is whitelisted whatever the status argument.
ExecuteRouterChangeIgnoringStatus(by, a, r, s) ==
    /\ Consume(by, a, RouterChange(r, s))
    /\ whitelistedRouters' = whitelistedRouters \cup {r}
    /\ UNCHANGED <<admin, tokenUsdFeeds, held>>

ExecuteRouterChange(by, a, r, s) ==
    /\ Consume(by, a, RouterChange(r, s))
    /\ whitelistedRouters' = IF s THEN whitelistedRouters \cup {r}
                                  ELSE whitelistedRouters \ {r}
    /\ UNCHANGED <<admin, tokenUsdFeeds, held>>

ExecuteAdminChange(by, a, newAdmin) ==
    /\ Consume(by, a, AdminChange(newAdmin))
    /\ admin' = newAdmin
    /\ UNCHANGED <<whitelistedRouters, tokenUsdFeeds, held>>

\* The whole balance goes to the admin of the moment, who need not be the one
\* that queued the sweep.
ExecuteSweep(by, a, t) ==
    /\ Consume(by, a, Sweep(t))
    /\ held' = [held EXCEPT ![t] = 0]
    /\ UNCHANGED <<admin, whitelistedRouters, tokenUsdFeeds>>

\* Slip: the stored feed is the queued payload instead of the decoded argument.
ExecuteTokenUsdFeedUndecoded(by, a, t, f) ==
    /\ Consume(by, a, TokenFeed(t, f))
    /\ tokenUsdFeeds' = [tokenUsdFeeds EXCEPT ![t] = a.payload]
    /\ UNCHANGED <<admin, whitelistedRouters, held>>

\* The feed is read and validated again at execution; a feed that fails the
\* validation reverts the call, and the queued action survives.
ExecuteTokenUsdFeed(by, a, t, f) ==
    /\ Consume(by, a, TokenFeed(t, f))
    /\ tokenUsdFeeds' = [tokenUsdFeeds EXCEPT ![t] = f]
    /\ UNCHANGED <<admin, whitelistedRouters, held>>

-----------------------------------------------------------------------------
(* Executor proposals: one slot per executor instead of an action id.       *)

ProposeExecutor(by, x, s) ==
    /\ by = admin
    /\ ~pendingExecutorChanges[x].proposed
    /\ pendingExecutorChanges' = [pendingExecutorChanges EXCEPT ![x] =
           [proposed |-> TRUE, newStatus |-> s,
            proposedAt |-> now, executeAfter |-> now + ExecutorDelay]]
    /\ Announce(ExecutorChange(x, s))
    /\ UNCHANGED <<modes, admin, whitelists, timelockActions, oracles, held,
                   genesis, effects>>

ExecuteExecutorChange(by, x) ==
    LET proposal == pendingExecutorChanges[x] IN
    /\ by = admin
    /\ proposal.proposed
    /\ InWindow(proposal.executeAfter)
    /\ pendingExecutorChanges' = [pendingExecutorChanges EXCEPT ![x] = NoProposal]
    /\ whitelistedExecutors' = IF proposal.newStatus
                               THEN whitelistedExecutors \cup {x}
                               ELSE whitelistedExecutors \ {x}
    /\ effects' = effects \cup
           {[payload |-> ExecutorChange(x, proposal.newStatus),
             queuedAt |-> proposal.proposedAt, at |-> now]}
    /\ UNCHANGED <<modes, admin, whitelistedRouters, timelockActions, oracles,
                   held, announced, genesis>>

CancelExecutorProposal(by, x) ==
    /\ by = admin
    /\ pendingExecutorChanges[x].proposed
    /\ pendingExecutorChanges' = [pendingExecutorChanges EXCEPT ![x] = NoProposal]
    /\ UNCHANGED <<modes, admin, whitelists, timelockActions, oracles, held,
                   history>>

-----------------------------------------------------------------------------
(* The untimed powers: bootstrap once, pause and unpause at any time.       *)

Bootstrap(by, rs, xs) ==
    /\ by = admin
    /\ ~bootstrapped
    /\ bootstrapped' = TRUE
    /\ whitelistedRouters' = whitelistedRouters \cup rs
    /\ whitelistedExecutors' = whitelistedExecutors \cup xs
    /\ genesis' = genesis
           \cup {[payload |-> RouterChange(r, TRUE), at |-> now] : r \in rs}
           \cup {[payload |-> ExecutorChange(x, TRUE), at |-> now] : x \in xs}
    /\ UNCHANGED <<now, paused, admin, queues, oracles, held, announced,
                   effects>>

SetPaused(by, status) ==
    /\ by = admin
    /\ paused' = status
    /\ UNCHANGED <<now, bootstrapped, admin, whitelists, queues, oracles, held,
                   history>>

\* The trigger-feed bounds are not timelocked; the feed must answer with a live
\* price, or the call reverts.
SetOracleConfig(by, f, config) ==
    /\ by = admin
    /\ oracleConfigs' = [oracleConfigs EXCEPT ![f] = config]
    /\ UNCHANGED <<modes, admin, whitelists, queues, tokenUsdFeeds, held,
                   history>>

\* Anyone can send the contract an ERC-20; receive() refuses ETH outside a fill.
Donate(t) ==
    /\ t # ETH
    /\ held[t] < MaxDonated
    /\ held' = [held EXCEPT ![t] = @ + 1]
    /\ UNCHANGED <<modes, admin, whitelists, queues, oracles, history>>

Tick ==
    /\ now < MaxTime
    /\ now' = now + 1
    /\ UNCHANGED <<paused, bootstrapped, admin, whitelists, queues, oracles,
                   held, history>>

GovNext ==
    \/ \E by \in Accounts :
        \/ \E r \in Routers, s \in BOOLEAN :
            \/ QueueRouterChange(by, r, s)
            \/ \E a \in timelockActions : ExecuteRouterChange(by, a, r, s)
        \/ \E new \in Accounts :
            \/ QueueAdminChange(by, new)
            \/ \E a \in timelockActions : ExecuteAdminChange(by, a, new)
        \/ \E t \in Assets :
            \/ QueueSweep(by, t)
            \/ \E a \in timelockActions : ExecuteSweep(by, a, t)
        \/ \E t \in Assets, f \in Feeds :
            \/ QueueTokenUsdFeed(by, t, f)
            \/ \E a \in timelockActions : ExecuteTokenUsdFeed(by, a, t, f)
        \/ \E a \in timelockActions : CancelTimelockAction(by, a)
        \/ \E x \in Executors :
            \/ \E s \in BOOLEAN : ProposeExecutor(by, x, s)
            \/ ExecuteExecutorChange(by, x)
            \/ CancelExecutorProposal(by, x)
        \/ \E rs \in SUBSET Routers, xs \in SUBSET Executors : Bootstrap(by, rs, xs)
        \/ \E f \in Feeds, config \in OracleConfigs : SetOracleConfig(by, f, config)
        \/ \E status \in BOOLEAN : SetPaused(by, status)
    \/ \E t \in Assets : Donate(t)
    \/ Tick

GovSpec == GovInit /\ [][GovNext]_govVars

-----------------------------------------------------------------------------
(***************************************************************************)
(* Properties.                                                             *)
(***************************************************************************)

\* The types of the contract's storage and of its event history.
GovTypeOK ==
    /\ now \in Nat
    /\ admin \in Accounts
    /\ paused \in BOOLEAN
    /\ bootstrapped \in BOOLEAN
    /\ whitelistedRouters \subseteq Routers
    /\ whitelistedExecutors \subseteq Executors
    /\ timelockActions \subseteq Actions
    /\ pendingExecutorChanges \in [Executors -> Proposals]
    /\ oracleConfigs \in [Feeds -> OracleConfigs \cup {Unregistered}]
    /\ tokenUsdFeeds \in [Assets -> Feeds \cup {NoFeed}]
    /\ held \in [Assets -> Nat]
    /\ announced \subseteq [payload : Payloads, at : Nat]
    /\ genesis \subseteq [payload : Payloads, at : Nat]
    /\ effects \subseteq [payload : Payloads, queuedAt : Nat, at : Nat]

\* p was announced on chain at least its full delay ago.
AnnouncedInTime(p) ==
    \E e \in announced : e.payload = p /\ e.at + Delay(p) <= now

InGenesis(p) == \E e \in genesis : e.payload = p

\* Whatever holds power over fills now (a whitelisted router or executor, a
\* fair-value feed, an admin that is not the deployer's) was either part of the
\* one-time bootstrap or announced by an event at least the full delay of its
\* kind ago, so a watcher of the events always had that long to react.
EveryPrivilegeWasAnnounced ==
    /\ \A r \in whitelistedRouters :
        InGenesis(RouterChange(r, TRUE)) \/ AnnouncedInTime(RouterChange(r, TRUE))
    /\ \A x \in whitelistedExecutors :
        InGenesis(ExecutorChange(x, TRUE)) \/ AnnouncedInTime(ExecutorChange(x, TRUE))
    /\ \A t \in Assets : tokenUsdFeeds[t] # NoFeed =>
        AnnouncedInTime(TokenFeed(t, tokenUsdFeeds[t]))
    /\ admin # InitialAdmin => AnnouncedInTime(AdminChange(admin))

\* One announcement licenses one execution: an executed change is no longer
\* pending, no announcement is executed twice, and none is executed outside
\* [delay, delay + grace] after it was queued.
EachAnnouncementExecutesOnce ==
    \A e \in effects :
        /\ [payload |-> e.payload, at |-> e.queuedAt] \in announced
        /\ e.at >= e.queuedAt + Delay(e.payload)
        /\ e.at <= e.queuedAt + Delay(e.payload) + Grace
        /\ \A a \in timelockActions :
            ~(a.payload = e.payload /\ a.queuedAt = e.queuedAt)
        /\ \A f \in effects :
            f.payload = e.payload /\ f.queuedAt = e.queuedAt => f = e

\* The grant has not been superseded: no execution of the opposite change is
\* later than every grant, the bootstrap included.
StillGranted(grant, revocation) ==
    \A v \in effects : v.payload = revocation =>
        \E g \in effects \cup genesis : g.payload = grant /\ g.at >= v.at

\* A revocation is never lost: a router or executor that is whitelisted now has
\* been granted at least as recently as it was last revoked, whatever the order
\* in which overlapping queued changes of both signs were executed.
RevocationHolds ==
    /\ \A r \in whitelistedRouters :
        StillGranted(RouterChange(r, TRUE), RouterChange(r, FALSE))
    /\ \A x \in whitelistedExecutors :
        StillGranted(ExecutorChange(x, TRUE), ExecutorChange(x, FALSE))
=============================================================================
