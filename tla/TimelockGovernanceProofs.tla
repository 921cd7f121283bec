---------------------- MODULE TimelockGovernanceProofs ----------------------
(***************************************************************************)
(* The safety of TimelockGovernance for every set of accounts, routers,    *)
(* executors, assets and feeds, and for every positive delay.              *)
(*                                                                         *)
(* The invariants are not inductive as they stand: that an executed change *)
(* was announced in time follows from what is known of it while it is      *)
(* pending, so the inductive invariant GovInv also says that every pending *)
(* change carries the announcement it came from (QueueJustified,           *)
(* ProposalsJustified) and that nothing in the history is from the future. *)
(***************************************************************************)
EXTENDS TimelockGovernance, TLAPS

\* Every queued action was announced in the block it was queued in, becomes
\* ready exactly its delay later, and has not been executed.
QueueJustified ==
    \A a \in timelockActions :
        /\ [payload |-> a.payload, at |-> a.queuedAt] \in announced
        /\ a.readyAt = a.queuedAt + Delay(a.payload)
        /\ \A e \in effects : ~(e.payload = a.payload /\ e.queuedAt = a.queuedAt)

\* The same of the executor proposals.
ProposalsJustified ==
    \A x \in Executors :
        LET proposal == pendingExecutorChanges[x]
            change   == ExecutorChange(x, proposal.newStatus)
        IN  proposal.proposed =>
                /\ [payload |-> change, at |-> proposal.proposedAt] \in announced
                /\ proposal.executeAfter = proposal.proposedAt + ExecutorDelay
                /\ \A e \in effects :
                       ~(e.payload = change /\ e.queuedAt = proposal.proposedAt)

\* What was executed was announced at least its delay and at most its delay and
\* the grace earlier, and not after now.
EffectsJustified ==
    \A e \in effects :
        /\ [payload |-> e.payload, at |-> e.queuedAt] \in announced
        /\ e.at >= e.queuedAt + Delay(e.payload)
        /\ e.at <= e.queuedAt + Delay(e.payload) + Grace
        /\ e.at <= now

\* No two executions come from one announcement.
EffectsDistinct ==
    \A e, f \in effects : f.payload = e.payload /\ f.queuedAt = e.queuedAt => f = e

GovInv ==
    /\ GovTypeOK
    /\ QueueJustified
    /\ ProposalsJustified
    /\ EffectsJustified
    /\ EffectsDistinct
    /\ EveryPrivilegeWasAnnounced
    /\ RevocationHolds

-----------------------------------------------------------------------------
(* Payloads.                                                                *)

LEMMA PayloadTypes ==
    /\ \A r \in Routers, s \in BOOLEAN : RouterChange(r, s) \in TimelockPayloads
    /\ \A a \in Accounts : AdminChange(a) \in TimelockPayloads
    /\ \A t \in Assets : Sweep(t) \in TimelockPayloads
    /\ \A t \in Assets, f \in Feeds : TokenFeed(t, f) \in TimelockPayloads
    /\ \A x \in Executors, s \in BOOLEAN : ExecutorChange(x, s) \in ExecutorPayloads
    /\ TimelockPayloads \subseteq Payloads
    /\ ExecutorPayloads \subseteq Payloads
BY DEF TimelockPayloads, ExecutorPayloads, Payloads

\* A change of an executor is never in the timelock queue.
LEMMA QueuesDisjoint ==
    ASSUME NEW x, NEW s
    PROVE  ExecutorChange(x, s) \notin TimelockPayloads
<1>1. \A p \in TimelockPayloads : p.op # "setExecutor"
  BY DEF TimelockPayloads, RouterChange, AdminChange, Sweep, TokenFeed
<1>2. ExecutorChange(x, s).op = "setExecutor"
  BY DEF ExecutorChange
<1> QED BY <1>1, <1>2

\* Every delay is positive, and each kind has its own.
LEMMA DelayFacts ==
    /\ \A p \in Payloads : Delay(p) \in Nat \ {0}
    /\ \A x \in Executors, s \in BOOLEAN : Delay(ExecutorChange(x, s)) = ExecutorDelay
<1>1. ASSUME NEW p \in Payloads PROVE Delay(p) \in Nat \ {0}
  BY GovernanceAssumption
     DEF Payloads, TimelockPayloads, ExecutorPayloads, Delay, RouterChange,
         AdminChange, Sweep, TokenFeed, ExecutorChange, GovernanceAssumption
<1>2. ASSUME NEW x \in Executors, NEW s \in BOOLEAN
      PROVE  Delay(ExecutorChange(x, s)) = ExecutorDelay
  BY DEF Delay, ExecutorChange
<1> QED BY <1>1, <1>2

-----------------------------------------------------------------------------
(* What never gets lost as the history grows and time passes.               *)

\* An announcement made in time stays in time, and genesis stays genesis.
LEMMA AnnouncedStays ==
    ASSUME GovTypeOK, GovTypeOK', announced \subseteq announced',
           genesis \subseteq genesis', now' >= now, NEW p \in Payloads
    PROVE  /\ AnnouncedInTime(p) => AnnouncedInTime(p)'
           /\ InGenesis(p) => InGenesis(p)'
<1>1. ASSUME AnnouncedInTime(p) PROVE AnnouncedInTime(p)'
  <2>1. PICK e \in announced : e.payload = p /\ e.at + Delay(p) <= now
    BY <1>1 DEF AnnouncedInTime
  <2>2. e.at \in Nat /\ Delay(p) \in Nat /\ now \in Nat /\ now' \in Nat
    BY DelayFacts DEF GovTypeOK
  <2>3. e \in announced' /\ e.at + Delay(p) <= now'
    BY <2>1, <2>2
  <2> QED BY <2>1, <2>3 DEF AnnouncedInTime
<1>2. InGenesis(p) => InGenesis(p)'
  BY DEF InGenesis
<1> QED BY <1>1, <1>2

\* A grant is superseded only by the execution of its revocation.
LEMMA GrantStays ==
    ASSUME NEW grant, NEW revocation, effects \subseteq effects',
           genesis \subseteq genesis',
           \A v \in effects' \ effects : v.payload # revocation
    PROVE  StillGranted(grant, revocation) => StillGranted(grant, revocation)'
BY DEF StillGranted

\* A grant at least as recent as every execution is not superseded.
LEMMA FreshGrant ==
    ASSUME NEW grant, NEW revocation, NEW g \in effects' \cup genesis',
           g.payload = grant, \A v \in effects' : g.at >= v.at
    PROVE  StillGranted(grant, revocation)'
BY DEF StillGranted

\* The powers stay announced if every new one is announced.
LEMMA PowersStayAnnounced ==
    ASSUME GovTypeOK, GovTypeOK', EveryPrivilegeWasAnnounced,
           announced \subseteq announced', genesis \subseteq genesis', now' >= now,
           \A r \in whitelistedRouters' \ whitelistedRouters :
               InGenesis(RouterChange(r, TRUE))' \/ AnnouncedInTime(RouterChange(r, TRUE))',
           \A x \in whitelistedExecutors' \ whitelistedExecutors :
               InGenesis(ExecutorChange(x, TRUE))' \/ AnnouncedInTime(ExecutorChange(x, TRUE))',
           \A t \in Assets : \/ tokenUsdFeeds'[t] = tokenUsdFeeds[t]
                           \/ AnnouncedInTime(TokenFeed(t, tokenUsdFeeds[t]))',
           admin' = admin \/ AnnouncedInTime(AdminChange(admin))'
    PROVE  EveryPrivilegeWasAnnounced'
<1>1. \A p \in Payloads : AnnouncedInTime(p) => AnnouncedInTime(p)'
  BY AnnouncedStays
<1>2. \A p \in Payloads : InGenesis(p) => InGenesis(p)'
  BY AnnouncedStays
<1>3. ASSUME NEW r \in whitelistedRouters'
      PROVE  InGenesis(RouterChange(r, TRUE))' \/ AnnouncedInTime(RouterChange(r, TRUE))'
  <2>1. CASE r \in whitelistedRouters
    <3>1. RouterChange(r, TRUE) \in Payloads
      BY PayloadTypes DEF GovTypeOK
    <3>2. InGenesis(RouterChange(r, TRUE)) \/ AnnouncedInTime(RouterChange(r, TRUE))
      BY <2>1 DEF EveryPrivilegeWasAnnounced
    <3> QED BY <1>1, <1>2, <3>1, <3>2
  <2> QED BY <2>1
<1>4. ASSUME NEW x \in whitelistedExecutors'
      PROVE  InGenesis(ExecutorChange(x, TRUE))' \/ AnnouncedInTime(ExecutorChange(x, TRUE))'
  <2>1. CASE x \in whitelistedExecutors
    <3>1. ExecutorChange(x, TRUE) \in Payloads
      BY PayloadTypes DEF GovTypeOK
    <3>2. InGenesis(ExecutorChange(x, TRUE)) \/ AnnouncedInTime(ExecutorChange(x, TRUE))
      BY <2>1 DEF EveryPrivilegeWasAnnounced
    <3> QED BY <1>1, <1>2, <3>1, <3>2
  <2> QED BY <2>1
<1>5. ASSUME NEW t \in Assets, tokenUsdFeeds'[t] # NoFeed
      PROVE  AnnouncedInTime(TokenFeed(t, tokenUsdFeeds[t]))'
  <2>1. CASE tokenUsdFeeds'[t] = tokenUsdFeeds[t]
    <3>1. TokenFeed(t, tokenUsdFeeds[t]) \in Payloads
      BY <1>5, <2>1, PayloadTypes DEF GovTypeOK
    <3>2. AnnouncedInTime(TokenFeed(t, tokenUsdFeeds[t]))
      BY <1>5, <2>1 DEF EveryPrivilegeWasAnnounced
    <3> QED BY <1>1, <2>1, <3>1, <3>2 DEF AnnouncedInTime
  <2> QED BY <2>1
<1>6. ASSUME admin' # InitialAdmin PROVE AnnouncedInTime(AdminChange(admin))'
  <2>1. CASE admin' = admin
    <3>1. AdminChange(admin) \in Payloads
      BY PayloadTypes DEF GovTypeOK
    <3>2. AnnouncedInTime(AdminChange(admin))
      BY <1>6, <2>1 DEF EveryPrivilegeWasAnnounced
    <3> QED BY <1>1, <2>1, <3>1, <3>2 DEF AnnouncedInTime
  <2> QED BY <2>1
<1> QED BY <1>3, <1>4, <1>5, <1>6 DEF EveryPrivilegeWasAnnounced

\* The revocations hold if every power is newly granted, or old and not revoked.
LEMMA RevocationsStay ==
    ASSUME RevocationHolds, effects \subseteq effects', genesis \subseteq genesis',
           \A r \in whitelistedRouters' :
               \/ StillGranted(RouterChange(r, TRUE), RouterChange(r, FALSE))'
               \/ /\ r \in whitelistedRouters
                  /\ \A v \in effects' \ effects : v.payload # RouterChange(r, FALSE),
           \A x \in whitelistedExecutors' :
               \/ StillGranted(ExecutorChange(x, TRUE), ExecutorChange(x, FALSE))'
               \/ /\ x \in whitelistedExecutors
                  /\ \A v \in effects' \ effects : v.payload # ExecutorChange(x, FALSE)
    PROVE  RevocationHolds'
<1>1. ASSUME NEW r \in whitelistedRouters', r \in whitelistedRouters,
             \A v \in effects' \ effects : v.payload # RouterChange(r, FALSE)
      PROVE  StillGranted(RouterChange(r, TRUE), RouterChange(r, FALSE))'
  <2>1. StillGranted(RouterChange(r, TRUE), RouterChange(r, FALSE))
    BY <1>1 DEF RevocationHolds
  <2> QED BY <1>1, <2>1, GrantStays
<1>2. ASSUME NEW x \in whitelistedExecutors', x \in whitelistedExecutors,
             \A v \in effects' \ effects : v.payload # ExecutorChange(x, FALSE)
      PROVE  StillGranted(ExecutorChange(x, TRUE), ExecutorChange(x, FALSE))'
  <2>1. StillGranted(ExecutorChange(x, TRUE), ExecutorChange(x, FALSE))
    BY <1>2 DEF RevocationHolds
  <2> QED BY <1>2, <2>1, GrantStays
<1> QED BY <1>1, <1>2 DEF RevocationHolds

-----------------------------------------------------------------------------
LEMMA InitEstablishesGovInv == GovInit => GovInv
<1> SUFFICES ASSUME GovInit PROVE GovInv
  OBVIOUS
<1>1. GovTypeOK
  <2>1. NoProposal \in Proposals
    BY DEF NoProposal, Proposals
  <2> QED BY <2>1, GovernanceAssumption DEF GovernanceAssumption, GovInit, GovTypeOK
<1>2. QueueJustified /\ EffectsJustified /\ EffectsDistinct
  BY DEF GovInit, QueueJustified, EffectsJustified, EffectsDistinct
<1>3. ProposalsJustified
  BY DEF GovInit, ProposalsJustified, NoProposal
<1>4. EveryPrivilegeWasAnnounced /\ RevocationHolds
  BY DEF GovInit, EveryPrivilegeWasAnnounced, RevocationHolds
<1> QED BY <1>1, <1>2, <1>3, <1>4 DEF GovInv

LEMMA QueueStep ==
    ASSUME GovInv, NEW by, NEW p \in TimelockPayloads, Queue(by, p)
    PROVE  GovInv'
<1> USE DEF GovInv
<1> DEFINE id == [payload |-> p, queuedAt |-> now, readyAt |-> ReadyAt(p)]
           event == [payload |-> p, at |-> now]
<1>1. p \in Payloads /\ Delay(p) \in Nat \ {0} /\ now \in Nat
  BY PayloadTypes, DelayFacts DEF GovTypeOK
<1>2. GovTypeOK'
  <2>1. id \in Actions /\ event \in [payload : Payloads, at : Nat]
    BY <1>1 DEF Actions, ReadyAt
  <2> QED BY <2>1 DEF GovTypeOK, Queue, Announce, modes, whitelists, oracles
<1>3. QueueJustified'
  <2>1. \A e \in effects : ~(e.payload = p /\ e.queuedAt = now)
    <3> SUFFICES ASSUME NEW e \in effects, e.payload = p, e.queuedAt = now
                 PROVE  FALSE
      OBVIOUS
    <3>1. e.at \in Nat /\ e.at <= now /\ e.at >= now + Delay(p)
      BY DEF EffectsJustified, GovTypeOK
    <3> QED BY <3>1, <1>1
  <2>2. /\ id.payload = p /\ id.queuedAt = now /\ id.readyAt = now + Delay(p)
        /\ [payload |-> id.payload, at |-> id.queuedAt] = event
    BY DEF ReadyAt
  <2>3. /\ timelockActions' = timelockActions \cup {id}
        /\ announced' = announced \cup {event}
        /\ UNCHANGED effects
    BY DEF Queue, Announce
  <2> QED BY <2>1, <2>2, <2>3 DEF QueueJustified
<1>4. ProposalsJustified'
  BY DEF Queue, ProposalsJustified, Announce
<1>5. EffectsJustified' /\ EffectsDistinct'
  BY DEF Queue, EffectsJustified, EffectsDistinct, Announce, modes
<1>6. EveryPrivilegeWasAnnounced'
  <2>1. /\ announced \subseteq announced' /\ genesis' = genesis /\ now' >= now
        /\ tokenUsdFeeds' = tokenUsdFeeds /\ admin' = admin
        /\ whitelistedRouters' = whitelistedRouters
        /\ whitelistedExecutors' = whitelistedExecutors
    BY <1>1 DEF Queue, Announce, modes, oracles, whitelists
  <2> QED BY <2>1, <1>2, PowersStayAnnounced
<1>7. RevocationHolds'
  BY RevocationsStay DEF Queue, whitelists
<1> QED BY <1>2, <1>3, <1>4, <1>5, <1>6, <1>7

\* The actions that change no power, no queue entry and no history except by
\* dropping entries or letting time pass.
LEMMA QuietStep ==
    ASSUME GovInv, GovTypeOK', now' >= now,
           UNCHANGED <<admin, whitelists, tokenUsdFeeds, history>>,
           timelockActions' \subseteq timelockActions,
           \A x \in Executors : pendingExecutorChanges'[x].proposed =>
               pendingExecutorChanges'[x] = pendingExecutorChanges[x]
    PROVE  GovInv'
<1> USE DEF GovInv, history
<1>1. QueueJustified'
  BY DEF QueueJustified
<1>2. ProposalsJustified'
  <2> SUFFICES ASSUME NEW x \in Executors, pendingExecutorChanges'[x].proposed
               PROVE  LET proposal == pendingExecutorChanges'[x]
                          change   == ExecutorChange(x, proposal.newStatus)
                      IN  /\ [payload |-> change, at |-> proposal.proposedAt] \in announced'
                          /\ proposal.executeAfter = proposal.proposedAt + ExecutorDelay
                          /\ \A e \in effects' :
                               ~(e.payload = change /\ e.queuedAt = proposal.proposedAt)
    BY DEF ProposalsJustified
  <2>1. pendingExecutorChanges'[x] = pendingExecutorChanges[x]
    OBVIOUS
  <2> QED BY <2>1 DEF ProposalsJustified
<1>3. EffectsJustified'
  <2> SUFFICES ASSUME NEW e \in effects PROVE e.at <= now'
    BY DEF EffectsJustified
  <2>1. e.at \in Nat /\ now \in Nat /\ now' \in Nat /\ e.at <= now
    BY DEF GovTypeOK, EffectsJustified
  <2> QED BY <2>1
<1>4. EffectsDistinct'
  BY DEF EffectsDistinct
<1>5. EveryPrivilegeWasAnnounced'
  <2>1. /\ announced' = announced /\ genesis' = genesis
        /\ tokenUsdFeeds' = tokenUsdFeeds /\ admin' = admin
        /\ whitelistedRouters' = whitelistedRouters
        /\ whitelistedExecutors' = whitelistedExecutors
    BY DEF whitelists
  <2> QED BY <2>1, PowersStayAnnounced
<1>6. RevocationHolds'
  BY RevocationsStay DEF whitelists
<1> QED BY <1>1, <1>2, <1>3, <1>4, <1>5, <1>6

\* What every execution of a queued action has in common: the history stays
\* justified, and the payload was announced in time.
LEMMA ConsumeStep ==
    ASSUME GovInv, NEW by, NEW a, NEW p \in TimelockPayloads, Consume(by, a, p)
    PROVE  /\ QueueJustified' /\ ProposalsJustified'
           /\ EffectsJustified' /\ EffectsDistinct'
           /\ AnnouncedInTime(p)'
           /\ timelockActions' \subseteq Actions
           /\ effects' \subseteq [payload : Payloads, queuedAt : Nat, at : Nat]
<1> USE DEF GovInv
<1> DEFINE effect == [payload |-> p, queuedAt |-> a.queuedAt, at |-> now]
<1>1. /\ a \in timelockActions /\ a.payload = p
      /\ timelockActions' = timelockActions \ {a}
      /\ effects' = effects \cup {effect}
      /\ UNCHANGED <<now, pendingExecutorChanges, announced, genesis>>
  BY DEF Consume, modes
<1>2. /\ [payload |-> p, at |-> a.queuedAt] \in announced
      /\ a.readyAt = a.queuedAt + Delay(p)
      /\ \A e \in effects : ~(e.payload = p /\ e.queuedAt = a.queuedAt)
  BY <1>1 DEF QueueJustified
<1>3. /\ p \in Payloads /\ Delay(p) \in Nat \ {0} /\ now \in Nat
      /\ a \in Actions /\ a.queuedAt \in Nat /\ Grace \in Nat
  BY <1>1, PayloadTypes, DelayFacts, GovernanceAssumption
     DEF GovTypeOK, Actions, GovernanceAssumption
<1>4. now >= a.queuedAt + Delay(p) /\ now <= a.queuedAt + Delay(p) + Grace
  BY <1>2 DEF Consume, InWindow
<1>5. QueueJustified'
  <2> SUFFICES ASSUME NEW b \in timelockActions, b # a
               PROVE  ~(effect.payload = b.payload /\ effect.queuedAt = b.queuedAt)
    BY <1>1 DEF QueueJustified
  <2>1. b.readyAt = b.queuedAt + Delay(b.payload)
    BY DEF QueueJustified
  <2>2. b \in Actions
    BY DEF GovTypeOK
  <2>3. b.payload # a.payload \/ b.queuedAt # a.queuedAt
    BY <2>1, <2>2, <1>1, <1>2, <1>3 DEF Actions
  <2> QED BY <2>3, <1>1
<1>6. ProposalsJustified'
  <2>1. \A x, s : ExecutorChange(x, s) # p
    BY QueuesDisjoint
  <2> QED BY <1>1, <2>1 DEF ProposalsJustified
<1>7. EffectsJustified'
  <2>1. \A e \in effects : e.at <= now'
    BY <1>1 DEF EffectsJustified
  <2>2. /\ effect.payload = p /\ effect.queuedAt = a.queuedAt /\ effect.at = now
        /\ effect.at <= now'
    BY <1>1, <1>3
  <2> QED BY <1>1, <1>2, <1>4, <2>1, <2>2 DEF EffectsJustified
<1>8. EffectsDistinct'
  BY <1>1, <1>2 DEF EffectsDistinct
<1>9. AnnouncedInTime(p)'
  BY <1>1, <1>2, <1>4 DEF AnnouncedInTime
<1>10. timelockActions' \subseteq Actions
  BY <1>1 DEF GovTypeOK
<1>11. effects' \subseteq [payload : Payloads, queuedAt : Nat, at : Nat]
  BY <1>1, <1>3 DEF GovTypeOK
<1> QED BY <1>5, <1>6, <1>7, <1>8, <1>9, <1>10, <1>11

-----------------------------------------------------------------------------
(* The executions, one lemma each.                                          *)

LEMMA RouterChangeStep ==
    ASSUME GovInv, NEW by, NEW a, NEW r \in Routers, NEW s \in BOOLEAN,
           ExecuteRouterChange(by, a, r, s)
    PROVE  GovInv'
<1> USE DEF GovInv
<1> DEFINE p == RouterChange(r, s)
<1>1. p \in TimelockPayloads /\ Consume(by, a, p)
  BY PayloadTypes DEF ExecuteRouterChange
<1>2. /\ QueueJustified' /\ ProposalsJustified'
      /\ EffectsJustified' /\ EffectsDistinct'
      /\ AnnouncedInTime(p)'
      /\ timelockActions' \subseteq Actions
      /\ effects' \subseteq [payload : Payloads, queuedAt : Nat, at : Nat]
  <2> HIDE DEF p
  <2> QED BY <1>1, ConsumeStep
<1>3. /\ effects' = effects \cup {[payload |-> p, queuedAt |-> a.queuedAt, at |-> now]}
      /\ whitelistedRouters' = IF s THEN whitelistedRouters \cup {r}
                                    ELSE whitelistedRouters \ {r}
      /\ UNCHANGED <<now, paused, bootstrapped, admin, whitelistedExecutors,
                     pendingExecutorChanges, oracleConfigs, tokenUsdFeeds, held,
                     announced, genesis>>
  BY <1>1 DEF ExecuteRouterChange, Consume, modes
<1>4. GovTypeOK'
  BY <1>2, <1>3 DEF GovTypeOK
<1>5. EveryPrivilegeWasAnnounced'
  <2>1. \A q \in whitelistedRouters' \ whitelistedRouters :
            AnnouncedInTime(RouterChange(q, TRUE))'
    BY <1>2, <1>3
  <2>2. /\ announced' = announced /\ genesis' = genesis /\ now' >= now
        /\ tokenUsdFeeds' = tokenUsdFeeds /\ admin' = admin
        /\ whitelistedExecutors' = whitelistedExecutors
    BY <1>3 DEF GovTypeOK
  <2> QED BY <2>1, <2>2, <1>4, PowersStayAnnounced
<1>6. RevocationHolds'
  <2> DEFINE effect == [payload |-> p, queuedAt |-> a.queuedAt, at |-> now]
  <2>1. effect.payload = p /\ effect.at = now
    OBVIOUS
  <2>2. \A v \in effects' : effect.at >= v.at
    <3>1. \A v \in effects : v.at <= now
      BY DEF EffectsJustified
    <3>2. now \in Nat
      BY DEF GovTypeOK
    <3> QED BY <3>1, <3>2, <2>1, <1>3
  <2>3. ASSUME NEW q \in whitelistedRouters'
        PROVE  \/ StillGranted(RouterChange(q, TRUE), RouterChange(q, FALSE))'
               \/ /\ q \in whitelistedRouters
                  /\ \A v \in effects' \ effects : v.payload # RouterChange(q, FALSE)
    <3>1. CASE q = r /\ s = TRUE
      <4>1. effect \in effects' \cup genesis' /\ effect.payload = RouterChange(q, TRUE)
        BY <1>3, <3>1, <2>1
      <4> HIDE DEF effect
      <4> QED BY <4>1, <2>2, FreshGrant
    <3>2. CASE ~(q = r /\ s = TRUE)
      <4>1. q \in whitelistedRouters /\ q # r
        BY <1>3, <3>2
      <4>2. RouterChange(q, FALSE) # p
        BY <4>1 DEF RouterChange
      <4> QED BY <4>1, <4>2, <1>3, <2>1
    <3> QED BY <3>1, <3>2
  <2>4. ASSUME NEW x \in whitelistedExecutors'
        PROVE  /\ x \in whitelistedExecutors
               /\ \A v \in effects' \ effects : v.payload # ExecutorChange(x, FALSE)
    <3>1. ExecutorChange(x, FALSE) # p
      BY DEF ExecutorChange, RouterChange
    <3> QED BY <3>1, <1>3, <2>1
  <2> HIDE DEF effect
  <2> QED BY <2>3, <2>4, <1>3, RevocationsStay
<1> QED BY <1>2, <1>4, <1>5, <1>6

\* An execution that is not of a router change leaves the whitelists and their
\* revocations as they were.
LEMMA OtherExecutionStep ==
    ASSUME GovInv, NEW by, NEW a, NEW p \in TimelockPayloads, Consume(by, a, p),
           p.op # "setRouter", GovTypeOK', whitelistedRouters' = whitelistedRouters,
           \A t \in Assets : \/ tokenUsdFeeds'[t] = tokenUsdFeeds[t]
                           \/ p = TokenFeed(t, tokenUsdFeeds'[t]),
           admin' = admin \/ p = AdminChange(admin')
    PROVE  GovInv'
<1> USE DEF GovInv
<1>1. /\ QueueJustified' /\ ProposalsJustified'
      /\ EffectsJustified' /\ EffectsDistinct'
      /\ AnnouncedInTime(p)'
  BY ConsumeStep
<1>2. /\ effects' = effects \cup {[payload |-> p, queuedAt |-> a.queuedAt, at |-> now]}
      /\ whitelistedExecutors' = whitelistedExecutors
      /\ announced' = announced /\ genesis' = genesis /\ now' = now
  BY DEF Consume, modes
<1>3. EveryPrivilegeWasAnnounced'
  <2>1. now' >= now
    BY <1>2 DEF GovTypeOK
  <2>2. \A t \in Assets : \/ tokenUsdFeeds'[t] = tokenUsdFeeds[t]
                        \/ AnnouncedInTime(TokenFeed(t, tokenUsdFeeds[t]))'
    BY <1>1 DEF AnnouncedInTime
  <2>3. admin' = admin \/ AnnouncedInTime(AdminChange(admin))'
    BY <1>1 DEF AnnouncedInTime
  <2> QED BY <2>1, <2>2, <2>3, <1>2, PowersStayAnnounced
<1>4. RevocationHolds'
  <2>1. \A q : p # RouterChange(q, FALSE)
    BY DEF RouterChange
  <2>2. \A q : p # ExecutorChange(q, FALSE)
    BY QueuesDisjoint
  <2>3. \A v \in effects' \ effects : v.payload = p
    BY <1>2
  <2> QED BY <2>1, <2>2, <2>3, <1>2, RevocationsStay
<1> QED BY <1>1, <1>3, <1>4

LEMMA AdminChangeStep ==
    ASSUME GovInv, NEW by, NEW a, NEW new \in Accounts, ExecuteAdminChange(by, a, new)
    PROVE  GovInv'
<1> DEFINE p == AdminChange(new)
<1>1. p \in TimelockPayloads /\ Consume(by, a, p) /\ p.op # "setRouter"
  BY PayloadTypes DEF ExecuteAdminChange, AdminChange
<1>2. /\ admin' = new
      /\ UNCHANGED <<whitelistedRouters, tokenUsdFeeds, held>>
  BY DEF ExecuteAdminChange
<1>3. timelockActions' \subseteq Actions
      /\ effects' \subseteq [payload : Payloads, queuedAt : Nat, at : Nat]
  <2> HIDE DEF p
  <2> QED BY <1>1, ConsumeStep
<1>4. GovTypeOK'
  BY <1>1, <1>2, <1>3 DEF GovInv, GovTypeOK, Consume, modes
<1> QED BY <1>1, <1>2, <1>4, OtherExecutionStep

LEMMA SweepStep ==
    ASSUME GovInv, NEW by, NEW a, NEW t \in Assets, ExecuteSweep(by, a, t)
    PROVE  GovInv'
<1> DEFINE p == Sweep(t)
<1>1. p \in TimelockPayloads /\ Consume(by, a, p) /\ p.op # "setRouter"
  BY PayloadTypes DEF ExecuteSweep, Sweep
<1>2. /\ held' = [held EXCEPT ![t] = 0]
      /\ UNCHANGED <<admin, whitelistedRouters, tokenUsdFeeds>>
  BY DEF ExecuteSweep
<1>3. timelockActions' \subseteq Actions
      /\ effects' \subseteq [payload : Payloads, queuedAt : Nat, at : Nat]
  <2> HIDE DEF p
  <2> QED BY <1>1, ConsumeStep
<1>4. GovTypeOK'
  BY <1>1, <1>2, <1>3 DEF GovInv, GovTypeOK, Consume, modes
<1> HIDE DEF p
<1> QED BY <1>1, <1>2, <1>4, OtherExecutionStep

LEMMA TokenUsdFeedStep ==
    ASSUME GovInv, NEW by, NEW a, NEW t \in Assets, NEW f \in Feeds,
           ExecuteTokenUsdFeed(by, a, t, f)
    PROVE  GovInv'
<1> DEFINE p == TokenFeed(t, f)
<1>1. p \in TimelockPayloads /\ Consume(by, a, p) /\ p.op # "setRouter"
  BY PayloadTypes DEF ExecuteTokenUsdFeed, TokenFeed
<1>2. /\ tokenUsdFeeds' = [tokenUsdFeeds EXCEPT ![t] = f]
      /\ UNCHANGED <<admin, whitelistedRouters, held>>
  BY DEF ExecuteTokenUsdFeed
<1>3. timelockActions' \subseteq Actions
      /\ effects' \subseteq [payload : Payloads, queuedAt : Nat, at : Nat]
  <2> HIDE DEF p
  <2> QED BY <1>1, ConsumeStep
<1>4. GovTypeOK'
  BY <1>1, <1>2, <1>3 DEF GovInv, GovTypeOK, Consume, modes
<1>5. \A u \in Assets : \/ tokenUsdFeeds'[u] = tokenUsdFeeds[u]
                      \/ p = TokenFeed(u, tokenUsdFeeds'[u])
  BY <1>2 DEF GovInv, GovTypeOK
<1> HIDE DEF p
<1> QED BY <1>1, <1>2, <1>4, <1>5, OtherExecutionStep

-----------------------------------------------------------------------------
(* The executor proposals and the untimed powers.                           *)

LEMMA ProposeExecutorStep ==
    ASSUME GovInv, NEW by, NEW x \in Executors, NEW s \in BOOLEAN,
           ProposeExecutor(by, x, s)
    PROVE  GovInv'
<1> USE DEF GovInv
<1> DEFINE change   == ExecutorChange(x, s)
           event    == [payload |-> change, at |-> now]
           proposal == [proposed |-> TRUE, newStatus |-> s,
                        proposedAt |-> now, executeAfter |-> now + ExecutorDelay]
<1>1. /\ change \in Payloads /\ Delay(change) = ExecutorDelay
      /\ ExecutorDelay \in Nat \ {0} /\ now \in Nat
  BY PayloadTypes, DelayFacts, GovernanceAssumption DEF GovTypeOK, GovernanceAssumption
<1>2. /\ pendingExecutorChanges' = [pendingExecutorChanges EXCEPT ![x] = proposal]
      /\ announced' = announced \cup {event}
      /\ UNCHANGED <<now, paused, bootstrapped, admin, whitelistedRouters,
                     whitelistedExecutors, timelockActions, oracleConfigs,
                     tokenUsdFeeds, held, genesis, effects>>
  BY DEF ProposeExecutor, Announce, modes, whitelists, oracles
<1>3. GovTypeOK'
  <2>1. proposal \in Proposals /\ event \in [payload : Payloads, at : Nat]
    BY <1>1 DEF Proposals
  <2> QED BY <2>1, <1>2 DEF GovTypeOK
<1>4. QueueJustified' /\ EffectsJustified' /\ EffectsDistinct'
  BY <1>2 DEF QueueJustified, EffectsJustified, EffectsDistinct
<1>5. ProposalsJustified'
  <2>1. \A e \in effects : ~(e.payload = change /\ e.queuedAt = now)
    <3> SUFFICES ASSUME NEW e \in effects, e.payload = change, e.queuedAt = now
                 PROVE  FALSE
      OBVIOUS
    <3>1. e.at \in Nat /\ e.at <= now /\ e.at >= now + ExecutorDelay
      BY <1>1 DEF EffectsJustified, GovTypeOK
    <3> QED BY <3>1, <1>1
  <2>2. ASSUME NEW y \in Executors, y # x
        PROVE  pendingExecutorChanges'[y] = pendingExecutorChanges[y]
    BY <1>2, <2>2 DEF GovTypeOK
  <2>3. pendingExecutorChanges'[x] = proposal
    BY <1>2 DEF GovTypeOK
  <2>4. /\ proposal.proposedAt = now /\ proposal.newStatus = s
        /\ proposal.executeAfter = now + ExecutorDelay
    OBVIOUS
  <2> HIDE DEF proposal
  <2> QED BY <2>1, <2>2, <2>3, <2>4, <1>2 DEF ProposalsJustified
<1>6. EveryPrivilegeWasAnnounced'
  <2>1. announced \subseteq announced' /\ now' >= now
    BY <1>1, <1>2
  <2> QED BY <2>1, <1>2, <1>3, PowersStayAnnounced
<1>7. RevocationHolds'
  BY <1>2, RevocationsStay
<1> QED BY <1>3, <1>4, <1>5, <1>6, <1>7

LEMMA ExecutorChangeStep ==
    ASSUME GovInv, NEW by, NEW x \in Executors, ExecuteExecutorChange(by, x)
    PROVE  GovInv'
<1> USE DEF GovInv
<1> DEFINE proposal == pendingExecutorChanges[x]
           change   == ExecutorChange(x, proposal.newStatus)
           effect   == [payload |-> change, queuedAt |-> proposal.proposedAt, at |-> now]
<1>1. /\ pendingExecutorChanges' = [pendingExecutorChanges EXCEPT ![x] = NoProposal]
      /\ whitelistedExecutors' = IF proposal.newStatus
                                 THEN whitelistedExecutors \cup {x}
                                 ELSE whitelistedExecutors \ {x}
      /\ effects' = effects \cup {effect}
      /\ UNCHANGED <<now, paused, bootstrapped, admin, whitelistedRouters,
                     timelockActions, oracleConfigs, tokenUsdFeeds, held,
                     announced, genesis>>
      /\ proposal.proposed /\ InWindow(proposal.executeAfter)
  BY DEF ExecuteExecutorChange, modes, oracles
<1>2. proposal \in Proposals /\ now \in Nat /\ Grace \in Nat
  BY GovernanceAssumption DEF GovTypeOK, GovernanceAssumption
<1>3. /\ change \in ExecutorPayloads /\ change \in Payloads
      /\ Delay(change) = ExecutorDelay /\ ExecutorDelay \in Nat
  BY <1>2, PayloadTypes, DelayFacts, GovernanceAssumption
     DEF Proposals, GovernanceAssumption
<1>4. /\ [payload |-> change, at |-> proposal.proposedAt] \in announced
      /\ proposal.executeAfter = proposal.proposedAt + ExecutorDelay
      /\ \A e \in effects : ~(e.payload = change /\ e.queuedAt = proposal.proposedAt)
  BY <1>1 DEF ProposalsJustified
<1>5. /\ now >= proposal.proposedAt + ExecutorDelay
      /\ now <= proposal.proposedAt + ExecutorDelay + Grace
  BY <1>1, <1>4 DEF InWindow
<1>6. GovTypeOK'
  <2>1. NoProposal \in Proposals
    BY DEF NoProposal, Proposals
  <2>2. effect \in [payload : Payloads, queuedAt : Nat, at : Nat]
    BY <1>2, <1>3 DEF Proposals
  <2> HIDE DEF effect, proposal
  <2> QED BY <2>1, <2>2, <1>1 DEF GovTypeOK
<1>7. effect.payload = change /\ effect.queuedAt = proposal.proposedAt /\ effect.at = now
  OBVIOUS
<1> HIDE DEF effect
<1>8. QueueJustified'
  <2>1. \A a \in timelockActions : a.payload # change
    BY QueuesDisjoint DEF GovTypeOK, Actions
  <2> QED BY <2>1, <1>1, <1>7 DEF QueueJustified
<1>9. ProposalsJustified'
  <2>1. ASSUME NEW y \in Executors, y # x
        PROVE  /\ pendingExecutorChanges'[y] = pendingExecutorChanges[y]
               /\ \A s : ExecutorChange(y, s) # change
    BY <1>1, <2>1 DEF GovTypeOK, ExecutorChange
  <2>2. ~pendingExecutorChanges'[x].proposed
    BY <1>1 DEF GovTypeOK, NoProposal
  <2> HIDE DEF change
  <2> QED BY <2>1, <2>2, <1>1, <1>7 DEF ProposalsJustified
<1>10. EffectsJustified'
  <2>1. \A e \in effects : e.at <= now'
    BY <1>1 DEF EffectsJustified
  <2>2. effect.at <= now'
    BY <1>1, <1>2, <1>7
  <2> HIDE DEF change
  <2> QED BY <1>1, <1>3, <1>4, <1>5, <1>7, <2>1, <2>2 DEF EffectsJustified
<1>11. EffectsDistinct'
  BY <1>1, <1>4, <1>7 DEF EffectsDistinct
<1>12. EveryPrivilegeWasAnnounced'
  <2>1. ASSUME NEW y \in whitelistedExecutors' \ whitelistedExecutors
        PROVE  AnnouncedInTime(ExecutorChange(y, TRUE))'
    <3>1. y = x /\ proposal.newStatus = TRUE
      BY <1>1, <1>2 DEF Proposals
    <3> QED BY <3>1, <1>1, <1>3, <1>4, <1>5 DEF AnnouncedInTime
  <2>2. now' >= now
    BY <1>1, <1>2
  <2> QED BY <2>1, <2>2, <1>1, <1>6, PowersStayAnnounced
<1>13. RevocationHolds'
  <2>1. \A v \in effects' : effect.at >= v.at
    <3>1. \A v \in effects : v.at <= now
      BY DEF EffectsJustified
    <3> QED BY <3>1, <1>1, <1>2, <1>7
  <2>2. ASSUME NEW y \in whitelistedExecutors'
        PROVE  \/ StillGranted(ExecutorChange(y, TRUE), ExecutorChange(y, FALSE))'
               \/ /\ y \in whitelistedExecutors
                  /\ \A v \in effects' \ effects : v.payload # ExecutorChange(y, FALSE)
    <3>1. CASE y = x /\ proposal.newStatus = TRUE
      <4>1. effect \in effects' \cup genesis' /\ effect.payload = ExecutorChange(y, TRUE)
        BY <1>1, <3>1, <1>7
      <4> QED BY <4>1, <2>1, FreshGrant
    <3>2. CASE ~(y = x /\ proposal.newStatus = TRUE)
      <4>1. y \in whitelistedExecutors /\ y # x
        BY <1>1, <1>2, <3>2 DEF Proposals
      <4>2. ExecutorChange(y, FALSE) # change
        BY <4>1 DEF ExecutorChange
      <4> QED BY <4>1, <4>2, <1>1, <1>7
    <3> QED BY <3>1, <3>2
  <2>3. ASSUME NEW r \in whitelistedRouters'
        PROVE  /\ r \in whitelistedRouters
               /\ \A v \in effects' \ effects : v.payload # RouterChange(r, FALSE)
    <3>1. RouterChange(r, FALSE) # change
      BY DEF ExecutorChange, RouterChange
    <3> QED BY <3>1, <1>1, <1>7
  <2> QED BY <2>2, <2>3, <1>1, RevocationsStay
<1> QED BY <1>6, <1>8, <1>9, <1>10, <1>11, <1>12, <1>13

LEMMA BootstrapStep ==
    ASSUME GovInv, NEW by, NEW rs \in SUBSET Routers, NEW xs \in SUBSET Executors,
           Bootstrap(by, rs, xs)
    PROVE  GovInv'
<1> USE DEF GovInv
<1> DEFINE routerGrants   == {[payload |-> RouterChange(r, TRUE), at |-> now] : r \in rs}
           executorGrants == {[payload |-> ExecutorChange(x, TRUE), at |-> now] : x \in xs}
<1>1. /\ whitelistedRouters' = whitelistedRouters \cup rs
      /\ whitelistedExecutors' = whitelistedExecutors \cup xs
      /\ genesis' = genesis \cup routerGrants \cup executorGrants
      /\ bootstrapped' = TRUE
      /\ UNCHANGED <<now, paused, admin, timelockActions, pendingExecutorChanges,
                     oracleConfigs, tokenUsdFeeds, held, announced, effects>>
  BY DEF Bootstrap, queues, oracles
<1>2. now \in Nat
  BY DEF GovTypeOK
<1>3. GovTypeOK'
  <2>1. routerGrants \subseteq [payload : Payloads, at : Nat]
    <3>1. ASSUME NEW r \in rs PROVE RouterChange(r, TRUE) \in Payloads
      BY PayloadTypes
    <3>2. ASSUME NEW r \in rs
          PROVE  [payload |-> RouterChange(r, TRUE), at |-> now] \in [payload : Payloads, at : Nat]
      BY <3>1, <1>2
    <3> QED BY ONLY <3>2
  <2>2. executorGrants \subseteq [payload : Payloads, at : Nat]
    <3>1. ASSUME NEW x \in xs PROVE ExecutorChange(x, TRUE) \in Payloads
      BY PayloadTypes
    <3>2. ASSUME NEW x \in xs
          PROVE  [payload |-> ExecutorChange(x, TRUE), at |-> now] \in [payload : Payloads, at : Nat]
      BY <3>1, <1>2
    <3> QED BY ONLY <3>2
  <2> HIDE DEF routerGrants, executorGrants
  <2> QED BY <2>1, <2>2, <1>1 DEF GovTypeOK
<1>4. QueueJustified' /\ EffectsJustified' /\ EffectsDistinct'
  BY <1>1 DEF QueueJustified, EffectsJustified, EffectsDistinct
<1>5. ProposalsJustified'
  BY <1>1 DEF ProposalsJustified
<1>6. \A r \in rs : [payload |-> RouterChange(r, TRUE), at |-> now] \in genesis'
  BY <1>1
<1>7. \A x \in xs : [payload |-> ExecutorChange(x, TRUE), at |-> now] \in genesis'
  BY <1>1
<1>8. EveryPrivilegeWasAnnounced'
  <2>1. \A r \in whitelistedRouters' \ whitelistedRouters : InGenesis(RouterChange(r, TRUE))'
    BY <1>1, <1>6 DEF InGenesis
  <2>2. \A x \in whitelistedExecutors' \ whitelistedExecutors : InGenesis(ExecutorChange(x, TRUE))'
    BY <1>1, <1>7 DEF InGenesis
  <2>3. genesis \subseteq genesis' /\ now' >= now
    <3> HIDE DEF routerGrants, executorGrants
    <3> QED BY <1>1, <1>2
  <2> QED BY <2>1, <2>2, <2>3, <1>1, <1>3, PowersStayAnnounced
<1>9. RevocationHolds'
  <2>1. \A v \in effects' : now >= v.at
    BY <1>1, <1>2 DEF EffectsJustified, GovTypeOK
  <2>2. ASSUME NEW r \in rs PROVE StillGranted(RouterChange(r, TRUE), RouterChange(r, FALSE))'
    <3> DEFINE g == [payload |-> RouterChange(r, TRUE), at |-> now]
    <3>1. g \in effects' \cup genesis' /\ g.payload = RouterChange(r, TRUE) /\ g.at = now
      BY <1>6
    <3> HIDE DEF g
    <3> QED BY <3>1, <2>1, FreshGrant
  <2>3. ASSUME NEW x \in xs PROVE StillGranted(ExecutorChange(x, TRUE), ExecutorChange(x, FALSE))'
    <3> DEFINE g == [payload |-> ExecutorChange(x, TRUE), at |-> now]
    <3>1. g \in effects' \cup genesis' /\ g.payload = ExecutorChange(x, TRUE) /\ g.at = now
      BY <1>7
    <3> HIDE DEF g
    <3> QED BY <3>1, <2>1, FreshGrant
  <2>4. genesis \subseteq genesis' /\ effects' = effects
    BY <1>1
  <2> QED BY <2>2, <2>3, <2>4, <1>1, RevocationsStay
<1> QED BY <1>3, <1>4, <1>5, <1>8, <1>9

\* Cancellations, the pause, the trigger-feed bounds, donations and time.
LEMMA QuietSteps ==
    ASSUME GovInv, NEW by,
           \/ \E a \in timelockActions : CancelTimelockAction(by, a)
           \/ \E x \in Executors : CancelExecutorProposal(by, x)
           \/ \E status \in BOOLEAN : SetPaused(by, status)
           \/ \E f \in Feeds, config \in OracleConfigs : SetOracleConfig(by, f, config)
           \/ \E t \in Assets : Donate(t)
           \/ Tick
    PROVE  GovInv'
<1> USE DEF GovInv
<1>1. now \in Nat
  BY DEF GovTypeOK
<1>2. ASSUME NEW a \in timelockActions, CancelTimelockAction(by, a) PROVE GovInv'
  <2>1. GovTypeOK'
    BY <1>2 DEF GovTypeOK, CancelTimelockAction, modes, whitelists, oracles, history
  <2> QED BY <2>1, <1>1, <1>2, QuietStep DEF CancelTimelockAction, modes, oracles
<1>3. ASSUME NEW x \in Executors, CancelExecutorProposal(by, x) PROVE GovInv'
  <2>1. NoProposal \in Proposals /\ ~NoProposal.proposed
    BY DEF NoProposal, Proposals
  <2>2. pendingExecutorChanges' = [pendingExecutorChanges EXCEPT ![x] = NoProposal]
    BY <1>3 DEF CancelExecutorProposal
  <2>3. GovTypeOK'
    BY <1>3, <2>1, <2>2 DEF GovTypeOK, CancelExecutorProposal, modes, whitelists, oracles, history
  <2>4. \A y \in Executors : pendingExecutorChanges'[y].proposed =>
            pendingExecutorChanges'[y] = pendingExecutorChanges[y]
    BY <2>1, <2>2 DEF GovTypeOK
  <2>5. /\ now' >= now /\ timelockActions' = timelockActions
        /\ UNCHANGED <<admin, whitelists, tokenUsdFeeds, history>>
    BY <1>1, <1>3 DEF CancelExecutorProposal, modes, oracles
  <2> QED BY <2>3, <2>4, <2>5, QuietStep
<1>4. ASSUME NEW status \in BOOLEAN, SetPaused(by, status) PROVE GovInv'
  <2>1. GovTypeOK'
    BY <1>4 DEF GovTypeOK, SetPaused, whitelists, queues, oracles, history
  <2> QED BY <2>1, <1>1, <1>4, QuietStep DEF SetPaused, queues, oracles
<1>5. ASSUME NEW f \in Feeds, NEW config \in OracleConfigs, SetOracleConfig(by, f, config)
      PROVE  GovInv'
  <2>1. GovTypeOK'
    BY <1>5 DEF GovTypeOK, SetOracleConfig, modes, whitelists, queues, history
  <2> QED BY <2>1, <1>1, <1>5, QuietStep DEF SetOracleConfig, modes, queues
<1>6. ASSUME NEW t \in Assets, Donate(t) PROVE GovInv'
  <2>1. GovTypeOK'
    BY <1>6 DEF GovTypeOK, Donate, modes, whitelists, queues, oracles, history
  <2> QED BY <2>1, <1>1, <1>6, QuietStep DEF Donate, modes, queues, oracles
<1>7. CASE Tick
  <2>1. GovTypeOK'
    BY <1>7 DEF GovTypeOK, Tick, whitelists, queues, oracles, history
  <2> QED BY <2>1, <1>1, <1>7, QuietStep DEF Tick, queues, oracles
<1> QED BY <1>2, <1>3, <1>4, <1>5, <1>6, <1>7

-----------------------------------------------------------------------------
LEMMA StepPreservesGovInv == GovInv /\ [GovNext]_govVars => GovInv'
<1> SUFFICES ASSUME GovInv, [GovNext]_govVars PROVE GovInv'
  OBVIOUS
<1>1. ASSUME NEW by \in Accounts, NEW r \in Routers, NEW s \in BOOLEAN,
             \/ QueueRouterChange(by, r, s)
             \/ \E a \in timelockActions : ExecuteRouterChange(by, a, r, s)
      PROVE  GovInv'
  BY <1>1, PayloadTypes, QueueStep, RouterChangeStep DEF QueueRouterChange
<1>2. ASSUME NEW by \in Accounts, NEW new \in Accounts,
             \/ QueueAdminChange(by, new)
             \/ \E a \in timelockActions : ExecuteAdminChange(by, a, new)
      PROVE  GovInv'
  BY <1>2, PayloadTypes, QueueStep, AdminChangeStep DEF QueueAdminChange
<1>3. ASSUME NEW by \in Accounts, NEW t \in Assets,
             \/ QueueSweep(by, t)
             \/ \E a \in timelockActions : ExecuteSweep(by, a, t)
      PROVE  GovInv'
  BY <1>3, PayloadTypes, QueueStep, SweepStep DEF QueueSweep
<1>4. ASSUME NEW by \in Accounts, NEW t \in Assets, NEW f \in Feeds,
             \/ QueueTokenUsdFeed(by, t, f)
             \/ \E a \in timelockActions : ExecuteTokenUsdFeed(by, a, t, f)
      PROVE  GovInv'
  BY <1>4, PayloadTypes, QueueStep, TokenUsdFeedStep DEF QueueTokenUsdFeed
<1>5. ASSUME NEW by \in Accounts, NEW x \in Executors,
             \/ \E s \in BOOLEAN : ProposeExecutor(by, x, s)
             \/ ExecuteExecutorChange(by, x)
      PROVE  GovInv'
  BY <1>5, ProposeExecutorStep, ExecutorChangeStep
<1>6. ASSUME NEW by \in Accounts, NEW rs \in SUBSET Routers,
             NEW xs \in SUBSET Executors, Bootstrap(by, rs, xs)
      PROVE  GovInv'
  BY <1>6, BootstrapStep
<1>7. CASE UNCHANGED govVars
  BY <1>7 DEF GovInv, govVars, modes, whitelists, queues, oracles, history,
              GovTypeOK, QueueJustified, ProposalsJustified, EffectsJustified,
              EffectsDistinct, EveryPrivilegeWasAnnounced, AnnouncedInTime,
              InGenesis, RevocationHolds, StillGranted
<1> QED BY <1>1, <1>2, <1>3, <1>4, <1>5, <1>6, <1>7, QuietSteps DEF GovNext

\* The inductive invariant holds in every reachable state.
THEOREM GovInvariance == GovSpec => []GovInv
BY InitEstablishesGovInv, StepPreservesGovInv, PTL DEF GovSpec

-----------------------------------------------------------------------------
(* The properties that the runs check on a small instance.                  *)

\* The storage and the history have their types.
THEOREM GovTypeCorrect == GovSpec => []GovTypeOK
<1>1. GovInv => GovTypeOK
  BY DEF GovInv
<1> QED BY <1>1, GovInvariance, PTL

\* No router, executor, feed or new admin has power before its announcement is
\* as old as its delay.
THEOREM PrivilegesAnnounced == GovSpec => []EveryPrivilegeWasAnnounced
<1>1. GovInv => EveryPrivilegeWasAnnounced
  BY DEF GovInv
<1> QED BY <1>1, GovInvariance, PTL

\* An announcement is executed at most once, inside its window.
THEOREM AnnouncementsExecuteOnce == GovSpec => []EachAnnouncementExecutesOnce
<1>1. GovInv => EachAnnouncementExecutesOnce
  BY DEF GovInv, EachAnnouncementExecutesOnce, EffectsJustified, EffectsDistinct,
         QueueJustified
<1> QED BY <1>1, GovInvariance, PTL

\* A whitelisted router or executor was granted at least as recently as it was
\* revoked.
THEOREM RevocationsHold == GovSpec => []RevocationHolds
<1>1. GovInv => RevocationHolds
  BY DEF GovInv
<1> QED BY <1>1, GovInvariance, PTL
=============================================================================
