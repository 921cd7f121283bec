---------------------------- MODULE SourceMonitor ----------------------------
(***************************************************************************)
(* The monitoring of the liquidity sources: the tick of monitoring-loop.ts *)
(* that a cron worker triggers, the operators' commands (Telegram, the     *)
(* kill-switch endpoint), the post-execution validator and the circuit     *)
(* breaker.  They run on serverless instances and share the KV store only. *)
(*                                                                         *)
(* Every instance keeps tickCache, the statuses it has read, until a       *)
(* beginTick empties it.  A status is one JSON value: each operation       *)
(* changes the cached copy and writes all of it back, so what another      *)
(* instance wrote in between is lost.  A tick reads every status at its    *)
(* start.  A phase of it handles all sources in one action: their records  *)
(* are independent, and only the breaker relates them.                     *)
(***************************************************************************)
EXTENDS SourceStateMachine

CONSTANTS
    Sources,            \* the indexed sources
    Instances,          \* serverless instances
    MinActive,          \* MIN_ACTIVE_SOURCES of the quorum
    Correlated,         \* flagged sources that make an anomaly correlated
    Majority, Cascade,  \* MAJORITY_THRESHOLD, CASCADE_THRESHOLD
    Cooldown,           \* COOLDOWN_MS
    LockTtl,            \* LOCK_TTL_SECONDS
    MaxDuration,        \* maxDuration of a serverless invocation
    ProbeAnswers,       \* bound: what the probes may answer
    QuoteAnswers,       \* bound: what the quote path may answer
    Tampering,          \* bound: whether TLS or DNS records may change
    MaxCalls,           \* bound: operator commands and validations
    MaxFaults           \* bound: failing KV operations and killed invocations

\* A tick is killed before its lock expires (30 s and 55 s).  The sources are listed.
ASSUME MonitorAssumption ==
    /\ IsFiniteSet(Sources)
    /\ LockTtl \in Nat /\ MaxDuration \in Nat /\ MaxDuration < LockTtl
    /\ Cooldown \in Nat /\ MaxCalls \in Nat /\ MaxFaults \in Nat
    /\ ProbeAnswers \subseteq Answers /\ Tampering \subseteq BOOLEAN
    /\ QuoteAnswers \subseteq {"quote", "none", "limited", "outlier"}

VARIABLES
    kv,        \* teraswap:source-state:<id>
    cache,     \* tickCache of each instance
    doing,     \* what each instance executes
    lock,      \* age of the tick lock
    halt,      \* circuit-breaker:halt
    cooldown,  \* age of circuit-breaker:cooldown
    world,     \* how each source behaves: probe, quote path, TLS and DNS
    budget,    \* what is left of the bounds
    history    \* what really happened to each source

vars == <<kv, cache, doing, lock, halt, cooldown, world, budget, history>>

NotCached == [state |-> "unknown"]

Idle == [task |-> "idle"]

\* "kill": the kill-switch endpoint and /lock, for a P0 reason; "disable": /disable
\* and the validator of executed swaps, for another; "activate": /activate and
\* its button; "confirm": /activate confirm.
Commands == {"kill", "disable", "activate", "confirm"}

Phases == {"health", "fingerprints", "quorum", "wrapUp"}

\* A tick in a phase, or a call between its read and its write; age is the time
\* the invocation has run.
Tasks == [task : Phases, age : 0 .. MaxDuration]
             \cup [task : Commands, src : Sources, age : 0 .. MaxDuration]

Ticking(i) == doing[i].task \in Phases

Calling(i) == doing[i].task # "idle" /\ ~Ticking(i)

\* p0: a P0 disable was written while no other invocation held a copy of the
\* status, and nothing entitled to lift or replace it has been written since.
\* streak and streakAge: the failed probes since the last answered one.
Histories == [p0 : BOOLEAN, streak : 0 .. FailuresToDisabled,
              streakAge : Never .. MinFailingWindow]

World == [probe : ProbeAnswers, quote : QuoteAnswers, tampered : Tampering]

Init ==
    /\ kv = [s \in Sources |-> DefaultStatus]
    /\ cache = [i \in Instances |-> [s \in Sources |-> NotCached]]
    /\ doing = [i \in Instances |-> Idle]
    /\ lock = Never
    /\ halt = FALSE
    /\ cooldown = Never
    /\ world \in [Sources -> World]
    /\ budget = [calls |-> MaxCalls, faults |-> MaxFaults]
    /\ history = [s \in Sources |-> [p0 |-> FALSE, streak |-> 0,
                                     streakAge |-> Never]]

-----------------------------------------------------------------------------
(* KV.  A failing read yields the default status (active), a failing write  *)
(* leaves the store as it was; the cached copy is used either way.          *)

Spend(calls, faults) ==
    /\ budget.calls >= calls
    /\ budget.faults >= faults
    /\ budget' = [budget EXCEPT !.calls = @ - calls, !.faults = @ - faults]

\* Instance i writes its copies of the sources `written'; the writes of `lost' fail.
Save(i, copies, written, lost) ==
    /\ lost \subseteq written
    /\ cache' = [cache EXCEPT ![i] = copies]
    /\ kv' = [s \in Sources |-> IF s \in written \ lost THEN copies[s] ELSE kv[s]]

\* No other invocation is between its read of the source and its write.
NobodyElseHolds(i, s) ==
    \A j \in Instances \ {i} :
        doing[j] = Idle \/ (Calling(j) /\ doing[j].src # s)

\* The p0 history of source s when instance i writes a forced disable.
P0After(i, s, cause, lost) ==
    \/ /\ cause = "p0"
       /\ NobodyElseHolds(i, s) /\ s \notin lost
    \/ /\ cause = "p0" \/ s \in lost
       /\ history[s].p0

-----------------------------------------------------------------------------
(* The tick.                                                                *)

\* Slip: the lock is taken over when its holder may still run.
LockFreeEarly == lock = Never \/ lock >= MaxDuration

LockFree == lock = Never \/ lock >= LockTtl

\* Start of a tick: the lock (taken over the KV store's failure, too), beginTick
\* and getAllStatuses.
StartTick(i) ==
    \E acquired \in BOOLEAN, unread \in SUBSET Sources :
        /\ doing[i] = Idle
        /\ acquired => LockFree
        /\ Spend(0, Cardinality(unread) + (IF acquired THEN 0 ELSE 1))
        /\ lock' = IF acquired THEN 0 ELSE lock
        /\ cache' = [cache EXCEPT ![i] =
                        [s \in Sources |-> IF s \in unread THEN DefaultStatus ELSE kv[s]]]
        /\ doing' = [doing EXCEPT ![i] = [task |-> "health", age |-> 0]]
        /\ history' = [s \in Sources |->
                          IF s \in unread THEN [history[s] EXCEPT !.p0 = FALSE]
                                          ELSE history[s]]
        /\ UNCHANGED <<kv, halt, cooldown, world>>

Proceed(i, phase) == doing' = [doing EXCEPT ![i].task = phase]

\* What the probe of a source adds to its real streak.
Streak(h, answer) ==
    CASE answer \in {"ok", "slow"} -> [h EXCEPT !.streak = 0, !.streakAge = Never]
      [] answer \in {"fail", "slowFail"} ->
            [h EXCEPT !.streak = Capped(@ + 1, FailuresToDisabled),
                      !.streakAge = IF @ = Never THEN 0 ELSE @]
      [] OTHER -> h

\* H1: every source that is due is probed, and what it answers recorded.
CheckHealth(i) ==
    \E lost \in SUBSET Sources :
        LET probed == {s \in Sources : ShouldProbeNow(cache[i][s])}
        IN /\ doing[i].task = "health"
           /\ Spend(0, Cardinality(lost))
           /\ Save(i, [s \in Sources |->
                         IF s \in probed
                         THEN RecordHealthCheck(cache[i][s], world[s].probe)
                         ELSE cache[i][s]],
                   probed, lost)
           /\ history' = [s \in Sources |->
                            IF s \in probed THEN Streak(history[s], world[s].probe)
                                            ELSE history[s]]
           /\ Proceed(i, "fingerprints")
           /\ UNCHANGED <<lock, halt, cooldown, world>>

\* H2: a source whose TLS or DNS fingerprint changed is disabled, P0.
CheckFingerprints(i) ==
    \E lost \in SUBSET Sources :
        LET changed == {s \in Sources : world[s].tampered}
        IN /\ doing[i].task = "fingerprints"
           /\ Spend(0, Cardinality(lost))
           /\ Save(i, [s \in Sources |->
                         IF s \in changed THEN ForceDisable(cache[i][s], "p0")
                                          ELSE cache[i][s]],
                   changed, lost)
           /\ history' = [s \in Sources |->
                            IF s \in changed
                            THEN [history[s] EXCEPT !.p0 = P0After(i, s, "p0", lost)]
                            ELSE history[s]]
           /\ Proceed(i, "quorum")
           /\ UNCHANGED <<lock, halt, cooldown, world>>

\* The quote path has evidence on 429s to record, of a source in any state.
QuoteEvidence(status, quote) ==
    \/ quote = "limited"
    \/ quote # "none" /\ status.via # {}

RecordQuotePathRateLimits(status, quote) ==
    IF ~QuoteEvidence(status, quote) THEN status
    ELSE IF quote = "limited" THEN ApplyRateLimited(status, "quote")
                              ELSE ClearRateLimitSignal(status, "quote")

\* The active sources that deviate from the median of both reference pairs.
Outliers(active) == {s \in active : world[s].quote = "outlier"}

\* H5, when enough sources are active: of those that were, the outliers are
\* disabled, P0 when there are many of them.
Quorum(i) ==
    \E lost \in SUBSET Sources :
        LET active  == {s \in Sources : cache[i][s].state = "active"}
            seen    == [s \in Sources |->
                          RecordQuotePathRateLimits(cache[i][s], world[s].quote)]
            flagged == Outliers(active)
            cause   == IF Cardinality(flagged) >= Correlated THEN "p0" ELSE "forced"
            hit     == {s \in flagged : cause = "p0" \/ seen[s].state = "active"}
            written == hit \cup {s \in Sources : QuoteEvidence(cache[i][s], world[s].quote)}
        IN /\ doing[i].task = "quorum"
           /\ Cardinality(active) >= MinActive
           /\ Spend(0, Cardinality(lost))
           /\ Save(i, [s \in Sources |-> IF s \in hit THEN ForceDisable(seen[s], cause)
                                                      ELSE seen[s]],
                   written, lost)
           /\ history' = [s \in Sources |->
                            IF s \in hit
                            THEN [history[s] EXCEPT !.p0 = P0After(i, s, cause, lost)]
                            ELSE history[s]]
           /\ Proceed(i, "wrapUp")
           /\ UNCHANGED <<lock, halt, cooldown, world>>

\* Not a quorum tick, or too few active sources.
SkipQuorum(i) ==
    /\ doing[i].task = "quorum"
    /\ Proceed(i, "wrapUp")
    /\ UNCHANGED <<kv, cache, lock, halt, cooldown, world, budget, history>>

Trips(status) ==
    LET disabled == {s \in Sources : Disabled(status[s])}
        recent   == {s \in disabled : status[s].disabledAt <= CascadeWindow}
    IN Cardinality(disabled) >= Majority \/ Cardinality(recent) >= Cascade

\* Slip: the key's presence alone counts, and it is never removed.
InCooldownOnceTripped == cooldown # Never

InCooldown == cooldown # Never /\ cooldown < Cooldown

\* Sources in a 429 episode that is long enough and was not announced lately.
Raised(status) == {s \in Sources : ShouldRaiseRateLimitAlert(status[s])}

\* The halt flag and the cooldown are written independently, each may fail.
ExecuteTrip(trip, unset) ==
    /\ trip \/ unset = {}
    /\ halt' = (halt \/ (trip /\ "halt" \notin unset))
    /\ cooldown' = IF trip /\ "cooldown" \notin unset THEN 0 ELSE cooldown

\* The rate-limit watch, checkAutoRecovery and the circuit breaker, whose
\* cooldown, unreadable, counts as over.  The watch's messages are left out.
WrapUp(i) ==
    \E lost \in SUBSET Sources, unset \in SUBSET {"halt", "cooldown"}, misread \in BOOLEAN :
        LET copy      == cache[i]
            raised    == Raised(copy)
            marked    == [s \in Sources |-> IF s \in raised
                                           THEN MarkRateLimitAlerted(copy[s]) ELSE copy[s]]
            recovered == {s \in Sources : RecoversByTimer(marked[s])}
            final     == [s \in Sources |-> IF s \in recovered
                                           THEN AutoRecover(marked[s]) ELSE marked[s]]
            trip      == Trips(final) /\ (misread \/ ~InCooldown)
        IN /\ doing[i].task = "wrapUp"
           /\ ExecuteTrip(trip, unset)
           /\ misread => Trips(final)
           /\ Spend(0, Cardinality(lost) + Cardinality(unset) + (IF misread THEN 1 ELSE 0))
           /\ Save(i, final, raised \cup recovered, lost)
           /\ doing' = [doing EXCEPT ![i] = Idle]
           /\ UNCHANGED <<lock, world, history>>

Tick(i) ==
    \/ CheckHealth(i)
    \/ CheckFingerprints(i)
    \/ Quorum(i)
    \/ SkipQuorum(i)
    \/ WrapUp(i)

-----------------------------------------------------------------------------
(* Calls.  The Telegram commands begin with a beginTick and read the store; *)
(* the kill-switch endpoint and the validator do not, and use the copy that *)
(* an earlier invocation left behind where the instance has one.            *)

BeginCall(i, task, s) ==
    \E telegram \in BOOLEAN, unread \in SUBSET Sources :
        LET begun   == telegram \/ task \in {"activate", "confirm"}
            wanted  == IF begun THEN Sources
                                ELSE {x \in {s} : cache[i][x] = NotCached}
            Read(x) == IF x \in unread THEN DefaultStatus ELSE kv[x]
        IN /\ doing[i] = Idle
           /\ unread \subseteq wanted
           /\ Spend(1, Cardinality(unread))
           /\ doing' = [doing EXCEPT ![i] = [task |-> task, src |-> s, age |-> 0]]
           /\ cache' = [cache EXCEPT ![i] = [x \in Sources |->
                           IF x \in wanted THEN Read(x) ELSE cache[i][x]]]
           /\ history' = [x \in Sources |->
                [history[x] EXCEPT !.p0 = @ /\ ~(x = s /\ x \in unread)]]
           /\ UNCHANGED <<kv, lock, halt, cooldown, world>>

\* A disable, for a P0 reason or another.
FinishDisable(i) ==
    /\ Calling(i)
    /\ \E lost \in SUBSET {doing[i].src} :
        LET s     == doing[i].src
            cause == IF doing[i].task = "kill" THEN "p0" ELSE "forced"
        IN /\ doing[i].task \in {"kill", "disable"}
           /\ Spend(0, Cardinality(lost))
           /\ Save(i, [cache[i] EXCEPT ![s] = ForceDisable(@, cause)], {s}, lost)
           /\ history' = [history EXCEPT ![s].p0 = P0After(i, s, cause, lost)]
           /\ doing' = [doing EXCEPT ![i] = Idle]
           /\ UNCHANGED <<lock, halt, cooldown, world>>

\* A source disabled for a P0 reason is activated on confirmation only.
NeedsConfirmation(i) ==
    /\ doing[i].task = "activate"
    /\ Disabled(cache[i][doing[i].src])
    /\ cache[i][doing[i].src].cause = "p0"

FinishActivate(i) ==
    /\ Calling(i)
    /\ \E lost \in SUBSET {doing[i].src} :
        LET s == doing[i].src IN
        /\ doing[i].task \in {"activate", "confirm"}
        /\ ~NeedsConfirmation(i)
        /\ Spend(0, Cardinality(lost))
        /\ Save(i, [cache[i] EXCEPT ![s] = ForceActivate(@)], {s}, lost)
        /\ history' = IF doing[i].task = "confirm" /\ lost = {}
                      THEN [history EXCEPT ![s].p0 = FALSE] ELSE history
        /\ doing' = [doing EXCEPT ![i] = Idle]
        /\ UNCHANGED <<lock, halt, cooldown, world>>

\* The button does nothing on a source that is active, either.
RefuseActivate(i) ==
    /\ Calling(i)
    /\ \/ NeedsConfirmation(i)
       \/ doing[i].task = "activate" /\ cache[i][doing[i].src].state = "active"
    /\ doing' = [doing EXCEPT ![i] = Idle]
    /\ UNCHANGED <<kv, cache, lock, halt, cooldown, world, budget, history>>

Finish(i) ==
    \/ FinishDisable(i)
    \/ FinishActivate(i)
    \/ RefuseActivate(i)

ClearTrip ==
    /\ halt
    /\ halt' = FALSE
    /\ Spend(1, 0)
    /\ UNCHANGED <<kv, cache, doing, lock, cooldown, world, history>>

-----------------------------------------------------------------------------
(* The platform and the sources.                                            *)

\* An invocation is killed; what it cached stays for the next one if the instance
\* does.
Abort(i) ==
    \E kept \in BOOLEAN :
        /\ doing[i] # Idle
        /\ Spend(0, 1)
        /\ doing' = [doing EXCEPT ![i] = Idle]
        /\ cache' = IF kept THEN cache
                    ELSE [cache EXCEPT ![i] = [s \in Sources |-> NotCached]]
        /\ UNCHANGED <<kv, lock, halt, cooldown, world, history>>

Turn(s, w) ==
    /\ world' = [world EXCEPT ![s] = w]
    /\ UNCHANGED <<kv, cache, doing, lock, halt, cooldown, budget, history>>

\* The clock.  An invocation ends, or is killed, within MaxDuration.
Elapse ==
    /\ \A i \in Instances : doing[i] # Idle => doing[i].age < MaxDuration
    /\ doing' = [i \in Instances |-> IF doing[i] = Idle THEN Idle
                                     ELSE [doing[i] EXCEPT !.age = @ + 1]]
    /\ kv' = [s \in Sources |-> Aged(kv[s])]
    /\ cache' = [i \in Instances |-> [s \in Sources |->
                    IF cache[i][s] = NotCached THEN NotCached ELSE Aged(cache[i][s])]]
    /\ lock' = Older(lock, LockTtl)
    /\ cooldown' = Older(cooldown, Cooldown)
    /\ history' = [s \in Sources |-> [history[s] EXCEPT
                      !.streakAge = Older(@, MinFailingWindow)]]
    /\ UNCHANGED <<halt, world, budget>>

Next ==
    \/ \E i \in Instances : StartTick(i) \/ Tick(i) \/ Finish(i) \/ Abort(i)
    \/ \E i \in Instances, task \in Commands, s \in Sources : BeginCall(i, task, s)
    \/ \E s \in Sources, w \in World : Turn(s, w)
    \/ ClearTrip
    \/ Elapse

Spec == Init /\ [][Next]_vars

\* The cron worker calls the tick again and again, time passes, the platform runs
\* an invocation to its end unless it kills it, and one tick in
\* QUORUM_TICK_INTERVAL is a quorum tick.
Fairness ==
    /\ WF_vars(\E i \in Instances : StartTick(i))
    /\ WF_vars(Elapse)
    /\ SF_vars(\E i \in Instances : Quorum(i))
    /\ \A i \in Instances : WF_vars(Tick(i)) /\ WF_vars(Finish(i))

FairSpec == Spec /\ Fairness

-----------------------------------------------------------------------------
(* Properties.                                                              *)

\* The types of the stored and the cached statuses and of the monitor's keys, and
\* what the fields of one record say together.
TypeOK ==
    /\ \A s \in Sources : WellFormed(kv[s])
    /\ kv \in [Sources -> Statuses]
    /\ cache \in [Instances -> [Sources -> Statuses \cup {NotCached}]]
    /\ doing \in [Instances -> Tasks \cup {Idle}]
    /\ lock \in Never .. LockTtl
    /\ halt \in BOOLEAN
    /\ cooldown \in Never .. Cooldown
    /\ world \in [Sources -> World]
    /\ history \in [Sources -> Histories]

NoFaultYet == budget.faults = MaxFaults

NoCallYet == budget.calls = MaxCalls

\* A P0 disable, once written while no other invocation held the source's
\* status, is lifted by a confirmed activation or replaced by another forced
\* disable, or lost with an unreadable store; no probe, timer, quorum verdict,
\* stale instance or unconfirmed activation undoes it.
P0DisableHolds ==
    \A s \in Sources : history[s].p0 => Disabled(kv[s]) /\ kv[s].cause = "p0"

\* While the store works, a source that counts as disabled for its health has
\* really failed that many probes in a row, whichever instances recorded them and
\* whatever operators wrote in between.  As long as the ticks are alone, the streak
\* also spans the window: a call that writes back an older status revives its
\* failingSince, which checkAutoRecovery does not clear.
HealthDisableIsEarned ==
    NoFaultYet => \A s \in Sources : kv[s].cause = "health" =>
        /\ history[s].streak >= FailuresToDisabled
        /\ NoCallYet => history[s].streakAge >= MinFailingWindow

\* While the store works, no two ticks run at once, although no tick ever
\* releases the lock.
OneTickAtATime ==
    NoFaultYet => \A i, j \in Instances : Ticking(i) /\ Ticking(j) => i = j

\* If enough sources stay disabled, the system ends up halted: the cooldown of
\* an earlier trip, and a halt flag that was not written, only delay it.
MassDisablementHalts ==
    (<>[](Cardinality({s \in Sources : Disabled(kv[s])}) >= Majority)) => <>[]halt

\* A source that answers its probes and its quotes again, and is not disabled
\* for a P0 reason, becomes active again without an operator, unless a 429 of the
\* quote path is still on its record.
SourcesRecover ==
    \A s \in Sources :
        <>[](/\ world[s].probe = "ok" /\ world[s].quote # "outlier"
             /\ ~world[s].tampered /\ kv[s].via = {})
            => <>[](kv[s].state = "active" \/ kv[s].cause = "p0")

\* "Auto-recovery is blocked - source stays disabled until manually
\* re-activated": only an operator's activation takes a source out of a P0
\* disable.  A tick that read the status before writes its copy back.
KillSwitchStays ==
    [][\A s \in Sources :
        Disabled(kv[s]) /\ kv[s].cause = "p0" /\ ~Disabled(kv'[s]) =>
            \E i \in Instances : doing[i].task \in {"activate", "confirm"}
                                    /\ doing'[i] = Idle]_vars
=============================================================================
