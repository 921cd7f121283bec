------------------------- MODULE SourceStateMachine -------------------------
(***************************************************************************)
(* What one monitored liquidity source's status record becomes under each  *)
(* operation of src/lib/source-state-machine.ts.  These are the functions  *)
(* of the record alone; who reads it, when it is written back and which    *)
(* copy is written is SourceMonitor.                                       *)
(*                                                                         *)
(* The code keeps timestamps and compares now - t with a constant.  Here a *)
(* timestamp is its age, Never when it is undefined, growing with the      *)
(* clock up to the threshold it is compared with.  Counters likewise stop  *)
(* at the threshold they are compared with.                                *)
(***************************************************************************)
EXTENDS Integers, FiniteSets

CONSTANTS
    FailuresToDegraded, FailuresToDisabled, SuccessesToActive,  \* thresholds
    MinFailingWindow,   \* minFailingWindowMs, 0 when it is off
    DisabledReprobe,    \* DISABLED_REPROBE_MS - TICK_JITTER_MS
    AutoRecovery,       \* AUTO_RECOVERY_MS
    CascadeWindow,      \* CASCADE_WINDOW_MS (circuit breaker)
    RateLimitAlertAfter,     \* RATE_LIMIT_ALERT_AFTER_MS
    RateLimitAlertCooldown   \* RATE_LIMIT_ALERT_COOLDOWN_MS

\* validateThresholds replaces any other choice by the defaults.
ValidThresholds ==
    /\ FailuresToDegraded \in Nat \ {0}
    /\ FailuresToDisabled \in Nat
    /\ FailuresToDisabled > FailuresToDegraded
    /\ SuccessesToActive \in Nat \ {0}
    /\ MinFailingWindow \in Nat

ASSUME ThresholdsAssumption == ValidThresholds

ASSUME WindowsAssumption ==
    /\ DisabledReprobe \in Nat \ {0}
    /\ AutoRecovery \in Nat \ {0}
    /\ CascadeWindow \in Nat
    /\ RateLimitAlertAfter \in Nat
    /\ RateLimitAlertCooldown \in Nat \ {0}

Never == -1

Capped(n, cap) == IF n >= cap THEN cap ELSE n

Older(age, cap) == IF age = Never THEN Never ELSE Capped(age + 1, cap)

DisabledCap == IF AutoRecovery > CascadeWindow THEN AutoRecovery
                                               ELSE CascadeWindow + 1

Signals == {"probe", "quote"}

\* cause: disabledReason and disabledBy together.  "health" is disabledBy =
\* 'health'; "p0" and "forced" are the forced disables whose reason is, and is
\* not, one of P0_REASONS.
Causes == {"none", "health", "forced", "p0"}

Statuses ==
    [state : {"active", "degraded", "disabled"},
     cause : Causes,
     disabledAt  : Never .. DisabledCap,
     lastCheckAt : 0 .. DisabledReprobe,
     failureCount : 0 .. FailuresToDisabled,
     successCount : 0 .. SuccessesToActive,
     failingSince : Never .. MinFailingWindow,
     via : SUBSET Signals,                     \* rateLimit.via, {} for no episode
     since : Never .. RateLimitAlertAfter,     \* rateLimit.since
     alertedAt : Never .. RateLimitAlertCooldown,
     quietDegrade : BOOLEAN]

DefaultStatus ==
    [state |-> "active", cause |-> "none", disabledAt |-> Never,
     lastCheckAt |-> DisabledReprobe, failureCount |-> 0, successCount |-> 0,
     failingSince |-> Never, via |-> {}, since |-> Never, alertedAt |-> Never,
     quietDegrade |-> FALSE]

\* One step of the clock, as the record sees it.
Aged(s) ==
    [s EXCEPT !.disabledAt   = Older(@, DisabledCap),
              !.lastCheckAt  = Older(@, DisabledReprobe),
              !.failingSince = Older(@, MinFailingWindow),
              !.since        = Older(@, RateLimitAlertAfter),
              !.alertedAt    = Older(@, RateLimitAlertCooldown)]

Disabled(s) == s.state = "disabled"

\* What the optional fields of a status record say together.
WellFormed(s) ==
    /\ Disabled(s) <=> s.cause # "none"
    /\ Disabled(s) <=> s.disabledAt # Never
    /\ s.failureCount > 0 => s.failingSince # Never
    /\ s.via = {} <=> s.since = Never
    /\ s.alertedAt # Never => s.via # {}

-----------------------------------------------------------------------------
(* HTTP 429.                                                                *)

\* A 429 is never evidence of health, and never moves a source towards disabled.
ApplyRateLimited(s, signal) ==
    [s EXCEPT !.successCount = 0,
              !.via   = @ \cup {signal},
              !.since = IF s.via = {} THEN 0 ELSE @,
              !.state = IF @ = "active" THEN "degraded" ELSE @,
              !.quietDegrade = @ \/ s.state = "active"]

ClearRateLimitSignal(s, signal) ==
    IF s.via \subseteq {signal}
    THEN [s EXCEPT !.via = {}, !.since = Never, !.alertedAt = Never]
    ELSE [s EXCEPT !.via = @ \ {signal}]

ShouldRaiseRateLimitAlert(s) ==
    /\ s.via # {}
    /\ s.since >= RateLimitAlertAfter
    /\ s.alertedAt \in {Never, RateLimitAlertCooldown}

MarkRateLimitAlerted(s) == [s EXCEPT !.alertedAt = 0, !.quietDegrade = FALSE]

-----------------------------------------------------------------------------
(* recordHealthCheck.  Of the latency history only its p95 matters: slow    *)
(* says that it is above the recovery threshold, for an answer, and above   *)
(* the degrade threshold over at least five samples, for a failure.         *)

\* Slip: a source is probed only while it is not disabled for its health.
ShouldProbeNowUnlessDisabled(s) == s.cause # "health"

ShouldProbeNow(s) ==
    \/ s.cause # "health"
    \/ s.lastCheckAt >= DisabledReprobe

\* A source that was disabled for its health re-enters as degraded, and earns
\* active by consecutive answers.
RecordSuccess(s, slow) ==
    LET n == Capped(s.successCount + 1, SuccessesToActive)
        t == [s EXCEPT !.successCount = n, !.failureCount = 0, !.failingSince = Never]
    IN CASE Disabled(s) /\ s.cause = "health" ->
              [t EXCEPT !.state = "degraded", !.cause = "none", !.disabledAt = Never]
         [] s.state = "degraded" /\ s.via = {} /\ n >= SuccessesToActive /\ ~slow ->
              [t EXCEPT !.state = "active", !.quietDegrade = FALSE]
         [] OTHER -> t

\* Slip: the degraded source is disabled on its streak's length alone.
RecordFailureAnyWindow(s, slow) ==
    LET n     == Capped(s.failureCount + 1, FailuresToDisabled)
        state == IF s.state = "active" /\ (n >= FailuresToDegraded \/ slow)
                 THEN "degraded" ELSE s.state
        t     == [s EXCEPT !.failureCount = n, !.successCount = 0,
                           !.failingSince = IF @ = Never THEN 0 ELSE @,
                           !.state = state]
    IN IF state = "degraded" /\ n >= FailuresToDisabled
       THEN [t EXCEPT !.state = "disabled", !.cause = "health", !.disabledAt = 0]
       ELSE t

\* Enough failures degrade an active source, and disable it, in the same check
\* too, once the streak spans the window.
RecordFailure(s, slow) ==
    LET n     == Capped(s.failureCount + 1, FailuresToDisabled)
        state == IF s.state = "active" /\ (n >= FailuresToDegraded \/ slow)
                 THEN "degraded" ELSE s.state
        t     == [s EXCEPT !.failureCount = n, !.successCount = 0,
                           !.failingSince = IF @ = Never THEN 0 ELSE @,
                           !.state = state]
    IN IF /\ state = "degraded"
          /\ n >= FailuresToDisabled
          /\ t.failingSince >= MinFailingWindow
       THEN [t EXCEPT !.state = "disabled", !.cause = "health", !.disabledAt = 0]
       ELSE t

\* The answers a probe can bring.
Answers == {"ok", "slow", "fail", "slowFail", "limited", "infra"}

RecordHealthCheck(s, answer) ==
    LET checked == [s EXCEPT !.lastCheckAt = 0]
        clear   == ClearRateLimitSignal(checked, "probe")
    IN CASE answer = "infra"                -> checked
         [] answer = "limited"              -> ApplyRateLimited(checked, "probe")
         [] answer \in {"ok", "slow"}       -> RecordSuccess(clear, answer = "slow")
         [] answer \in {"fail", "slowFail"} -> RecordFailure(clear, answer = "slowFail")

-----------------------------------------------------------------------------
(* Forced transitions.                                                      *)

ForceDisable(s, cause) ==
    [s EXCEPT !.state = "disabled", !.cause = cause, !.disabledAt = 0]

\* Slip: the reason of the disable stays on the record.
ForceActivateKeepingReason(s) ==
    [s EXCEPT !.state = "active", !.disabledAt = Never,
              !.failureCount = 0, !.successCount = 0, !.failingSince = Never]

ForceActivate(s) ==
    [s EXCEPT !.state = "active", !.cause = "none", !.disabledAt = Never,
              !.failureCount = 0, !.successCount = 0, !.failingSince = Never]

\* Slip: P0 reasons expire like any other.
RecoversByTimerEvenP0(s) ==
    Disabled(s) /\ s.cause # "health" /\ s.disabledAt >= AutoRecovery

\* checkAutoRecovery: only a forced disable that is not P0 expires.
RecoversByTimer(s) ==
    Disabled(s) /\ s.cause = "forced" /\ s.disabledAt >= AutoRecovery

AutoRecover(s) ==
    [s EXCEPT !.state = "active", !.cause = "none", !.disabledAt = Never,
              !.failureCount = 0, !.successCount = 0]
=============================================================================
