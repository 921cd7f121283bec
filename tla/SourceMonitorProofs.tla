------------------------- MODULE SourceMonitorProofs -------------------------
(***************************************************************************)
(* What is proved of the monitor, for any number of sources, instances,    *)
(* commands and faults, and for all thresholds and windows.                *)
(*                                                                         *)
(* The statuses that instances hold while they execute are written back    *)
(* whole, so whatever is true of the stored statuses has to be true of     *)
(* those that are held: the invariant speaks of both.                      *)
(***************************************************************************)
EXTENDS SourceMonitor, FiniteSetTheorems, TLAPS

\* A status whose fields agree.
Sound(s) == s \in Statuses /\ WellFormed(s)

P0Disabled(s) == Disabled(s) /\ s.cause = "p0"

\* The record counts no more failures than there were in a row, where it counts at all.
Counted(s, h) ==
    /\ s.cause \in {"none", "health"} => s.failureCount <= h.streak
    /\ s.cause = "health" => h.streak >= FailuresToDisabled

\* The record's streak is no older than the real one.
Windowed(s, h) ==
    /\ s.failingSince <= h.streakAge
    /\ s.cause = "health" => h.streakAge >= MinFailingWindow

-----------------------------------------------------------------------------
(* The status record.                                                      *)

LEMMA ConstantsOK ==
  /\ FailuresToDegraded \in Nat /\ FailuresToDegraded >= 1
  /\ FailuresToDisabled \in Nat /\ FailuresToDisabled > FailuresToDegraded
  /\ SuccessesToActive \in Nat /\ SuccessesToActive >= 1
  /\ MinFailingWindow \in Nat /\ DisabledReprobe \in Nat /\ DisabledReprobe >= 1
  /\ AutoRecovery \in Nat /\ AutoRecovery >= 1 /\ CascadeWindow \in Nat
  /\ RateLimitAlertAfter \in Nat
  /\ RateLimitAlertCooldown \in Nat /\ RateLimitAlertCooldown >= 1
  /\ DisabledCap \in Nat /\ Never = -1
  /\ LockTtl \in Nat /\ MaxDuration \in Nat /\ MaxDuration < LockTtl
  /\ Cooldown \in Nat /\ MaxCalls \in Nat /\ MaxFaults \in Nat
BY ThresholdsAssumption, WindowsAssumption, MonitorAssumption
   DEF ValidThresholds, DisabledCap, Never

\* Ages and counters stop at their caps.
LEMMA CappedFacts ==
  ASSUME NEW cap \in Nat
  PROVE  /\ \A n \in 0 .. cap : Capped(n + 1, cap) \in 0 .. cap /\ Capped(n + 1, cap) >= n
         /\ \A n \in Never .. cap : /\ Older(n, cap) \in Never .. cap
                                    /\ Older(n, cap) = Never <=> n = Never
                                    /\ Older(n, cap) >= n
         /\ \A n \in 0 .. cap : Older(n, cap) \in 0 .. cap
         /\ \A m, n \in Never .. cap : m <= n => Older(m, cap) <= Older(n, cap)
         /\ \A m, n \in 0 .. cap : m <= n => Capped(m + 1, cap) <= Capped(n + 1, cap)
BY DEF Capped, Older, Never

LEMMA DefaultSound ==
  /\ Sound(DefaultStatus) /\ ~Disabled(DefaultStatus) /\ DefaultStatus.cause = "none"
  /\ DefaultStatus.failureCount = 0 /\ DefaultStatus.failingSince = Never
BY ConstantsOK DEF Sound, DefaultStatus, Statuses, WellFormed, Disabled, Causes

LEMMA NotCachedIsNoStatus == NotCached \notin Statuses
BY DEF NotCached, Statuses

LEMMA AgedFacts ==
  ASSUME NEW s, Sound(s)
  PROVE  /\ Sound(Aged(s)) /\ Aged(s).cause = s.cause /\ Aged(s).state = s.state
         /\ Aged(s).failureCount = s.failureCount
         /\ Aged(s).failingSince = Older(s.failingSince, MinFailingWindow)
<1>1. s \in Statuses /\ WellFormed(s)
  BY DEF Sound
<1> DEFINE a == Older(s.disabledAt, DisabledCap)
           b == Older(s.lastCheckAt, DisabledReprobe)
           c == Older(s.failingSince, MinFailingWindow)
           d == Older(s.since, RateLimitAlertAfter)
           e == Older(s.alertedAt, RateLimitAlertCooldown)
<1>2. /\ a \in Never .. DisabledCap /\ (a = Never <=> s.disabledAt = Never)
      /\ b \in 0 .. DisabledReprobe
      /\ c \in Never .. MinFailingWindow /\ (c = Never <=> s.failingSince = Never)
      /\ d \in Never .. RateLimitAlertAfter /\ (d = Never <=> s.since = Never)
      /\ e \in Never .. RateLimitAlertCooldown /\ (e = Never <=> s.alertedAt = Never)
  <2>1. /\ s.disabledAt \in Never .. DisabledCap /\ s.lastCheckAt \in 0 .. DisabledReprobe
        /\ s.failingSince \in Never .. MinFailingWindow
        /\ s.since \in Never .. RateLimitAlertAfter
        /\ s.alertedAt \in Never .. RateLimitAlertCooldown
    BY <1>1 DEF Statuses
  <2> QED BY <2>1, CappedFacts, ConstantsOK
<1>3. Aged(s) = [s EXCEPT !.disabledAt = a, !.lastCheckAt = b, !.failingSince = c,
                          !.since = d, !.alertedAt = e]
  BY <1>1 DEF Aged, Statuses
<1> HIDE DEF a, b, c, d, e
<1>4. Aged(s) \in Statuses
  BY <1>1, <1>2, <1>3 DEF Statuses
<1>5. /\ Aged(s).cause = s.cause /\ Aged(s).state = s.state /\ Aged(s).via = s.via
      /\ Aged(s).failureCount = s.failureCount /\ Aged(s).failingSince = c
      /\ Aged(s).disabledAt = a /\ Aged(s).since = d /\ Aged(s).alertedAt = e
  BY <1>1, <1>3 DEF Statuses
<1>6. WellFormed(Aged(s))
  BY <1>1, <1>2, <1>5 DEF WellFormed, Disabled
<1> QED BY <1>4, <1>5, <1>6 DEF Sound, c

\* Operations that say nothing of the source's health.
SameHealth(s, t) ==
    /\ t.cause = s.cause /\ (Disabled(t) <=> Disabled(s))
    /\ t.failureCount = s.failureCount /\ t.failingSince = s.failingSince

LEMMA RateLimitedFacts ==
  ASSUME NEW s, Sound(s), NEW signal \in Signals
  PROVE  LET t == ApplyRateLimited(s, signal) IN Sound(t) /\ SameHealth(s, t)
<1>1. s \in Statuses /\ WellFormed(s)
  BY DEF Sound
<1> DEFINE t == ApplyRateLimited(s, signal)
           via == s.via \cup {signal}
           since == IF s.via = {} THEN 0 ELSE s.since
           state == IF s.state = "active" THEN "degraded" ELSE s.state
           quiet == s.quietDegrade \/ s.state = "active"
<1>2. t = [s EXCEPT !.successCount = 0, !.via = via, !.since = since, !.state = state,
                    !.quietDegrade = quiet]
  BY <1>1 DEF ApplyRateLimited, Statuses
<1>3. /\ via \in SUBSET Signals /\ via # {}
      /\ since \in Never .. RateLimitAlertAfter /\ since # Never
      /\ state \in {"active", "degraded", "disabled"}
      /\ (state = "disabled" <=> s.state = "disabled")
      /\ 0 \in 0 .. SuccessesToActive
  BY <1>1, ConstantsOK DEF Statuses, WellFormed
<1>4. quiet \in BOOLEAN
  OBVIOUS
<1> HIDE DEF via, since, state, quiet
<1>5. t \in Statuses
  BY <1>1, <1>2, <1>3, <1>4 DEF Statuses
<1>6. /\ t.cause = s.cause /\ t.state = state /\ t.via = via /\ t.since = since
      /\ t.failureCount = s.failureCount /\ t.failingSince = s.failingSince
      /\ t.disabledAt = s.disabledAt /\ t.alertedAt = s.alertedAt
  BY <1>1, <1>2 DEF Statuses
<1> HIDE DEF t
<1>7. WellFormed(t) /\ SameHealth(s, t)
  BY <1>1, <1>3, <1>6 DEF WellFormed, Disabled, SameHealth
<1> QED BY <1>5, <1>7 DEF Sound, t

LEMMA ClearSignalFacts ==
  ASSUME NEW s, Sound(s), NEW signal \in Signals
  PROVE  LET t == ClearRateLimitSignal(s, signal) IN
         /\ Sound(t) /\ SameHealth(s, t) /\ t.state = s.state
<1>1. s \in Statuses /\ WellFormed(s)
  BY DEF Sound
<1> DEFINE t == ClearRateLimitSignal(s, signal)
<1>2. CASE s.via \subseteq {signal}
  <2>1. t = [s EXCEPT !.via = {}, !.since = Never, !.alertedAt = Never]
    BY <1>2 DEF ClearRateLimitSignal
  <2>2. t \in Statuses
    <3>1. /\ Never \in Never .. RateLimitAlertAfter /\ Never \in Never .. RateLimitAlertCooldown
          /\ {} \in SUBSET Signals
      BY ConstantsOK
    <3> QED BY <1>1, <2>1, <3>1 DEF Statuses
  <2>3. /\ t.cause = s.cause /\ t.state = s.state /\ t.via = {} /\ t.since = Never
        /\ t.failureCount = s.failureCount /\ t.failingSince = s.failingSince
        /\ t.disabledAt = s.disabledAt /\ t.alertedAt = Never
    BY <1>1, <2>1 DEF Statuses
  <2> HIDE DEF t
  <2>4. WellFormed(t) /\ SameHealth(s, t) /\ t.state = s.state
    BY <1>1, <2>3 DEF WellFormed, Disabled, SameHealth
  <2> QED BY <2>2, <2>4 DEF Sound, t
<1>3. CASE ~(s.via \subseteq {signal})
  <2> DEFINE via == s.via \ {signal}
  <2>1. t = [s EXCEPT !.via = via]
    BY <1>3 DEF ClearRateLimitSignal
  <2>2. via \in SUBSET Signals /\ via # {} /\ s.via # {}
    BY <1>1, <1>3 DEF Statuses
  <2> HIDE DEF via
  <2>3. t \in Statuses
    BY <1>1, <2>1, <2>2 DEF Statuses
  <2>4. /\ t.cause = s.cause /\ t.state = s.state /\ t.via = via /\ t.since = s.since
        /\ t.failureCount = s.failureCount /\ t.failingSince = s.failingSince
        /\ t.disabledAt = s.disabledAt /\ t.alertedAt = s.alertedAt
    BY <1>1, <2>1 DEF Statuses
  <2> HIDE DEF t
  <2>5. WellFormed(t) /\ SameHealth(s, t) /\ t.state = s.state
    BY <1>1, <2>2, <2>4 DEF WellFormed, Disabled, SameHealth
  <2> QED BY <2>3, <2>5 DEF Sound, t
<1> QED BY <1>2, <1>3

LEMMA MarkFacts ==
  ASSUME NEW s, Sound(s), ShouldRaiseRateLimitAlert(s)
  PROVE  LET t == MarkRateLimitAlerted(s) IN Sound(t) /\ SameHealth(s, t)
<1>1. s \in Statuses /\ WellFormed(s) /\ s.via # {}
  BY DEF Sound, ShouldRaiseRateLimitAlert
<1> DEFINE t == MarkRateLimitAlerted(s)
<1>2. t = [s EXCEPT !.alertedAt = 0, !.quietDegrade = FALSE]
  BY DEF MarkRateLimitAlerted
<1>3. 0 \in Never .. RateLimitAlertCooldown /\ FALSE \in BOOLEAN
  BY ConstantsOK
<1>4. t \in Statuses
  BY <1>1, <1>2, <1>3 DEF Statuses
<1>5. /\ t.cause = s.cause /\ t.state = s.state /\ t.via = s.via /\ t.since = s.since
      /\ t.failureCount = s.failureCount /\ t.failingSince = s.failingSince
      /\ t.disabledAt = s.disabledAt
  BY <1>1, <1>2 DEF Statuses
<1> HIDE DEF t
<1>6. WellFormed(t) /\ SameHealth(s, t)
  BY <1>1, <1>5 DEF WellFormed, Disabled, SameHealth
<1> QED BY <1>4, <1>6 DEF Sound, t

\* A success ends the streak; it lifts a health disable and nothing else.
LEMMA SuccessFacts ==
  ASSUME NEW s, Sound(s), NEW slow \in BOOLEAN
  PROVE  LET t == RecordSuccess(s, slow) IN
         /\ Sound(t) /\ t.cause \in {s.cause, "none"} \ {"health"}
         /\ t.failureCount = 0 /\ t.failingSince = Never
         /\ P0Disabled(s) => P0Disabled(t)
<1>1. s \in Statuses /\ WellFormed(s)
  BY DEF Sound
<1> DEFINE n == Capped(s.successCount + 1, SuccessesToActive)
           u == [s EXCEPT !.successCount = n, !.failureCount = 0, !.failingSince = Never]
           t == RecordSuccess(s, slow)
<1>2. n \in 0 .. SuccessesToActive
  BY <1>1, CappedFacts, ConstantsOK DEF Statuses
<1>3. /\ 0 \in 0 .. FailuresToDisabled /\ Never \in Never .. MinFailingWindow
      /\ Never \in Never .. DisabledCap
  BY ConstantsOK
<1>4. /\ t = CASE Disabled(s) /\ s.cause = "health" ->
                    [u EXCEPT !.state = "degraded", !.cause = "none", !.disabledAt = Never]
               [] s.state = "degraded" /\ s.via = {} /\ n >= SuccessesToActive /\ ~slow ->
                    [u EXCEPT !.state = "active", !.quietDegrade = FALSE]
               [] OTHER -> u
  BY DEF RecordSuccess
<1> HIDE DEF n, t
<1>5. u \in Statuses
  BY <1>1, <1>2, <1>3 DEF Statuses
<1>6. /\ u.state = s.state /\ u.cause = s.cause /\ u.disabledAt = s.disabledAt
      /\ u.failureCount = 0 /\ u.failingSince = Never
      /\ u.via = s.via /\ u.since = s.since /\ u.alertedAt = s.alertedAt
  BY <1>1 DEF Statuses
<1> HIDE DEF u
<1>7. s.cause = "health" => Disabled(s)
  BY <1>1 DEF WellFormed
<1>8. CASE Disabled(s) /\ s.cause = "health"
  <2>1. t = [u EXCEPT !.state = "degraded", !.cause = "none", !.disabledAt = Never]
    BY <1>4, <1>8 DEF Disabled
  <2>2. t \in Statuses
    BY <1>3, <1>5, <2>1 DEF Statuses, Causes
  <2>3. /\ t.state = "degraded" /\ t.cause = "none" /\ t.disabledAt = Never
        /\ t.failureCount = 0 /\ t.failingSince = Never
        /\ t.via = s.via /\ t.since = s.since /\ t.alertedAt = s.alertedAt
    BY <1>5, <1>6, <2>1 DEF Statuses
  <2>4. WellFormed(t)
    BY <1>1, <2>3 DEF WellFormed, Disabled
  <2> QED BY <1>8, <2>2, <2>3, <2>4 DEF Sound, P0Disabled, t
<1>9. CASE s.state = "degraded" /\ t = [u EXCEPT !.state = "active", !.quietDegrade = FALSE]
  <2>1. t \in Statuses
    BY <1>5, <1>9 DEF Statuses
  <2>2. /\ t.state = "active" /\ t.cause = s.cause /\ t.disabledAt = s.disabledAt
        /\ t.failureCount = 0 /\ t.failingSince = Never
        /\ t.via = s.via /\ t.since = s.since /\ t.alertedAt = s.alertedAt
    BY <1>5, <1>6, <1>9 DEF Statuses
  <2>3. WellFormed(t)
    BY <1>1, <1>9, <2>2 DEF WellFormed, Disabled
  <2> QED BY <1>7, <1>9, <2>1, <2>2, <2>3 DEF Sound, P0Disabled, Disabled, t
<1>10. CASE ~(Disabled(s) /\ s.cause = "health") /\ t = u
  <2>1. WellFormed(t)
    BY <1>1, <1>6, <1>10, ConstantsOK DEF WellFormed, Disabled
  <2> QED BY <1>5, <1>6, <1>7, <1>10, <2>1 DEF Sound, P0Disabled, Disabled, t
<1> QED BY <1>4, <1>8, <1>9, <1>10

\* A failure lengthens the streak, and disables at most a degraded source, once the record
\* has counted enough of them over the window.
LEMMA FailureFacts ==
  ASSUME NEW s, Sound(s), NEW slow \in BOOLEAN
  PROVE  LET t == RecordFailure(s, slow) IN
         /\ Sound(t)
         /\ t.failureCount = Capped(s.failureCount + 1, FailuresToDisabled)
         /\ t.failingSince = IF s.failingSince = Never THEN 0 ELSE s.failingSince
         /\ \/ t.cause = s.cause /\ (Disabled(t) <=> Disabled(s))
            \/ /\ s.cause = "none" /\ t.cause = "health" /\ ~Disabled(s)
               /\ t.failureCount >= FailuresToDisabled /\ t.failingSince >= MinFailingWindow
<1>1. s \in Statuses /\ WellFormed(s)
  BY DEF Sound
<1> DEFINE n == Capped(s.failureCount + 1, FailuresToDisabled)
           state == IF s.state = "active" /\ (n >= FailuresToDegraded \/ slow)
                    THEN "degraded" ELSE s.state
           since == IF s.failingSince = Never THEN 0 ELSE s.failingSince
           u == [s EXCEPT !.failureCount = n, !.successCount = 0,
                          !.failingSince = since, !.state = state]
           t == RecordFailure(s, slow)
<1>2. n \in 0 .. FailuresToDisabled
  BY <1>1, CappedFacts, ConstantsOK DEF Statuses
<1>3. since \in Never .. MinFailingWindow /\ since # Never
  BY <1>1, ConstantsOK DEF Statuses
<1>4. /\ 0 \in 0 .. SuccessesToActive /\ 0 \in Never .. DisabledCap /\ 0 # Never
  BY ConstantsOK
<1>5. /\ state \in {"active", "degraded", "disabled"}
      /\ (state = "disabled" <=> s.state = "disabled")
  BY <1>1 DEF Statuses
<1>6. u = [s EXCEPT !.failureCount = n, !.successCount = 0,
                    !.failingSince = IF @ = Never THEN 0 ELSE @, !.state = state]
  BY <1>1 DEF Statuses
<1>7. t = IF state = "degraded" /\ n >= FailuresToDisabled /\ u.failingSince >= MinFailingWindow
          THEN [u EXCEPT !.state = "disabled", !.cause = "health", !.disabledAt = 0]
          ELSE u
  BY <1>6 DEF RecordFailure
<1> HIDE DEF n, state, since, t
<1>8. u \in Statuses
  BY <1>1, <1>2, <1>3, <1>4, <1>5 DEF Statuses
<1>9. /\ u.state = state /\ u.cause = s.cause /\ u.disabledAt = s.disabledAt
      /\ u.failureCount = n /\ u.failingSince = since
      /\ u.via = s.via /\ u.since = s.since /\ u.alertedAt = s.alertedAt
  BY <1>1 DEF Statuses
<1> HIDE DEF u
<1>10. CASE /\ state = "degraded" /\ n >= FailuresToDisabled /\ since >= MinFailingWindow
            /\ t = [u EXCEPT !.state = "disabled", !.cause = "health", !.disabledAt = 0]
  <2>1. t \in Statuses
    BY <1>4, <1>8, <1>10 DEF Statuses, Causes
  <2>2. /\ t.state = "disabled" /\ t.cause = "health" /\ t.disabledAt = 0
        /\ t.failureCount = n /\ t.failingSince = since
        /\ t.via = s.via /\ t.since = s.since /\ t.alertedAt = s.alertedAt
    BY <1>8, <1>9, <1>10 DEF Statuses
  <2>3. WellFormed(t)
    BY <1>1, <1>3, <1>4, <2>2 DEF WellFormed, Disabled
  <2>4. s.cause = "none" /\ ~Disabled(s)
    BY <1>1, <1>5, <1>10 DEF WellFormed, Disabled
  <2> QED BY <1>10, <2>1, <2>2, <2>3, <2>4 DEF Sound, t, n, since
<1>11. CASE t = u
  <2>1. WellFormed(t)
    BY <1>1, <1>3, <1>5, <1>9, <1>11 DEF WellFormed, Disabled
  <2> QED BY <1>5, <1>8, <1>9, <1>11, <2>1 DEF Sound, Disabled, t, n, since
<1> QED BY <1>7, <1>9, <1>10, <1>11

LEMMA ForceDisableFacts ==
  ASSUME NEW s, Sound(s), NEW cause \in {"forced", "p0"}
  PROVE  LET t == ForceDisable(s, cause) IN
         /\ Sound(t) /\ t.cause = cause /\ Disabled(t)
         /\ t.failureCount = s.failureCount /\ t.failingSince = s.failingSince
<1>1. s \in Statuses /\ WellFormed(s) /\ 0 \in Never .. DisabledCap /\ 0 # Never
  BY ConstantsOK DEF Sound
<1> DEFINE t == ForceDisable(s, cause)
<1>2. t = [s EXCEPT !.state = "disabled", !.cause = cause, !.disabledAt = 0]
  BY DEF ForceDisable
<1>3. t \in Statuses
  BY <1>1, <1>2 DEF Statuses, Causes
<1>4. /\ t.state = "disabled" /\ t.cause = cause /\ t.disabledAt = 0
      /\ t.failureCount = s.failureCount /\ t.failingSince = s.failingSince
      /\ t.via = s.via /\ t.since = s.since /\ t.alertedAt = s.alertedAt
  BY <1>1, <1>2 DEF Statuses
<1> HIDE DEF t
<1>5. WellFormed(t)
  BY <1>1, <1>4 DEF WellFormed, Disabled
<1> QED BY <1>3, <1>4, <1>5 DEF Sound, Disabled, t

LEMMA ForceActivateFacts ==
  ASSUME NEW s, Sound(s)
  PROVE  LET t == ForceActivate(s) IN
         /\ Sound(t) /\ t.cause = "none" /\ t.failureCount = 0 /\ t.failingSince = Never
<1>1. /\ s \in Statuses /\ WellFormed(s) /\ 0 \in 0 .. FailuresToDisabled
      /\ 0 \in 0 .. SuccessesToActive
      /\ Never \in Never .. DisabledCap /\ Never \in Never .. MinFailingWindow
  BY ConstantsOK DEF Sound
<1> DEFINE t == ForceActivate(s)
<1>2. t = [s EXCEPT !.state = "active", !.cause = "none", !.disabledAt = Never,
                    !.failureCount = 0, !.successCount = 0, !.failingSince = Never]
  BY DEF ForceActivate
<1>3. t \in Statuses
  BY <1>1, <1>2 DEF Statuses, Causes
<1>4. /\ t.state = "active" /\ t.cause = "none" /\ t.disabledAt = Never
      /\ t.failureCount = 0 /\ t.failingSince = Never
      /\ t.via = s.via /\ t.since = s.since /\ t.alertedAt = s.alertedAt
  BY <1>1, <1>2 DEF Statuses
<1> HIDE DEF t
<1>5. WellFormed(t)
  BY <1>1, <1>4, ConstantsOK DEF WellFormed, Disabled
<1> QED BY <1>3, <1>4, <1>5 DEF Sound, t

LEMMA AutoRecoverFacts ==
  ASSUME NEW s, Sound(s)
  PROVE  LET t == AutoRecover(s) IN
         Sound(t) /\ t.cause = "none" /\ t.failureCount = 0 /\ t.failingSince = s.failingSince
<1>1. /\ s \in Statuses /\ WellFormed(s) /\ 0 \in 0 .. FailuresToDisabled
      /\ 0 \in 0 .. SuccessesToActive /\ Never \in Never .. DisabledCap
  BY ConstantsOK DEF Sound
<1> DEFINE t == AutoRecover(s)
<1>2. t = [s EXCEPT !.state = "active", !.cause = "none", !.disabledAt = Never,
                    !.failureCount = 0, !.successCount = 0]
  BY DEF AutoRecover
<1>3. t \in Statuses
  BY <1>1, <1>2 DEF Statuses, Causes
<1>4. /\ t.state = "active" /\ t.cause = "none" /\ t.disabledAt = Never
      /\ t.failureCount = 0 /\ t.failingSince = s.failingSince
      /\ t.via = s.via /\ t.since = s.since /\ t.alertedAt = s.alertedAt
  BY <1>1, <1>2 DEF Statuses
<1> HIDE DEF t
<1>5. WellFormed(t)
  BY <1>1, <1>4, ConstantsOK DEF WellFormed, Disabled
<1> QED BY <1>3, <1>4, <1>5 DEF Sound, t

\* What a probe records is sound, leaves a P0 disable as it is, and counts as the probe
\* does in the real streak.
LEMMA HealthCheckFacts ==
  ASSUME NEW s, Sound(s), NEW answer \in Answers
  PROVE  LET t == RecordHealthCheck(s, answer) IN
         /\ Sound(t) /\ (P0Disabled(s) => P0Disabled(t))
         /\ \A h \in Histories : Counted(s, h) => Counted(t, Streak(h, answer))
         /\ \A h \in Histories : Windowed(s, h) => Windowed(t, Streak(h, answer))
<1> DEFINE c == [s EXCEPT !.lastCheckAt = 0]
           d == ClearRateLimitSignal(c, "probe")
           t == RecordHealthCheck(s, answer)
<1>1. s \in Statuses /\ WellFormed(s) /\ 0 \in 0 .. DisabledReprobe
  BY ConstantsOK DEF Sound
<1>2. c \in Statuses
  BY <1>1 DEF Statuses
<1>3. /\ c.cause = s.cause /\ c.state = s.state /\ c.via = s.via /\ c.since = s.since
      /\ c.failureCount = s.failureCount /\ c.failingSince = s.failingSince
      /\ c.disabledAt = s.disabledAt /\ c.alertedAt = s.alertedAt
  BY <1>1 DEF Statuses
<1>4. /\ t = CASE answer = "infra"                -> c
               [] answer = "limited"              -> ApplyRateLimited(c, "probe")
               [] answer \in {"ok", "slow"}       -> RecordSuccess(d, answer = "slow")
               [] answer \in {"fail", "slowFail"} -> RecordFailure(d, answer = "slowFail")
  BY DEF RecordHealthCheck
<1> HIDE DEF c
<1>5. Sound(c) /\ SameHealth(s, c)
  BY <1>1, <1>2, <1>3 DEF Sound, WellFormed, Disabled, SameHealth
<1>6. Sound(d) /\ SameHealth(s, d)
  BY <1>5, ClearSignalFacts DEF SameHealth, Signals
<1> HIDE DEF d, t
<1>7. /\ s.failureCount \in 0 .. FailuresToDisabled
      /\ s.failingSince \in Never .. MinFailingWindow
  BY <1>1 DEF Statuses
<1>8. CASE answer \in {"infra", "limited"}
  <2>1. Sound(t) /\ SameHealth(s, t)
    <3>1. CASE answer = "infra"
      BY <1>4, <1>5, <3>1
    <3>2. CASE answer = "limited"
      <4>1. t = ApplyRateLimited(c, "probe")
        BY <1>4, <3>2
      <4> QED BY <1>5, <4>1, RateLimitedFacts DEF SameHealth, Signals
    <3> QED BY <1>8, <3>1, <3>2
  <2>2. \A h \in Histories : Streak(h, answer) = h
    BY <1>8 DEF Streak
  <2> QED BY <2>1, <2>2 DEF SameHealth, P0Disabled, Counted, Windowed, t
<1>9. CASE answer \in {"ok", "slow"}
  <2> DEFINE slow == answer = "slow"
  <2> slow \in BOOLEAN
    BY Zenon
  <2>1. t = RecordSuccess(d, slow)
    BY <1>4, <1>9, Zenon
  <2> HIDE DEF slow
  <2>2. /\ Sound(t) /\ t.cause # "health"
        /\ t.failureCount = 0 /\ t.failingSince = Never
        /\ P0Disabled(d) => P0Disabled(t)
    BY <1>6, <2>1, SuccessFacts
  <2>3. \A h \in Histories : Streak(h, answer) = [h EXCEPT !.streak = 0, !.streakAge = Never]
    BY <1>9 DEF Streak
  <2>4. \A h \in Histories : Streak(h, answer).streak = 0 /\ Streak(h, answer).streakAge = Never
    BY <2>3 DEF Histories
  <2> QED BY <1>6, <2>2, <2>4, ConstantsOK DEF SameHealth, P0Disabled, Counted, Windowed, t
<1>10. CASE answer \in {"fail", "slowFail"}
  <2> DEFINE slow == answer = "slowFail"
  <2> slow \in BOOLEAN
    BY Zenon
  <2>1. t = RecordFailure(d, slow)
    BY <1>4, <1>10, Zenon
  <2> HIDE DEF slow
  <2>2. /\ Sound(t)
        /\ t.failureCount = Capped(s.failureCount + 1, FailuresToDisabled)
        /\ t.failingSince = IF s.failingSince = Never THEN 0 ELSE s.failingSince
        /\ \/ t.cause = s.cause /\ (Disabled(t) <=> Disabled(s))
           \/ /\ s.cause = "none" /\ t.cause = "health"
              /\ t.failureCount >= FailuresToDisabled /\ t.failingSince >= MinFailingWindow
    BY <1>6, <2>1, FailureFacts DEF SameHealth
  <2>3. ASSUME NEW h \in Histories
        PROVE  /\ Streak(h, answer).streak = Capped(h.streak + 1, FailuresToDisabled)
               /\ Streak(h, answer).streakAge = IF h.streakAge = Never THEN 0 ELSE h.streakAge
    <3>1. Streak(h, answer) =
             [h EXCEPT !.streak = Capped(@ + 1, FailuresToDisabled),
                       !.streakAge = IF @ = Never THEN 0 ELSE @]
      BY <1>10 DEF Streak
    <3> QED BY <3>1 DEF Histories
  <2>4. ASSUME NEW h \in Histories, Counted(s, h)
        PROVE  Counted(t, Streak(h, answer))
    <3> DEFINE m == h.streak
               n == s.failureCount
               m1 == Capped(m + 1, FailuresToDisabled)
               n1 == Capped(n + 1, FailuresToDisabled)
    <3>1. m \in 0 .. FailuresToDisabled /\ n \in 0 .. FailuresToDisabled
      BY <1>7 DEF Histories
    <3>2. /\ n <= m => n1 <= m1 
          /\ m1 >= m /\ m1 \in 0 .. FailuresToDisabled /\ n1 \in 0 .. FailuresToDisabled
      BY <3>1, CappedFacts, ConstantsOK
    <3>3. t.failureCount = n1 /\ Streak(h, answer).streak = m1
      BY <2>2, <2>3
    <3>4. /\ s.cause \in {"none", "health"} => n <= m
          /\ s.cause = "health" => m >= FailuresToDisabled
      BY <2>4 DEF Counted
    <3> HIDE DEF m, n, m1, n1
    <3>5. t.cause \in {"none", "health"} => n1 <= m1
      BY <2>2, <3>2, <3>4
    <3>6. t.cause = "health" => m1 >= FailuresToDisabled
      BY <2>2, <3>1, <3>2, <3>3, <3>4, ConstantsOK
    <3> QED BY <3>3, <3>5, <3>6 DEF Counted
  <2>5. ASSUME NEW h \in Histories, Windowed(s, h)
        PROVE  Windowed(t, Streak(h, answer))
    <3>1. h.streakAge \in Never .. MinFailingWindow
      BY DEF Histories
    <3> QED BY <1>7, <2>2, <2>3, <2>5, <3>1, ConstantsOK DEF Windowed
  <2>6. P0Disabled(s) => P0Disabled(t)
    BY <2>2 DEF P0Disabled
  <2> QED BY <2>2, <2>4, <2>5, <2>6 DEF t
<1> QED BY <1>8, <1>9, <1>10 DEF Answers

LEMMA StreakType ==
  ASSUME NEW h \in Histories, NEW answer \in Answers
  PROVE  Streak(h, answer) \in Histories /\ Streak(h, answer).p0 = h.p0
<1>1. /\ h.streak \in 0 .. FailuresToDisabled /\ h.streakAge \in Never .. MinFailingWindow
      /\ 0 \in 0 .. FailuresToDisabled /\ Never \in Never .. MinFailingWindow
      /\ 0 \in Never .. MinFailingWindow
  BY ConstantsOK DEF Histories
<1> DEFINE n == Capped(h.streak + 1, FailuresToDisabled)
           a == IF h.streakAge = Never THEN 0 ELSE h.streakAge
<1>2. n \in 0 .. FailuresToDisabled /\ a \in Never .. MinFailingWindow
  BY <1>1, CappedFacts, ConstantsOK
<1>3. CASE answer \in {"ok", "slow"}
  <2>1. Streak(h, answer) = [h EXCEPT !.streak = 0, !.streakAge = Never]
    BY <1>3 DEF Streak
  <2> QED BY <1>1, <2>1 DEF Histories
<1>4. CASE answer \in {"fail", "slowFail"}
  <2>1. Streak(h, answer) = [h EXCEPT !.streak = n, !.streakAge = a]
    BY <1>4 DEF Streak, Histories
  <2> HIDE DEF n, a
  <2> QED BY <1>2, <2>1 DEF Histories
<1>5. CASE answer \in {"limited", "infra"}
  BY <1>5 DEF Streak
<1> QED BY <1>3, <1>4, <1>5 DEF Answers

-----------------------------------------------------------------------------
(* The inductive invariant.                                                *)

BudgetOK == budget \in [calls : 0 .. MaxCalls, faults : 0 .. MaxFaults]

\* An invocation that will write a copy of the status of s.
Holds(i, s) == Ticking(i) \/ (Calling(i) /\ doing[i].src = s)

CopiesSound ==
    \A i \in Instances, s \in Sources :
        /\ cache[i][s] # NotCached => WellFormed(cache[i][s])
        /\ Holds(i, s) => cache[i][s] # NotCached

\* While no fault let one start without it, the tick that runs holds the lock.
LockHeld == NoFaultYet => \A i \in Instances : Ticking(i) => lock = doing[i].age

CallsCounted == NoCallYet => \A i \in Instances : ~Calling(i)

\* An invocation whose copy of s decides what it writes: the others force a disable.
Decides(i, s) ==
    \/ Ticking(i)
    \/ Calling(i) /\ doing[i].src = s /\ doing[i].task \in {"activate", "confirm"}

\* A P0 disable that holds is in the store and in every copy that decides.
P0Held ==
    \A s \in Sources : history[s].p0 =>
        /\ P0Disabled(kv[s])
        /\ \A i \in Instances : Decides(i, s) => P0Disabled(cache[i][s])

Faithful(s, h) == Counted(s, h) /\ (NoCallYet => Windowed(s, h))

\* Stored records and those of the tick tell the real streak.
StreaksHeld ==
    NoFaultYet => \A s \in Sources :
        /\ Faithful(kv[s], history[s])
        /\ \A i \in Instances : Ticking(i) => Faithful(cache[i][s], history[s])

IInv ==
    /\ TypeOK /\ BudgetOK /\ CopiesSound
    /\ LockHeld /\ OneTickAtATime
    /\ CallsCounted
    /\ P0Held
    /\ StreaksHeld

-----------------------------------------------------------------------------
(* Invocations, copies and the budget.                                     *)

LEMMA TaskFacts ==
  ASSUME NEW y, y \in Tasks \cup {Idle}
  PROVE  /\ y = Idle <=> y.task = "idle"
         /\ y.task \in Phases => y \in [task : Phases, age : 0 .. MaxDuration]
         /\ y.task \notin Phases /\ y # Idle =>
               y \in [task : Commands, src : Sources, age : 0 .. MaxDuration]
         /\ y # Idle => y.age \in 0 .. MaxDuration
BY DEF Tasks, Idle, Phases, Commands

LEMMA DoingFacts ==
  ASSUME IInv, NEW i \in Instances
  PROVE  /\ doing[i] \in Tasks \cup {Idle}
         /\ doing[i] = Idle => ~Ticking(i) /\ ~Calling(i)
         /\ Ticking(i) => doing[i] \in [task : Phases, age : 0 .. MaxDuration]
         /\ Calling(i) => /\ doing[i] \in [task : Commands, src : Sources, age : 0 .. MaxDuration]
                          /\ doing[i] # Idle
<1>1. doing[i] \in Tasks \cup {Idle}
  BY DEF IInv, TypeOK
<1>2. Idle.task = "idle" /\ "idle" \notin Phases
  BY DEF Idle, Phases
<1> QED BY <1>1, <1>2, TaskFacts DEF Ticking, Calling

LEMMA CopyFacts ==
  ASSUME IInv, NEW i \in Instances, NEW s \in Sources
  PROVE  /\ Sound(kv[s]) /\ history[s] \in Histories
         /\ cache[i][s] \in Statuses \cup {NotCached}
         /\ cache[i][s] # NotCached => Sound(cache[i][s])
         /\ Holds(i, s) => Sound(cache[i][s])
BY DEF IInv, TypeOK, CopiesSound, Sound

LEMMA StoreFacts ==
  ASSUME IInv, NEW s \in Sources
  PROVE  Sound(kv[s]) /\ history[s] \in Histories
BY DEF IInv, TypeOK, Sound

LEMMA LostFacts ==
  ASSUME NEW lost \in SUBSET Sources
  PROVE  Cardinality(lost) \in Nat /\ (Cardinality(lost) = 0 => lost = {})
<1>1. IsFiniteSet(Sources)
  BY MonitorAssumption
<1>2. IsFiniteSet(lost)
  BY <1>1, FS_Subset
<1> QED BY <1>2, FS_CardinalityType, FS_EmptySet

LEMMA SpendFacts ==
  ASSUME BudgetOK, NEW calls \in Nat, NEW faults \in Nat, Spend(calls, faults)
  PROVE  /\ BudgetOK'
         /\ NoFaultYet' => NoFaultYet /\ faults = 0
         /\ NoCallYet' => NoCallYet /\ calls = 0
         /\ calls = 0 => (NoCallYet' <=> NoCallYet)
<1>1. /\ budget.calls \in 0 .. MaxCalls /\ budget.faults \in 0 .. MaxFaults
      /\ budget.calls >= calls /\ budget.faults >= faults
  BY DEF BudgetOK, Spend
<1>2. budget' = [budget EXCEPT !.calls = budget.calls - calls, !.faults = budget.faults - faults]
  BY DEF Spend, BudgetOK
<1>3. budget'.calls = budget.calls - calls /\ budget'.faults = budget.faults - faults
  BY <1>2 DEF BudgetOK
<1>4. budget.calls - calls \in 0 .. MaxCalls /\ budget.faults - faults \in 0 .. MaxFaults
  BY <1>1, ConstantsOK
<1>5. BudgetOK'
  BY <1>2, <1>4 DEF BudgetOK
<1> QED BY <1>1, <1>3, <1>5, ConstantsOK DEF NoFaultYet, NoCallYet

LEMMA BudgetKept ==
  ASSUME BudgetOK, UNCHANGED budget
  PROVE  BudgetOK' /\ (NoFaultYet' <=> NoFaultYet) /\ (NoCallYet' <=> NoCallYet)
BY DEF BudgetOK, NoFaultYet, NoCallYet

\* A record that is faithful to a streak is so to any history with that streak.
LEMMA FaithfulOf ==
  ASSUME NEW s, NEW h, NEW g, Faithful(s, h), g.streak = h.streak, g.streakAge = h.streakAge
  PROVE  Faithful(s, g)
BY DEF Faithful, Counted, Windowed

\* Steps in which nothing is written: an invocation may end, or go on with its copy.
LEMMA QuietStep ==
  ASSUME IInv, UNCHANGED <<kv, lock, history>>, BudgetOK',
         NoFaultYet' => NoFaultYet, NoCallYet' => NoCallYet,
         halt' \in BOOLEAN, cooldown' \in Never .. Cooldown, world' \in [Sources -> World],
         doing' \in [Instances -> Tasks \cup {Idle}],
         \A i \in Instances : /\ Ticking(i)' => Ticking(i) /\ doing'[i].age = doing[i].age
                              /\ Calling(i)' => doing'[i] = doing[i],
         cache' \in [Instances -> [Sources -> Statuses \cup {NotCached}]],
         \A i \in Instances, s \in Sources :
             \/ cache'[i][s] = cache[i][s]
             \/ cache'[i][s] = NotCached /\ doing'[i] = Idle
  PROVE  IInv'
<1>1. TypeOK'
  BY DEF IInv, TypeOK
<1>2. \A i \in Instances : doing'[i] = Idle => ~Ticking(i)' /\ ~Calling(i)'
  BY DEF Ticking, Calling, Idle, Phases
<1>3. \A i \in Instances : Calling(i)' => Calling(i)
  BY DEF Ticking, Calling
<1>4. \A i \in Instances, s \in Sources : /\ Holds(i, s)' => Holds(i, s)
                                          /\ Decides(i, s)' => Decides(i, s)
  BY <1>3 DEF Holds, Decides
<1>5. \A i \in Instances, s \in Sources :
         Holds(i, s)' \/ Decides(i, s)' => cache'[i][s] = cache[i][s]
  BY <1>2 DEF Holds, Decides
<1>6. CopiesSound'
  BY <1>4, <1>5 DEF IInv, CopiesSound
<1>7. LockHeld' /\ OneTickAtATime'
  BY DEF IInv, LockHeld, OneTickAtATime
<1>8. CallsCounted'
  BY <1>3 DEF IInv, CallsCounted
<1>9. P0Held'
  BY <1>4, <1>5 DEF IInv, P0Held
<1>10. StreaksHeld'
  <2>1. \A i \in Instances, s \in Sources : Ticking(i)' => cache'[i][s] = cache[i][s]
    BY <1>5 DEF Holds
  <2> QED BY <2>1 DEF IInv, StreaksHeld, Faithful
<1> QED BY <1>1, <1>6, <1>7, <1>8, <1>9, <1>10 DEF IInv

-----------------------------------------------------------------------------
(* The phases of a tick.                                                   *)

\* What a phase makes of the copy of s, and what really happened to s meanwhile.
PhaseSound(i, s, copy, writes) ==
    /\ Sound(copy)
    /\ history'[s] \in Histories
    /\ history'[s].p0 =>
          P0Disabled(copy) /\ (history[s].p0 \/ (writes /\ NobodyElseHolds(i, s)))
    /\ NoFaultYet' =>
          /\ Faithful(copy, history'[s])
          /\ writes \/ (/\ history'[s].streak = history[s].streak
                        /\ history'[s].streakAge = history[s].streakAge)

LEMMA PhaseStep ==
  ASSUME IInv, NEW i \in Instances, Ticking(i),
         NEW copies \in [Sources -> Statuses], NEW written, NEW lost \in SUBSET Sources,
         Save(i, copies, written, lost),
         NEW faults \in Nat, Spend(0, faults), faults = 0 => lost = {},
         \A s \in Sources : PhaseSound(i, s, copies[s], s \in written \ lost),
         history' = [s \in Sources |-> history'[s]],
         doing' \in [Instances -> Tasks \cup {Idle}],
         \A j \in Instances \ {i} : doing'[j] = doing[j],
         Ticking(i)' \/ doing'[i] = Idle, Ticking(i)' => doing'[i].age = doing[i].age,
         UNCHANGED <<lock, world>>, halt' \in BOOLEAN, cooldown' \in Never .. Cooldown
  PROVE  IInv'
<1>1. /\ BudgetOK' /\ (NoFaultYet' => NoFaultYet /\ lost = {}) /\ (NoCallYet' <=> NoCallYet)
  BY SpendFacts DEF IInv
<1>2. /\ cache' = [cache EXCEPT ![i] = copies]
      /\ kv' = [s \in Sources |-> IF s \in written \ lost THEN copies[s] ELSE kv[s]]
  BY DEF Save
<1>3. /\ cache'[i] = copies /\ \A j \in Instances \ {i} : cache'[j] = cache[j]
      /\ cache' \in [Instances -> [Sources -> Statuses \cup {NotCached}]]
  BY <1>2 DEF IInv, TypeOK
<1>4. \A s \in Sources : /\ Sound(copies[s]) /\ Sound(kv[s]) /\ history[s] \in Histories
                         /\ history'[s] \in Histories
  BY CopyFacts DEF PhaseSound
<1>5. \A s \in Sources : kv'[s] = IF s \in written \ lost THEN copies[s] ELSE kv[s]
  BY <1>2
<1>6. kv' \in [Sources -> Statuses] /\ \A s \in Sources : WellFormed(kv'[s])
  BY <1>2, <1>4 DEF Sound
<1>7. history' \in [Sources -> Histories]
  BY <1>4
<1>8. TypeOK'
  BY <1>3, <1>6, <1>7 DEF IInv, TypeOK
<1>9. /\ ~Calling(i)' /\ \A j \in Instances \ {i} : /\ Ticking(j)' <=> Ticking(j)
                                                    /\ Calling(j)' <=> Calling(j)
  BY DEF Ticking, Calling, Idle
<1>10. \A j \in Instances : /\ Ticking(j)' => Ticking(j) /\ doing'[j].age = doing[j].age
                            /\ Calling(j)' => Calling(j)
  BY <1>9
<1>11. \A j \in Instances \ {i}, s \in Sources : /\ Holds(j, s)' <=> Holds(j, s)
                                                 /\ Decides(j, s)' <=> Decides(j, s)
  BY <1>9 DEF Holds, Decides
<1>12. CopiesSound'
  <2> SUFFICES ASSUME NEW j \in Instances, NEW s \in Sources
               PROVE  /\ cache'[j][s] # NotCached => WellFormed(cache'[j][s])
                      /\ Holds(j, s)' => cache'[j][s] # NotCached
    BY DEF CopiesSound
  <2>1. CASE j = i
    BY <1>3, <1>4, <2>1, NotCachedIsNoStatus DEF Sound
  <2>2. CASE j # i
    BY <1>3, <1>11, <2>2 DEF IInv, CopiesSound
  <2> QED BY <2>1, <2>2
<1>13. LockHeld' /\ OneTickAtATime'
  BY <1>1, <1>10 DEF IInv, LockHeld, OneTickAtATime
<1>14. CallsCounted'
  BY <1>1, <1>10 DEF IInv, CallsCounted
<1>15. P0Held'
  <2> SUFFICES ASSUME NEW s \in Sources, history'[s].p0
               PROVE  /\ P0Disabled(kv'[s])
                      /\ \A j \in Instances : Decides(j, s)' => P0Disabled(cache'[j][s])
    BY DEF P0Held
  <2>1. P0Disabled(copies[s]) /\ (history[s].p0 \/ (s \in written \ lost /\ NobodyElseHolds(i, s)))
    BY DEF PhaseSound
  <2>2. CASE history[s].p0
    <3>1. P0Disabled(kv[s]) /\ \A j \in Instances : Decides(j, s) => P0Disabled(cache[j][s])
      BY <2>2 DEF IInv, P0Held
    <3> QED BY <1>3, <1>5, <1>11, <2>1, <3>1
  <2>3. CASE s \in written \ lost /\ NobodyElseHolds(i, s)
    <3>1. \A j \in Instances \ {i} : ~Decides(j, s)
      <4> SUFFICES ASSUME NEW j \in Instances \ {i} PROVE ~Decides(j, s)
        OBVIOUS
      <4>1. doing[j] = Idle \/ (Calling(j) /\ doing[j].src # s)
        BY <2>3 DEF NobodyElseHolds
      <4> QED BY <4>1, DoingFacts DEF Decides, Calling
    <3> QED BY <1>3, <1>5, <1>11, <2>1, <2>3, <3>1
  <2> QED BY <2>1, <2>2, <2>3
<1>16. StreaksHeld'
  <2> SUFFICES ASSUME NoFaultYet', NEW s \in Sources
               PROVE  /\ Faithful(kv[s], history[s])'
                      /\ \A j \in Instances : Ticking(j)' => Faithful(cache[j][s], history[s])'
    BY DEF StreaksHeld
  <2>1. NoFaultYet /\ lost = {}
    BY <1>1
  <2>2. /\ Faithful(copies[s], history'[s]) /\ Faithful(kv[s], history[s])
        /\ s \in written \ lost \/ (/\ history'[s].streak = history[s].streak
                                   /\ history'[s].streakAge = history[s].streakAge)
    BY <2>1 DEF PhaseSound, IInv, StreaksHeld
  <2>3. Faithful(kv'[s], history'[s])
    BY <1>5, <2>2, FaithfulOf
  <2>4. \A j \in Instances : Ticking(j)' => cache'[j][s] = copies[s]
    BY <1>3, <1>10, <2>1 DEF IInv, OneTickAtATime
  <2>5. \A j \in Instances : Ticking(j)' => Faithful(cache'[j][s], history'[s])
    BY <2>2, <2>4
  <2> QED BY <1>1, <2>3, <2>5 DEF Faithful
<1> QED BY <1>1, <1>8, <1>12, <1>13, <1>14, <1>15, <1>16 DEF IInv

\* What is known of the copies of a tick.
LEMMA TickCopies ==
  ASSUME IInv, NEW i \in Instances, Ticking(i), NEW s \in Sources
  PROVE  /\ Sound(cache[i][s]) /\ Sound(kv[s]) /\ history[s] \in Histories
         /\ history[s].p0 => P0Disabled(cache[i][s])
         /\ NoFaultYet => Faithful(cache[i][s], history[s])
         /\ world[s] \in World /\ world[s].probe \in Answers
<1>1. world[s] \in World /\ ProbeAnswers \subseteq Answers
  BY MonitorAssumption DEF IInv, TypeOK
<1> QED BY <1>1, CopyFacts DEF Holds, Decides, IInv, P0Held, StreaksHeld, World

LEMMA ProceedStep ==
  ASSUME IInv, NEW i \in Instances, Ticking(i), NEW phase \in Phases, Proceed(i, phase)
  PROVE  /\ doing' \in [Instances -> Tasks \cup {Idle}]
         /\ \A j \in Instances \ {i} : doing'[j] = doing[j]
         /\ Ticking(i)' /\ doing'[i].age = doing[i].age
<1> DEFINE y == [doing[i] EXCEPT !.task = phase]
<1>1. doing[i] \in [task : Phases, age : 0 .. MaxDuration]
  BY DoingFacts
<1>2. y \in [task : Phases, age : 0 .. MaxDuration] /\ y.task \in Phases /\ y.age = doing[i].age
  BY <1>1
<1>3. doing' = [doing EXCEPT ![i] = y]
  BY DEF Proceed, IInv, TypeOK
<1> HIDE DEF y
<1>4. y \in Tasks
  BY <1>2 DEF Tasks
<1> QED BY <1>2, <1>3, <1>4 DEF IInv, TypeOK, Ticking

\* A record with the same health.
LEMMA SameHealthFacts ==
  ASSUME NEW s, NEW t, NEW h, SameHealth(s, t)
  PROVE  /\ P0Disabled(s) => P0Disabled(t)
         /\ Faithful(s, h) => Faithful(t, h)
BY DEF SameHealth, P0Disabled, Faithful, Counted, Windowed

\* A forced disable counts nothing.
LEMMA ForcedFaithful ==
  ASSUME NEW s, Sound(s), NEW h, NEW cause \in {"forced", "p0"}, Faithful(s, h)
  PROVE  Faithful(ForceDisable(s, cause), h)
BY ForceDisableFacts DEF Faithful, Counted, Windowed

LEMMA CheckHealthStep ==
  ASSUME IInv, NEW i \in Instances, CheckHealth(i)
  PROVE  IInv'
<1> DEFINE probed == {s \in Sources : ShouldProbeNow(cache[i][s])}
           copies == [s \in Sources |-> IF s \in probed
                                        THEN RecordHealthCheck(cache[i][s], world[s].probe)
                                        ELSE cache[i][s]]
<1>1. PICK lost \in SUBSET Sources :
         /\ doing[i].task = "health"
         /\ Spend(0, Cardinality(lost))
         /\ Save(i, copies, probed, lost)
         /\ history' = [s \in Sources |-> IF s \in probed
                                          THEN Streak(history[s], world[s].probe)
                                          ELSE history[s]]
         /\ Proceed(i, "fingerprints")
         /\ UNCHANGED <<lock, halt, cooldown, world>>
  BY DEF CheckHealth
<1>2. Ticking(i)
  BY <1>1 DEF Ticking, Phases
<1>3. /\ Cardinality(lost) \in Nat /\ (Cardinality(lost) = 0 => lost = {})
      /\ NoFaultYet' => NoFaultYet /\ lost = {}
  BY <1>1, LostFacts, SpendFacts DEF IInv
<1>4. ASSUME NEW s \in Sources
      PROVE  copies[s] \in Statuses /\ PhaseSound(i, s, copies[s], s \in probed \ lost)
  <2>1. /\ Sound(cache[i][s]) /\ history[s] \in Histories
        /\ history[s].p0 => P0Disabled(cache[i][s])
        /\ NoFaultYet => Faithful(cache[i][s], history[s])
        /\ world[s].probe \in Answers
    BY <1>2, TickCopies
  <2>2. CASE s \in probed
    <3> DEFINE t == RecordHealthCheck(cache[i][s], world[s].probe)
               h == Streak(history[s], world[s].probe)
    <3>1. copies[s] = t /\ history'[s] = h
      BY <1>1, <2>2
    <3>2. /\ Sound(t) /\ (P0Disabled(cache[i][s]) => P0Disabled(t))
          /\ Counted(cache[i][s], history[s]) => Counted(t, h)
          /\ Windowed(cache[i][s], history[s]) => Windowed(t, h)
      BY <2>1, HealthCheckFacts
    <3>3. h \in Histories /\ h.p0 = history[s].p0
      BY <2>1, StreakType
    <3>4. NoFaultYet' => Faithful(t, h) /\ s \in probed \ lost
      BY <1>3, <2>1, <2>2, <3>2 DEF Faithful
    <3> HIDE DEF t, h, copies, probed
    <3> QED BY <2>1, <3>1, <3>2, <3>3, <3>4 DEF PhaseSound, Sound
  <2>3. CASE s \notin probed
    <3>1. copies[s] = cache[i][s] /\ history'[s] = history[s]
      BY <1>1, <2>3
    <3> HIDE DEF copies, probed
    <3> QED BY <1>3, <2>1, <3>1 DEF PhaseSound, Sound
  <2> QED BY <2>2, <2>3
<1>5. copies \in [Sources -> Statuses]
  BY <1>4
<1>6. history' = [s \in Sources |-> history'[s]]
  BY <1>1
<1>7. halt' \in BOOLEAN /\ cooldown' \in Never .. Cooldown
  BY <1>1 DEF IInv, TypeOK
<1>8. /\ doing' \in [Instances -> Tasks \cup {Idle}]
      /\ \A j \in Instances \ {i} : doing'[j] = doing[j]
      /\ Ticking(i)' /\ doing'[i].age = doing[i].age
  BY <1>1, <1>2, ProceedStep DEF Phases
<1> HIDE DEF copies, probed
<1> QED BY <1>1, <1>2, <1>3, <1>4, <1>5, <1>6, <1>7, <1>8, PhaseStep

\* A copy whose health the phase leaves as it is.
LEMMA KeptPhase ==
  ASSUME IInv, NEW i \in Instances, Ticking(i), NEW s \in Sources,
         NEW copy, Sound(copy), SameHealth(cache[i][s], copy), NEW written, NEW lost,
         NoFaultYet' => NoFaultYet, history'[s] = history[s]
  PROVE  PhaseSound(i, s, copy, s \in written \ lost)
BY TickCopies, SameHealthFacts DEF PhaseSound

LEMMA SameHealthAsItself ==
  ASSUME NEW s
  PROVE  SameHealth(s, s)
BY DEF SameHealth

\* A copy that the phase disables; a disable that is not P0 replaces no P0 disable.
LEMMA ForcedPhase ==
  ASSUME IInv, NEW i \in Instances, Ticking(i), NEW s \in Sources,
         NEW copy, Sound(copy), SameHealth(cache[i][s], copy),
         NEW cause \in {"forced", "p0"}, cause = "p0" \/ ~history[s].p0,
         NEW written, s \in written, NEW lost,
         NoFaultYet' => NoFaultYet /\ lost = {},
         history'[s] = [history[s] EXCEPT !.p0 = P0After(i, s, cause, lost)]
  PROVE  PhaseSound(i, s, ForceDisable(copy, cause), s \in written \ lost)
<1> DEFINE t == ForceDisable(copy, cause)
           p0 == P0After(i, s, cause, lost)
<1>1. p0 \in BOOLEAN
  BY Zenon DEF P0After
<1>2. p0 => \/ cause = "p0" /\ NobodyElseHolds(i, s) /\ s \notin lost
            \/ (cause = "p0" \/ s \in lost) /\ history[s].p0
  BY Zenon DEF P0After
<1>3. history'[s] = [history[s] EXCEPT !.p0 = p0]
  BY Zenon
<1> HIDE DEF p0
<1>4. history[s] \in Histories /\ (NoFaultYet => Faithful(cache[i][s], history[s]))
  BY TickCopies
<1>5. /\ history'[s] \in Histories /\ history'[s].p0 = p0
      /\ history'[s].streak = history[s].streak
      /\ history'[s].streakAge = history[s].streakAge
  BY <1>1, <1>3, <1>4 DEF Histories
<1>6. Sound(t) /\ t.cause = cause /\ Disabled(t)
  BY ForceDisableFacts
<1>7. NoFaultYet' => Faithful(t, history'[s])
  <2>1. NoFaultYet => Faithful(t, history[s])
    BY <1>4, SameHealthFacts, ForcedFaithful
  <2> HIDE DEF t
  <2> QED BY <1>5, <2>1, FaithfulOf
<1>8. history'[s].p0 => P0Disabled(t) /\ (history[s].p0 \/ (s \in written \ lost /\ NobodyElseHolds(i, s)))
  BY <1>2, <1>5, <1>6 DEF P0Disabled
<1> HIDE DEF t
<1>9. PhaseSound(i, s, t, s \in written \ lost)
  BY <1>5, <1>6, <1>7, <1>8 DEF PhaseSound
<1> QED BY <1>9 DEF t

LEMMA CheckFingerprintsStep ==
  ASSUME IInv, NEW i \in Instances, CheckFingerprints(i)
  PROVE  IInv'
<1> DEFINE changed == {s \in Sources : world[s].tampered}
           copies == [s \in Sources |-> IF s \in changed THEN ForceDisable(cache[i][s], "p0")
                                                         ELSE cache[i][s]]
<1>1. PICK lost \in SUBSET Sources :
         /\ doing[i].task = "fingerprints"
         /\ Spend(0, Cardinality(lost))
         /\ Save(i, copies, changed, lost)
         /\ history' = [s \in Sources |->
                           IF s \in changed
                           THEN [history[s] EXCEPT !.p0 = P0After(i, s, "p0", lost)]
                           ELSE history[s]]
         /\ Proceed(i, "quorum")
         /\ UNCHANGED <<lock, halt, cooldown, world>>
  BY DEF CheckFingerprints
<1>2. Ticking(i)
  BY <1>1 DEF Ticking, Phases
<1>3. /\ Cardinality(lost) \in Nat /\ (Cardinality(lost) = 0 => lost = {})
      /\ NoFaultYet' => NoFaultYet /\ lost = {}
  BY <1>1, LostFacts, SpendFacts DEF IInv
<1>4. ASSUME NEW s \in Sources
      PROVE  copies[s] \in Statuses /\ PhaseSound(i, s, copies[s], s \in changed \ lost)
  <2>1. Sound(cache[i][s]) /\ SameHealth(cache[i][s], cache[i][s])
    BY <1>2, TickCopies, SameHealthAsItself
  <2>2. CASE s \in changed
    <3>1. /\ copies[s] = ForceDisable(cache[i][s], "p0")
          /\ history'[s] = [history[s] EXCEPT !.p0 = P0After(i, s, "p0", lost)]
      BY <1>1, <2>2, Zenon
    <3> HIDE DEF copies, changed
    <3>2. PhaseSound(i, s, ForceDisable(cache[i][s], "p0"), s \in changed \ lost)
      BY <1>2, <1>3, <2>1, <2>2, <3>1, ForcedPhase
    <3>3. ForceDisable(cache[i][s], "p0") \in Statuses
      BY <2>1, ForceDisableFacts DEF Sound
    <3> QED BY <3>1, <3>2, <3>3
  <2>3. CASE s \notin changed
    <3>1. copies[s] = cache[i][s] /\ history'[s] = history[s]
      BY <1>1, <2>3, Zenon
    <3> HIDE DEF copies, changed
    <3>2. PhaseSound(i, s, cache[i][s], s \in changed \ lost)
      BY <1>2, <1>3, <2>1, <3>1, KeptPhase
    <3> QED BY <2>1, <3>1, <3>2 DEF Sound
  <2> QED BY <2>2, <2>3
<1>5. copies \in [Sources -> Statuses]
  BY <1>4
<1>6. history' = [s \in Sources |-> history'[s]]
  BY <1>1, Zenon
<1>7. halt' \in BOOLEAN /\ cooldown' \in Never .. Cooldown
  BY <1>1 DEF IInv, TypeOK
<1>8. /\ doing' \in [Instances -> Tasks \cup {Idle}]
      /\ \A j \in Instances \ {i} : doing'[j] = doing[j]
      /\ Ticking(i)' /\ doing'[i].age = doing[i].age
  BY <1>1, <1>2, ProceedStep DEF Phases
<1> HIDE DEF copies, changed
<1> QED BY <1>1, <1>2, <1>3, <1>4, <1>5, <1>6, <1>7, <1>8, PhaseStep

\* The quote path's evidence is not about health.
LEMMA QuoteFacts ==
  ASSUME NEW s, Sound(s), NEW quote
  PROVE  LET t == RecordQuotePathRateLimits(s, quote) IN Sound(t) /\ SameHealth(s, t)
<1> "quote" \in Signals
  BY DEF Signals
<1> QED BY RateLimitedFacts, ClearSignalFacts, SameHealthAsItself
        DEF RecordQuotePathRateLimits

LEMMA QuorumStep ==
  ASSUME IInv, NEW i \in Instances, Quorum(i)
  PROVE  IInv'
<1> DEFINE active  == {s \in Sources : cache[i][s].state = "active"}
           seen    == [s \in Sources |->
                         RecordQuotePathRateLimits(cache[i][s], world[s].quote)]
           flagged == Outliers(active)
           cause   == IF Cardinality(flagged) >= Correlated THEN "p0" ELSE "forced"
           hit     == {s \in flagged : cause = "p0" \/ seen[s].state = "active"}
           written == hit \cup {s \in Sources : QuoteEvidence(cache[i][s], world[s].quote)}
           copies  == [s \in Sources |-> IF s \in hit THEN ForceDisable(seen[s], cause)
                                                      ELSE seen[s]]
<1>1. PICK lost \in SUBSET Sources :
         /\ doing[i].task = "quorum"
         /\ Spend(0, Cardinality(lost))
         /\ Save(i, copies, written, lost)
         /\ history' = [s \in Sources |->
                           IF s \in hit
                           THEN [history[s] EXCEPT !.p0 = P0After(i, s, cause, lost)]
                           ELSE history[s]]
         /\ Proceed(i, "wrapUp")
         /\ UNCHANGED <<lock, halt, cooldown, world>>
  BY Zenon DEF Quorum
<1>2. Ticking(i)
  BY <1>1 DEF Ticking, Phases
<1>3. /\ Cardinality(lost) \in Nat /\ (Cardinality(lost) = 0 => lost = {})
      /\ NoFaultYet' => NoFaultYet /\ lost = {}
  BY <1>1, LostFacts, SpendFacts DEF IInv
<1>4. cause \in {"forced", "p0"}
  OBVIOUS
<1>5. \A s \in hit : s \in written /\ cache[i][s].state = "active"
  BY DEF Outliers
<1>6. ASSUME NEW s \in Sources
      PROVE  seen[s] = RecordQuotePathRateLimits(cache[i][s], world[s].quote)
  OBVIOUS
<1>7. ASSUME NEW s \in hit
      PROVE  /\ copies[s] = ForceDisable(seen[s], cause)
             /\ history'[s] = [history[s] EXCEPT !.p0 = P0After(i, s, cause, lost)]
  <2>1. s \in Sources
    BY DEF Outliers
  <2> HIDE DEF hit, seen, cause
  <2> QED BY <1>1, <2>1, Zenon
<1>8. ASSUME NEW s \in Sources \ hit
      PROVE  copies[s] = seen[s] /\ history'[s] = history[s]
  <2> HIDE DEF hit, seen, cause
  <2> QED BY <1>1, Zenon
<1>9. history' = [s \in Sources |-> history'[s]]
  BY <1>1, Zenon
<1>10. copies = [s \in Sources |-> copies[s]]
  BY Zenon
<1> HIDE DEF active, seen, flagged, cause, hit, written, copies
<1>11. ASSUME NEW s \in Sources
       PROVE  copies[s] \in Statuses /\ PhaseSound(i, s, copies[s], s \in written \ lost)
  <2>1. /\ Sound(cache[i][s]) /\ history[s] \in Histories
        /\ history[s].p0 => P0Disabled(cache[i][s])
    BY <1>2, TickCopies
  <2>2. Sound(seen[s]) /\ SameHealth(cache[i][s], seen[s])
    BY <1>6, <2>1, QuoteFacts
  <2>3. CASE s \in hit
    <3>1. s \in written /\ ~history[s].p0
      BY <1>5, <2>1, <2>3 DEF P0Disabled, Disabled
    <3>2. PhaseSound(i, s, ForceDisable(seen[s], cause), s \in written \ lost)
      BY <1>2, <1>3, <1>4, <1>7, <2>2, <2>3, <3>1, ForcedPhase
    <3>3. ForceDisable(seen[s], cause) \in Statuses
      BY <1>4, <2>2, ForceDisableFacts DEF Sound
    <3> QED BY <1>7, <2>3, <3>2, <3>3
  <2>4. CASE s \notin hit
    <3>1. copies[s] = seen[s] /\ history'[s] = history[s]
      BY <1>8, <2>4
    <3>2. PhaseSound(i, s, seen[s], s \in written \ lost)
      BY <1>2, <1>3, <2>2, <3>1, KeptPhase
    <3> QED BY <2>2, <3>1, <3>2 DEF Sound
  <2> QED BY <2>3, <2>4
<1>12. copies \in [Sources -> Statuses]
  BY <1>10, <1>11
<1>13. halt' \in BOOLEAN /\ cooldown' \in Never .. Cooldown
  BY <1>1 DEF IInv, TypeOK
<1>14. /\ doing' \in [Instances -> Tasks \cup {Idle}]
       /\ \A j \in Instances \ {i} : doing'[j] = doing[j]
       /\ Ticking(i)' /\ doing'[i].age = doing[i].age
  BY <1>1, <1>2, ProceedStep DEF Phases
<1> QED BY <1>1, <1>2, <1>3, <1>9, <1>11, <1>12, <1>13, <1>14, PhaseStep

LEMMA SkipQuorumStep ==
  ASSUME IInv, NEW i \in Instances, SkipQuorum(i)
  PROVE  IInv'
<1>1. Ticking(i)
  BY DEF SkipQuorum, Ticking, Phases
<1>2. /\ doing' \in [Instances -> Tasks \cup {Idle}]
      /\ \A j \in Instances \ {i} : doing'[j] = doing[j]
      /\ Ticking(i)' /\ doing'[i].age = doing[i].age
  BY <1>1, ProceedStep DEF SkipQuorum, Phases
<1>3. \A j \in Instances : /\ Ticking(j)' => Ticking(j) /\ doing'[j].age = doing[j].age
                           /\ Calling(j)' => doing'[j] = doing[j]
  BY <1>1, <1>2 DEF Ticking, Calling
<1>4. UNCHANGED <<kv, cache, lock, halt, cooldown, world, budget, history>>
  BY DEF SkipQuorum
<1>5. /\ BudgetOK' /\ (NoFaultYet' => NoFaultYet) /\ (NoCallYet' => NoCallYet)
  BY <1>4, BudgetKept DEF IInv
<1>6. /\ halt' \in BOOLEAN /\ cooldown' \in Never .. Cooldown /\ world' \in [Sources -> World]
      /\ cache' \in [Instances -> [Sources -> Statuses \cup {NotCached}]]
  BY <1>4 DEF IInv, TypeOK
<1> QED BY <1>2, <1>3, <1>4, <1>5, <1>6, QuietStep

LEMMA UnsetFacts ==
  ASSUME NEW unset \in SUBSET {"halt", "cooldown"}
  PROVE  Cardinality(unset) \in Nat
<1>1. IsFiniteSet({"halt"} \cup {"cooldown"})
  BY FS_Singleton, FS_Union
<1>2. unset \in SUBSET ({"halt"} \cup {"cooldown"})
  OBVIOUS
<1>3. IsFiniteSet(unset)
  BY <1>1, <1>2, FS_Subset
<1> QED BY <1>3, FS_CardinalityType

\* The last phase lifts only forced disables that are not P0, and leaves the failing streak.
LEMMA WrapUpStep ==
  ASSUME IInv, NEW i \in Instances, WrapUp(i)
  PROVE  IInv'
<1> DEFINE copy      == cache[i]
           raised    == Raised(copy)
           marked    == [s \in Sources |-> IF s \in raised
                                          THEN MarkRateLimitAlerted(copy[s]) ELSE copy[s]]
           recovered == {s \in Sources : RecoversByTimer(marked[s])}
           final     == [s \in Sources |-> IF s \in recovered
                                          THEN AutoRecover(marked[s]) ELSE marked[s]]
           trip(m)   == Trips(final) /\ (m \/ ~InCooldown)
           wrong(m)  == IF m THEN 1 ELSE 0
           written   == raised \cup recovered
<1>1. PICK lost \in SUBSET Sources, unset \in SUBSET {"halt", "cooldown"}, misread \in BOOLEAN :
         /\ doing[i].task = "wrapUp"
         /\ ExecuteTrip(trip(misread), unset)
         /\ Spend(0, Cardinality(lost) + Cardinality(unset) + wrong(misread))
         /\ Save(i, final, written, lost)
         /\ doing' = [doing EXCEPT ![i] = Idle]
         /\ UNCHANGED <<lock, world, history>>
  BY Zenon DEF WrapUp
<1> DEFINE faults == Cardinality(lost) + Cardinality(unset) + wrong(misread)
<1>2. halt' \in BOOLEAN
  BY <1>1, Zenon DEF ExecuteTrip
<1>3. cooldown' \in {0, cooldown}
  <2>1. cooldown' = 0 \/ cooldown' = cooldown
    BY <1>1, Zenon DEF ExecuteTrip
  <2> QED BY <2>1
<1>4. wrong(misread) \in {0, 1}
  <2>1. wrong(misread) = 0 \/ wrong(misread) = 1
    BY Zenon
  <2> HIDE DEF wrong
  <2> QED BY <2>1
<1>5. Spend(0, faults)
  BY <1>1, Zenon
<1> HIDE DEF wrong, trip
<1>6. /\ Cardinality(lost) \in Nat /\ (Cardinality(lost) = 0 => lost = {})
      /\ Cardinality(unset) \in Nat
  BY LostFacts, UnsetFacts
<1>7. faults \in Nat /\ (faults = 0 => lost = {})
  BY <1>4, <1>6
<1> HIDE DEF faults
<1>8. NoFaultYet' => NoFaultYet /\ lost = {}
  BY <1>5, <1>7, SpendFacts DEF IInv
<1>9. Ticking(i)
  BY <1>1 DEF Ticking, Phases
<1>10. \A s \in raised : ShouldRaiseRateLimitAlert(copy[s])
  BY DEF Raised
<1>11. \A s \in Sources : marked[s] = IF s \in raised THEN MarkRateLimitAlerted(copy[s]) ELSE copy[s]
  OBVIOUS
<1>12. \A s \in Sources : /\ final[s] = IF s \in recovered THEN AutoRecover(marked[s]) ELSE marked[s]
                          /\ s \in recovered <=> RecoversByTimer(marked[s])
  OBVIOUS
<1>13. final = [s \in Sources |-> final[s]] /\ history' = [s \in Sources |-> history'[s]]
  BY <1>1 DEF IInv, TypeOK
<1>14. copy = cache[i] /\ recovered \subseteq written
  OBVIOUS
<1> HIDE DEF copy, raised, marked, recovered, final, written
<1>15. ASSUME NEW s \in Sources
       PROVE  final[s] \in Statuses /\ PhaseSound(i, s, final[s], s \in written \ lost)
  <2>1. /\ Sound(cache[i][s]) /\ history[s] \in Histories
        /\ history[s].p0 => P0Disabled(cache[i][s])
        /\ NoFaultYet => Faithful(cache[i][s], history[s])
    BY <1>9, TickCopies
  <2>2. Sound(marked[s]) /\ SameHealth(cache[i][s], marked[s])
    BY <1>10, <1>11, <1>14, <2>1, MarkFacts, SameHealthAsItself
  <2>3. history'[s] = history[s]
    BY <1>1
  <2>4. CASE s \in recovered
    <3> DEFINE t == AutoRecover(marked[s])
    <3>1. final[s] = t /\ RecoversByTimer(marked[s])
      BY <1>12, <2>4
    <3>2. /\ Sound(t) /\ t.cause = "none" /\ t.failureCount = 0
          /\ t.failingSince = marked[s].failingSince
      BY <2>2, AutoRecoverFacts
    <3>3. ~history[s].p0
      BY <2>1, <2>2, <3>1 DEF RecoversByTimer, SameHealth, P0Disabled
    <3>4. NoFaultYet => Faithful(t, history[s])
      <4>1. history[s].streak \in Nat
        BY <2>1, ConstantsOK DEF Histories
      <4>2. NoFaultYet => Faithful(marked[s], history[s])
        BY <2>1, <2>2, SameHealthFacts
      <4> HIDE DEF t
      <4> QED BY <3>2, <4>1, <4>2 DEF Faithful, Counted, Windowed
    <3> HIDE DEF t
    <3> QED BY <1>8, <2>1, <2>3, <3>1, <3>2, <3>3, <3>4 DEF PhaseSound, Sound
  <2>5. CASE s \notin recovered
    <3>1. final[s] = marked[s]
      BY <1>12, <2>5
    <3>2. PhaseSound(i, s, marked[s], s \in written \ lost)
      BY <1>8, <1>9, <2>2, <2>3, KeptPhase
    <3> QED BY <2>2, <3>1, <3>2 DEF Sound
  <2> QED BY <2>4, <2>5
<1>16. final \in [Sources -> Statuses]
  BY <1>13, <1>15
<1>17. cooldown' \in Never .. Cooldown
  BY <1>3, ConstantsOK DEF IInv, TypeOK
<1>18. /\ doing' \in [Instances -> Tasks \cup {Idle}]
       /\ \A j \in Instances \ {i} : doing'[j] = doing[j]
       /\ doing'[i] = Idle /\ ~Ticking(i)'
  <2>1. Idle.task \notin Phases
    BY DEF Idle, Phases
  <2> QED BY <1>1, <2>1 DEF IInv, TypeOK, Ticking
<1> QED BY <1>1, <1>2, <1>5, <1>7, <1>9, <1>13, <1>15, <1>16, <1>17, <1>18, PhaseStep

LEMMA TickStep ==
  ASSUME IInv, NEW i \in Instances, Tick(i)
  PROVE  IInv'
BY CheckHealthStep, CheckFingerprintsStep, QuorumStep, SkipQuorumStep, WrapUpStep DEF Tick

-----------------------------------------------------------------------------
(* The steps that read the store.                                          *)

\* No tick runs when the lock is free, unless one started without it.
LEMMA FreeLock ==
  ASSUME IInv, NoFaultYet, LockFree, NEW j \in Instances
  PROVE  ~Ticking(j)
<1> SUFFICES ASSUME Ticking(j) PROVE FALSE
  OBVIOUS
<1>1. lock = doing[j].age /\ doing[j].age \in 0 .. MaxDuration
  BY DoingFacts DEF IInv, LockHeld
<1> QED BY <1>1, ConstantsOK DEF LockFree

LEMMA StartTickStep ==
  ASSUME IInv, NEW i \in Instances, StartTick(i)
  PROVE  IInv'
<1> DEFINE wrong(m) == IF m THEN 0 ELSE 1
           fresh == [task |-> "health", age |-> 0]
<1>1. PICK acquired \in BOOLEAN, unread \in SUBSET Sources :
         /\ doing[i] = Idle
         /\ acquired => LockFree
         /\ Spend(0, Cardinality(unread) + wrong(acquired))
         /\ lock' = IF acquired THEN 0 ELSE lock
         /\ cache' = [cache EXCEPT ![i] =
                         [s \in Sources |-> IF s \in unread THEN DefaultStatus ELSE kv[s]]]
         /\ doing' = [doing EXCEPT ![i] = fresh]
         /\ history' = [s \in Sources |->
                           IF s \in unread THEN [history[s] EXCEPT !.p0 = FALSE]
                                           ELSE history[s]]
         /\ UNCHANGED <<kv, halt, cooldown, world>>
  BY Zenon DEF StartTick
<1>2. /\ wrong(acquired) \in {0, 1} /\ (wrong(acquired) = 0 => acquired)
      /\ lock' \in {0, lock} /\ (acquired => lock' = 0)
  <2>1. CASE acquired
    BY <1>1, <2>1
  <2>2. CASE ~acquired
    BY <1>1, <2>2
  <2> QED BY <2>1, <2>2
<1> HIDE DEF wrong
<1>3. Cardinality(unread) \in Nat /\ (Cardinality(unread) = 0 => unread = {})
  BY LostFacts
<1>4. /\ BudgetOK' /\ (NoCallYet' <=> NoCallYet)
      /\ NoFaultYet' => NoFaultYet /\ unread = {} /\ acquired
  <2>1. Cardinality(unread) + wrong(acquired) \in Nat
    BY <1>2, <1>3
  <2>2. /\ BudgetOK' /\ (NoCallYet' <=> NoCallYet)
        /\ NoFaultYet' => NoFaultYet /\ Cardinality(unread) + wrong(acquired) = 0
    BY <1>1, <2>1, SpendFacts DEF IInv
  <2> QED BY <1>2, <1>3, <2>2
<1>5. /\ fresh \in Tasks /\ fresh.task = "health" /\ fresh.age = 0
  BY ConstantsOK DEF Tasks, Phases
<1> HIDE DEF fresh
<1>6. /\ doing'[i] = fresh /\ \A j \in Instances \ {i} : doing'[j] = doing[j]
      /\ doing' \in [Instances -> Tasks \cup {Idle}]
  BY <1>1, <1>5 DEF IInv, TypeOK
<1>7. \A s \in Sources : /\ cache'[i][s] = (IF s \in unread THEN DefaultStatus ELSE kv[s])
                         /\ \A j \in Instances \ {i} : cache'[j][s] = cache[j][s]
  BY <1>1 DEF IInv, TypeOK
<1>8. \A s \in Sources : Sound(cache'[i][s])
  BY <1>7, CopyFacts, DefaultSound
<1>9. cache' \in [Instances -> [Sources -> Statuses \cup {NotCached}]]
  <2> DEFINE c == [s \in Sources |-> IF s \in unread THEN DefaultStatus ELSE kv[s]]
  <2>1. c \in [Sources -> Statuses]
    BY DefaultSound, CopyFacts DEF Sound
  <2>2. cache' = [cache EXCEPT ![i] = c]
    BY <1>1
  <2> HIDE DEF c
  <2> QED BY <2>1, <2>2 DEF IInv, TypeOK
<1>10. ASSUME NEW s \in Sources
       PROVE  /\ history'[s] \in Histories
              /\ history'[s].streak = history[s].streak
              /\ history'[s].streakAge = history[s].streakAge
              /\ history'[s].p0 => history[s].p0 /\ s \notin unread
  <2>1. history[s] \in Histories /\ FALSE \in BOOLEAN
    BY CopyFacts
  <2>2. CASE s \in unread
    BY <1>1, <2>1, <2>2 DEF Histories
  <2>3. CASE s \notin unread
    BY <1>1, <2>1, <2>3
  <2> QED BY <2>2, <2>3
<1>11. history' \in [Sources -> Histories]
  <2>1. history' = [s \in Sources |-> history'[s]]
    BY <1>1
  <2> QED BY <1>10, <2>1
<1>12. TypeOK'
  BY <1>1, <1>2, <1>6, <1>9, <1>11, ConstantsOK DEF IInv, TypeOK
<1>13. /\ Ticking(i)' /\ ~Calling(i)'
       /\ \A j \in Instances \ {i} : /\ Ticking(j)' <=> Ticking(j)
                                     /\ Calling(j)' <=> Calling(j)
  BY <1>5, <1>6 DEF Ticking, Calling, Phases
<1>14. \A j \in Instances \ {i}, s \in Sources : /\ Holds(j, s)' <=> Holds(j, s)
                                                 /\ Decides(j, s)' <=> Decides(j, s)
  BY <1>6, <1>13 DEF Holds, Decides
<1>15. CopiesSound'
  <2> SUFFICES ASSUME NEW j \in Instances, NEW s \in Sources
               PROVE  /\ cache'[j][s] # NotCached => WellFormed(cache'[j][s])
                      /\ Holds(j, s)' => cache'[j][s] # NotCached
    BY DEF CopiesSound
  <2>1. CASE j = i
    BY <1>8, <2>1, NotCachedIsNoStatus DEF Sound
  <2>2. CASE j # i
    BY <1>7, <1>14, <2>2 DEF IInv, CopiesSound
  <2> QED BY <2>1, <2>2
<1>16. ASSUME NoFaultYet', NEW j \in Instances, Ticking(j)'
       PROVE  j = i
  <2>1. NoFaultYet /\ LockFree
    BY <1>1, <1>4, <1>16
  <2>2. ~Ticking(j)
    BY <2>1, FreeLock
  <2> QED BY <1>13, <1>16, <2>2
<1>17. LockHeld' /\ OneTickAtATime'
  <2>1. NoFaultYet' => lock' = 0
    BY <1>2, <1>4
  <2> QED BY <1>5, <1>6, <1>16, <2>1 DEF LockHeld, OneTickAtATime
<1>18. CallsCounted'
  BY <1>4, <1>13 DEF IInv, CallsCounted
<1>19. P0Held'
  <2> SUFFICES ASSUME NEW s \in Sources, history'[s].p0
               PROVE  /\ P0Disabled(kv'[s])
                      /\ \A j \in Instances : Decides(j, s)' => P0Disabled(cache'[j][s])
    BY DEF P0Held
  <2>1. /\ P0Disabled(kv[s]) /\ \A j \in Instances : Decides(j, s) => P0Disabled(cache[j][s])
        /\ s \notin unread
    BY <1>10 DEF IInv, P0Held
  <2> QED BY <1>1, <1>7, <1>14, <2>1
<1>20. StreaksHeld'
  <2> SUFFICES ASSUME NoFaultYet', NEW s \in Sources
               PROVE  /\ Faithful(kv[s], history[s])'
                      /\ \A j \in Instances : Ticking(j)' => Faithful(cache[j][s], history[s])'
    BY DEF StreaksHeld
  <2>1. Faithful(kv[s], history[s])
    BY <1>4 DEF IInv, StreaksHeld
  <2>2. Faithful(kv[s], history'[s])
    BY <1>10, <2>1, FaithfulOf
  <2>3. kv'[s] = kv[s] /\ \A j \in Instances : Ticking(j)' => cache'[j][s] = kv[s]
    BY <1>1, <1>4, <1>7, <1>16
  <2> QED BY <1>4, <2>2, <2>3 DEF Faithful
<1> QED BY <1>4, <1>12, <1>15, <1>17, <1>18, <1>19, <1>20 DEF IInv

LEMMA BeginCallStep ==
  ASSUME IInv, NEW i \in Instances, NEW task \in Commands, NEW s \in Sources,
         BeginCall(i, task, s)
  PROVE  IInv'
<1> DEFINE wanted(telegram) ==
               IF telegram \/ task \in {"activate", "confirm"} THEN Sources
               ELSE {x \in {s} : cache[i][x] = NotCached}
           call == [task |-> task, src |-> s, age |-> 0]
           Read(unread, x) == IF x \in unread THEN DefaultStatus ELSE kv[x]
           copies(w, unread) == [x \in Sources |-> IF x \in w THEN Read(unread, x)
                                                              ELSE cache[i][x]]
           lifted(unread, x) == x = s /\ x \in unread
<1>1. PICK telegram \in BOOLEAN, unread \in SUBSET Sources :
         /\ doing[i] = Idle
         /\ unread \subseteq wanted(telegram)
         /\ Spend(1, Cardinality(unread))
         /\ doing' = [doing EXCEPT ![i] = call]
         /\ cache' = [cache EXCEPT ![i] = copies(wanted(telegram), unread)]
         /\ history' = [x \in Sources |-> [history[x] EXCEPT !.p0 = @ /\ ~lifted(unread, x)]]
         /\ UNCHANGED <<kv, lock, halt, cooldown, world>>
  BY Zenon DEF BeginCall
<1> DEFINE w == wanted(telegram)
<1>2. /\ w \subseteq Sources
      /\ task \in {"activate", "confirm"} => s \in w
      /\ s \in w \/ cache[i][s] # NotCached
  <2>1. CASE telegram \/ task \in {"activate", "confirm"}
    <3>1. w = Sources
      BY <2>1
    <3> HIDE DEF w
    <3> QED BY <3>1
  <2>2. CASE ~(telegram \/ task \in {"activate", "confirm"})
    <3>1. w = {x \in {s} : cache[i][x] = NotCached} /\ task \notin {"activate", "confirm"}
      BY <2>2
    <3> HIDE DEF w
    <3> QED BY <3>1
  <2> QED BY <2>1, <2>2
<1>3. cache' = [cache EXCEPT ![i] = copies(w, unread)]
  BY <1>1
<1> HIDE DEF w, wanted
<1>4. Cardinality(unread) \in Nat /\ (Cardinality(unread) = 0 => unread = {})
  BY LostFacts
<1>5. /\ BudgetOK' /\ ~NoCallYet'
      /\ NoFaultYet' => NoFaultYet /\ unread = {}
  <2>1. Spend(1, Cardinality(unread)) /\ 1 \in Nat /\ 1 # 0 /\ BudgetOK
    BY <1>1 DEF IInv
  <2> QED BY <1>4, <2>1, SpendFacts
<1>6. call \in Tasks /\ call.task = task /\ call.src = s
  BY ConstantsOK DEF Tasks
<1> HIDE DEF call
<1>7. /\ doing'[i] = call /\ \A j \in Instances \ {i} : doing'[j] = doing[j]
      /\ doing' \in [Instances -> Tasks \cup {Idle}]
  BY <1>1, <1>6 DEF IInv, TypeOK
<1>8. \A x \in Sources : copies(w, unread)[x] = IF x \in w THEN Read(unread, x) ELSE cache[i][x]
  OBVIOUS
<1>9. \A x \in Sources : Sound(Read(unread, x)) /\ (x \notin unread => Read(unread, x) = kv[x])
  BY CopyFacts, DefaultSound
<1>10. copies(w, unread) \in [Sources -> Statuses \cup {NotCached}]
  <2> HIDE DEF Read
  <2> QED BY <1>9, CopyFacts DEF Sound
<1> HIDE DEF Read, copies
<1>11. /\ \A x \in Sources : cache'[i][x] = IF x \in w THEN Read(unread, x) ELSE cache[i][x]
       /\ \A j \in Instances \ {i} : cache'[j] = cache[j]
       /\ cache' \in [Instances -> [Sources -> Statuses \cup {NotCached}]]
  BY <1>3, <1>8, <1>10 DEF IInv, TypeOK
<1>12. ASSUME NEW x \in Sources
       PROVE  /\ history'[x] \in Histories
              /\ history'[x].streak = history[x].streak
              /\ history'[x].streakAge = history[x].streakAge
              /\ history'[x].p0 => history[x].p0 /\ ~(x = s /\ x \in unread)
  <2> DEFINE p0 == history[x].p0 /\ ~lifted(unread, x)
  <2>1. history[x] \in Histories
    BY CopyFacts
  <2>2. history'[x] = [history[x] EXCEPT !.p0 = @ /\ ~lifted(unread, x)]
    BY <1>1, Zenon
  <2>3. history'[x] = [history[x] EXCEPT !.p0 = p0]
    BY <2>1, <2>2 DEF Histories
  <2>4. p0 \in BOOLEAN /\ (p0 => history[x].p0 /\ ~(x = s /\ x \in unread))
    BY Zenon
  <2> HIDE DEF p0
  <2> QED BY <2>1, <2>3, <2>4 DEF Histories
<1>13. history' \in [Sources -> Histories]
  <2>1. history' = [x \in Sources |-> history'[x]]
    BY <1>1, Zenon
  <2> QED BY <1>12, <2>1
<1>14. TypeOK'
  BY <1>1, <1>7, <1>11, <1>13 DEF IInv, TypeOK
<1>15. /\ ~Ticking(i)' /\ Calling(i)'
       /\ \A j \in Instances \ {i} : /\ Ticking(j)' <=> Ticking(j)
                                     /\ Calling(j)' <=> Calling(j)
  BY <1>6, <1>7 DEF Ticking, Calling, Phases, Commands
<1>16. /\ \A j \in Instances \ {i}, x \in Sources : /\ Holds(j, x)' <=> Holds(j, x)
                                                    /\ Decides(j, x)' <=> Decides(j, x)
       /\ \A x \in Sources : /\ Holds(i, x)' => x = s
                             /\ Decides(i, x)' => x = s /\ task \in {"activate", "confirm"}
  BY <1>6, <1>7, <1>15 DEF Holds, Decides
<1>17. CopiesSound'
  <2> SUFFICES ASSUME NEW j \in Instances, NEW x \in Sources
               PROVE  /\ cache'[j][x] # NotCached => WellFormed(cache'[j][x])
                      /\ Holds(j, x)' => cache'[j][x] # NotCached
    BY DEF CopiesSound
  <2>1. CASE j = i
    <3>1. Sound(Read(unread, x)) /\ Read(unread, x) # NotCached
      BY <1>9, NotCachedIsNoStatus DEF Sound
    <3>2. cache[i][x] # NotCached => WellFormed(cache[i][x])
      BY DEF IInv, CopiesSound
    <3> QED BY <1>2, <1>11, <1>16, <2>1, <3>1, <3>2 DEF Sound
  <2>2. CASE j # i
    BY <1>11, <1>16, <2>2 DEF IInv, CopiesSound
  <2> QED BY <2>1, <2>2
<1>18. \A j \in Instances : Ticking(j)' => j # i /\ Ticking(j) /\ doing'[j] = doing[j]
  BY <1>7, <1>15
<1>19. LockHeld' /\ OneTickAtATime'
  BY <1>1, <1>5, <1>18 DEF IInv, LockHeld, OneTickAtATime
<1>20. CallsCounted'
  BY <1>5 DEF CallsCounted
<1>21. P0Held'
  <2> SUFFICES ASSUME NEW x \in Sources, history'[x].p0
               PROVE  /\ P0Disabled(kv'[x])
                      /\ \A j \in Instances : Decides(j, x)' => P0Disabled(cache'[j][x])
    BY DEF P0Held
  <2>1. /\ P0Disabled(kv[x]) /\ \A j \in Instances : Decides(j, x) => P0Disabled(cache[j][x])
        /\ ~(x = s /\ x \in unread)
    BY <1>12 DEF IInv, P0Held
  <2>2. Decides(i, x)' => cache'[i][x] = kv[x]
    BY <1>2, <1>9, <1>11, <1>16, <2>1
  <2> QED BY <1>1, <1>11, <1>16, <2>1, <2>2
<1>22. StreaksHeld'
  <2> SUFFICES ASSUME NoFaultYet', NEW x \in Sources
               PROVE  /\ Faithful(kv[x], history[x])'
                      /\ \A j \in Instances : Ticking(j)' => Faithful(cache[j][x], history[x])'
    BY DEF StreaksHeld
  <2>1. /\ Counted(kv[x], history[x])
        /\ \A j \in Instances : Ticking(j) => Counted(cache[j][x], history[x])
    BY <1>5 DEF IInv, StreaksHeld, Faithful
  <2>2. /\ Counted(kv[x], history'[x])
        /\ \A j \in Instances : Ticking(j) => Counted(cache[j][x], history'[x])
    BY <1>12, <2>1 DEF Counted
  <2> QED BY <1>1, <1>5, <1>11, <1>18, <2>2 DEF Faithful
<1> QED BY <1>5, <1>14, <1>17, <1>19, <1>20, <1>21, <1>22 DEF IInv

-----------------------------------------------------------------------------
(* The ends of a call.                                                     *)

\* What a call that writes the copy of its source, and ends, has to respect.
LEMMA CallStep ==
  ASSUME IInv, NEW i \in Instances, Calling(i), NEW s \in Sources, s = doing[i].src,
         NEW copy, Sound(copy),
         copy.cause \in {"forced", "p0"} \/ (copy.cause = "none" /\ copy.failureCount = 0),
         NEW lost \in SUBSET {s}, Spend(0, Cardinality(lost)),
         Save(i, [cache[i] EXCEPT ![s] = copy], {s}, lost),
         history' \in [Sources -> Histories],
         \A x \in Sources : /\ history'[x].streak = history[x].streak
                            /\ history'[x].streakAge = history[x].streakAge
                            /\ x # s => history'[x].p0 = history[x].p0,
         history'[s].p0 =>
             \/ history[s].p0 /\ (s \in lost \/ P0Disabled(copy))
             \/ NobodyElseHolds(i, s) /\ s \notin lost /\ P0Disabled(copy),
         doing' = [doing EXCEPT ![i] = Idle],
         UNCHANGED <<lock, halt, cooldown, world>>
  PROVE  IInv'
<1>1. Cardinality(lost) \in Nat /\ (Cardinality(lost) = 0 => lost = {}) /\ lost \in SUBSET Sources
  BY LostFacts
<1>2. /\ BudgetOK' /\ (NoCallYet' <=> NoCallYet) /\ ~NoCallYet
      /\ NoFaultYet' => NoFaultYet /\ lost = {}
  BY <1>1, SpendFacts DEF IInv, CallsCounted
<1>3. /\ cache'[i] = [cache[i] EXCEPT ![s] = copy]
      /\ \A j \in Instances \ {i} : cache'[j] = cache[j]
      /\ cache' \in [Instances -> [Sources -> Statuses \cup {NotCached}]]
      /\ cache'[i][s] = copy /\ \A x \in Sources \ {s} : cache'[i][x] = cache[i][x]
  BY DEF IInv, TypeOK, Save, Sound
<1>4. /\ kv' = [x \in Sources |-> IF x \in {s} \ lost THEN cache'[i][x] ELSE kv[x]]
      /\ \A x \in Sources : kv'[x] = IF x = s /\ s \notin lost THEN copy ELSE kv[x]
  BY <1>3 DEF Save
<1>5. \A x \in Sources : Sound(kv'[x]) /\ Sound(kv[x])
  BY <1>4, CopyFacts
<1>6. kv' \in [Sources -> Statuses] /\ \A x \in Sources : WellFormed(kv'[x])
  BY <1>4, <1>5 DEF Sound
<1>7. /\ doing'[i] = Idle /\ \A j \in Instances \ {i} : doing'[j] = doing[j]
      /\ doing' \in [Instances -> Tasks \cup {Idle}]
  BY DEF IInv, TypeOK
<1>8. TypeOK'
  BY <1>3, <1>6, <1>7 DEF IInv, TypeOK
<1>9. /\ ~Ticking(i)' /\ ~Calling(i)'
      /\ \A j \in Instances \ {i} : /\ Ticking(j)' <=> Ticking(j)
                                    /\ Calling(j)' <=> Calling(j)
  BY <1>7 DEF Ticking, Calling, Idle, Phases
<1>10. /\ \A j \in Instances \ {i}, x \in Sources : /\ Holds(j, x)' <=> Holds(j, x)
                                                    /\ Decides(j, x)' <=> Decides(j, x)
       /\ \A x \in Sources : ~Holds(i, x)' /\ ~Decides(i, x)'
  BY <1>7, <1>9 DEF Holds, Decides
<1>11. CopiesSound'
  <2> SUFFICES ASSUME NEW j \in Instances, NEW x \in Sources
               PROVE  /\ cache'[j][x] # NotCached => WellFormed(cache'[j][x])
                      /\ Holds(j, x)' => cache'[j][x] # NotCached
    BY DEF CopiesSound
  <2>1. CASE j = i
    BY <1>3, <1>10, <2>1 DEF IInv, CopiesSound, Sound
  <2>2. CASE j # i
    BY <1>3, <1>10, <2>2 DEF IInv, CopiesSound
  <2> QED BY <2>1, <2>2
<1>12. \A j \in Instances : Ticking(j)' => j # i /\ Ticking(j) /\ doing'[j] = doing[j]
  BY <1>7, <1>9
<1>13. LockHeld' /\ OneTickAtATime'
  BY <1>2, <1>12 DEF IInv, LockHeld, OneTickAtATime
<1>14. CallsCounted'
  BY <1>2 DEF CallsCounted
<1>15. P0Held'
  <2> SUFFICES ASSUME NEW x \in Sources, history'[x].p0
               PROVE  /\ P0Disabled(kv'[x])
                      /\ \A j \in Instances : Decides(j, x)' => P0Disabled(cache'[j][x])
    BY DEF P0Held
  <2>1. CASE history[x].p0 /\ (x # s \/ s \in lost \/ P0Disabled(copy))
    <3>1. P0Disabled(kv[x]) /\ \A j \in Instances : Decides(j, x) => P0Disabled(cache[j][x])
      BY <2>1 DEF IInv, P0Held
    <3> QED BY <1>3, <1>4, <1>10, <2>1, <3>1
  <2>2. CASE x = s /\ NobodyElseHolds(i, s) /\ s \notin lost /\ P0Disabled(copy)
    <3>1. \A j \in Instances \ {i} : ~Decides(j, s)
      <4> SUFFICES ASSUME NEW j \in Instances \ {i} PROVE ~Decides(j, s)
        OBVIOUS
      <4>1. doing[j] = Idle \/ (Calling(j) /\ doing[j].src # s)
        BY <2>2 DEF NobodyElseHolds
      <4> QED BY <4>1, DoingFacts DEF Decides, Calling
    <3> QED BY <1>4, <1>10, <2>2, <3>1
  <2> QED BY <2>1, <2>2
<1>16. StreaksHeld'
  <2> SUFFICES ASSUME NoFaultYet', NEW x \in Sources
               PROVE  /\ Faithful(kv[x], history[x])'
                      /\ \A j \in Instances : Ticking(j)' => Faithful(cache[j][x], history[x])'
    BY DEF StreaksHeld
  <2>1. /\ Counted(kv[x], history[x])
        /\ \A j \in Instances : Ticking(j) => Counted(cache[j][x], history[x])
    BY <1>2 DEF IInv, StreaksHeld, Faithful
  <2>2. /\ Counted(kv[x], history'[x])
        /\ \A j \in Instances : Ticking(j) => Counted(cache[j][x], history'[x])
    BY <2>1 DEF Counted
  <2>3. history'[x].streak \in Nat
    BY ConstantsOK DEF Histories
  <2>4. Counted(copy, history'[x])
    BY <2>3 DEF Counted
  <2> QED BY <1>2, <1>3, <1>4, <1>12, <2>2, <2>4 DEF Faithful
<1> QED BY <1>2, <1>8, <1>11, <1>13, <1>14, <1>15, <1>16 DEF IInv

LEMMA FinishDisableStep ==
  ASSUME IInv, NEW i \in Instances, FinishDisable(i)
  PROVE  IInv'
<1> DEFINE s     == doing[i].src
           cause == IF doing[i].task = "kill" THEN "p0" ELSE "forced"
           copy  == ForceDisable(cache[i][s], cause)
<1>1. PICK lost \in SUBSET {s} :
         /\ Calling(i)
         /\ Spend(0, Cardinality(lost))
         /\ Save(i, [cache[i] EXCEPT ![s] = ForceDisable(@, cause)], {s}, lost)
         /\ history' = [history EXCEPT ![s].p0 = P0After(i, s, cause, lost)]
         /\ doing' = [doing EXCEPT ![i] = Idle]
         /\ UNCHANGED <<lock, halt, cooldown, world>>
  BY Zenon DEF FinishDisable
<1>2. s \in Sources /\ cause \in {"forced", "p0"}
  BY <1>1, DoingFacts
<1>3. Sound(cache[i][s]) /\ cache[i] \in [Sources -> Statuses \cup {NotCached}]
  BY <1>1, <1>2, CopyFacts DEF Holds, IInv, TypeOK
<1> DEFINE p0 == P0After(i, s, cause, lost)
<1>4. p0 \in BOOLEAN
  BY Zenon DEF P0After
<1>5. p0 => \/ cause = "p0" /\ NobodyElseHolds(i, s) /\ s \notin lost
            \/ (cause = "p0" \/ s \in lost) /\ history[s].p0
  BY Zenon DEF P0After
<1>6. history' = [history EXCEPT ![s].p0 = p0]
  BY <1>1, Zenon
<1> HIDE DEF p0
<1>7. Sound(copy) /\ copy.cause = cause /\ Disabled(copy)
  BY <1>2, <1>3, ForceDisableFacts
<1>8. Save(i, [cache[i] EXCEPT ![s] = copy], {s}, lost)
  BY <1>1, <1>2, <1>3
<1> HIDE DEF copy
<1>9. P0Disabled(copy) <=> cause = "p0"
  BY <1>7 DEF P0Disabled
<1>10. history \in [Sources -> Histories]
  BY DEF IInv, TypeOK
<1>11. /\ history' \in [Sources -> Histories]
       /\ \A x \in Sources : /\ history'[x].streak = history[x].streak
                             /\ history'[x].streakAge = history[x].streakAge
                             /\ x # s => history'[x].p0 = history[x].p0
       /\ history'[s].p0 = p0
  BY <1>2, <1>4, <1>6, <1>10 DEF Histories
<1>12. history'[s].p0 =>
             \/ history[s].p0 /\ (s \in lost \/ P0Disabled(copy))
             \/ NobodyElseHolds(i, s) /\ s \notin lost /\ P0Disabled(copy)
  BY <1>5, <1>9, <1>11
<1>13. s = doing[i].src
  OBVIOUS
<1> HIDE DEF s, cause
<1> QED BY <1>1, <1>2, <1>7, <1>8, <1>11, <1>12, <1>13, CallStep

\* An unconfirmed activation never reaches a source whose P0 disable holds.
LEMMA FinishActivateStep ==
  ASSUME IInv, NEW i \in Instances, FinishActivate(i)
  PROVE  IInv'
<1> DEFINE s    == doing[i].src
           copy == ForceActivate(cache[i][s])
<1>1. PICK lost \in SUBSET {s} :
         /\ Calling(i)
         /\ doing[i].task \in {"activate", "confirm"}
         /\ ~NeedsConfirmation(i)
         /\ Spend(0, Cardinality(lost))
         /\ Save(i, [cache[i] EXCEPT ![s] = ForceActivate(@)], {s}, lost)
         /\ history' = IF doing[i].task = "confirm" /\ lost = {}
                       THEN [history EXCEPT ![s].p0 = FALSE] ELSE history
         /\ doing' = [doing EXCEPT ![i] = Idle]
         /\ UNCHANGED <<lock, halt, cooldown, world>>
  BY Zenon DEF FinishActivate
<1>2. s \in Sources
  BY <1>1, DoingFacts
<1>3. Sound(cache[i][s]) /\ cache[i] \in [Sources -> Statuses \cup {NotCached}]
  BY <1>1, <1>2, CopyFacts DEF Holds, IInv, TypeOK
<1>4. Sound(copy) /\ copy.cause = "none" /\ copy.failureCount = 0
  BY <1>3, ForceActivateFacts
<1>5. Save(i, [cache[i] EXCEPT ![s] = copy], {s}, lost)
  BY <1>1, <1>2, <1>3
<1>6. history \in [Sources -> Histories] /\ FALSE \in BOOLEAN
  BY DEF IInv, TypeOK
<1>7. history[s].p0 => P0Disabled(cache[i][s])
  BY <1>1, <1>2 DEF IInv, P0Held, Decides
<1>8. s = doing[i].src
  OBVIOUS
<1> HIDE DEF s, copy
<1>9. CASE doing[i].task = "confirm" /\ lost = {}
  <2>1. /\ history' \in [Sources -> Histories]
        /\ \A x \in Sources : /\ history'[x].streak = history[x].streak
                              /\ history'[x].streakAge = history[x].streakAge
                              /\ x # s => history'[x].p0 = history[x].p0
        /\ history'[s].p0 = FALSE
    BY <1>1, <1>2, <1>6, <1>9 DEF Histories
  <2> QED BY <1>1, <1>2, <1>4, <1>5, <1>8, <2>1, CallStep
<1>10. CASE ~(doing[i].task = "confirm" /\ lost = {})
  <2>1. history' = history
    BY <1>1, <1>10
  <2>2. history[s].p0 => s \in lost
    <3>1. CASE doing[i].task = "activate"
      BY <1>1, <1>7, <1>8, <3>1 DEF NeedsConfirmation, P0Disabled
    <3>2. CASE doing[i].task = "confirm"
      BY <1>10, <3>2
    <3> QED BY <1>1, <3>1, <3>2
  <2> QED BY <1>1, <1>2, <1>4, <1>5, <1>6, <1>8, <2>1, <2>2, CallStep
<1> QED BY <1>9, <1>10

\* An invocation that ends without a write.
LEMMA EndFacts ==
  ASSUME IInv, NEW i \in Instances, doing' = [doing EXCEPT ![i] = Idle]
  PROVE  /\ doing' \in [Instances -> Tasks \cup {Idle}] /\ doing'[i] = Idle
         /\ \A j \in Instances : /\ Ticking(j)' => Ticking(j) /\ doing'[j].age = doing[j].age
                                 /\ Calling(j)' => doing'[j] = doing[j]
<1>1. /\ doing'[i] = Idle /\ \A j \in Instances \ {i} : doing'[j] = doing[j]
      /\ doing' \in [Instances -> Tasks \cup {Idle}]
  BY DEF IInv, TypeOK
<1> QED BY <1>1 DEF Ticking, Calling, Idle, Phases

LEMMA RefuseActivateStep ==
  ASSUME IInv, NEW i \in Instances, RefuseActivate(i)
  PROVE  IInv'
<1>1. /\ doing' = [doing EXCEPT ![i] = Idle]
      /\ UNCHANGED <<kv, cache, lock, halt, cooldown, world, budget, history>>
  BY DEF RefuseActivate
<1>2. /\ BudgetOK' /\ (NoFaultYet' => NoFaultYet) /\ (NoCallYet' => NoCallYet)
  BY <1>1, BudgetKept DEF IInv
<1>3. /\ halt' \in BOOLEAN /\ cooldown' \in Never .. Cooldown /\ world' \in [Sources -> World]
      /\ cache' \in [Instances -> [Sources -> Statuses \cup {NotCached}]]
  BY <1>1 DEF IInv, TypeOK
<1> QED BY <1>1, <1>2, <1>3, EndFacts, QuietStep

LEMMA AbortStep ==
  ASSUME IInv, NEW i \in Instances, Abort(i)
  PROVE  IInv'
<1> DEFINE none == [s \in Sources |-> NotCached]
<1>1. /\ Spend(0, 1) /\ doing' = [doing EXCEPT ![i] = Idle]
      /\ cache' = cache \/ cache' = [cache EXCEPT ![i] = none]
      /\ UNCHANGED <<kv, lock, halt, cooldown, world, history>>
  BY Zenon DEF Abort
<1>2. /\ BudgetOK' /\ (NoFaultYet' => NoFaultYet) /\ (NoCallYet' => NoCallYet)
  <2>1. 0 \in Nat /\ 1 \in Nat
    OBVIOUS
  <2> QED BY <1>1, <2>1, SpendFacts DEF IInv
<1>3. /\ halt' \in BOOLEAN /\ cooldown' \in Never .. Cooldown /\ world' \in [Sources -> World]
      /\ cache' \in [Instances -> [Sources -> Statuses \cup {NotCached}]]
  BY <1>1 DEF IInv, TypeOK
<1>4. \A j \in Instances, s \in Sources :
         \/ cache'[j][s] = cache[j][s]
         \/ cache'[j][s] = NotCached /\ doing'[j] = Idle
  <2>1. doing'[i] = Idle
    BY <1>1, EndFacts
  <2> QED BY <1>1, <2>1 DEF IInv, TypeOK
<1> HIDE DEF none
<1> QED BY <1>1, <1>2, <1>3, <1>4, EndFacts, QuietStep

\* Steps that touch neither statuses nor invocations.
LEMMA ClearTripStep ==
  ASSUME IInv, ClearTrip
  PROVE  IInv'
<1>1. /\ Spend(1, 0) /\ halt' = FALSE
      /\ UNCHANGED <<kv, cache, doing, lock, cooldown, world, history>>
  BY DEF ClearTrip
<1>2. /\ BudgetOK' /\ (NoFaultYet' => NoFaultYet) /\ (NoCallYet' => NoCallYet)
  BY <1>1, SpendFacts DEF IInv
<1>3. /\ halt' \in BOOLEAN /\ cooldown' \in Never .. Cooldown /\ world' \in [Sources -> World]
      /\ cache' \in [Instances -> [Sources -> Statuses \cup {NotCached}]]
      /\ doing' \in [Instances -> Tasks \cup {Idle}]
  BY <1>1 DEF IInv, TypeOK
<1>4. \A i \in Instances : /\ Ticking(i)' => Ticking(i) /\ doing'[i].age = doing[i].age
                           /\ Calling(i)' => doing'[i] = doing[i]
  BY <1>1 DEF Ticking
<1> QED BY <1>1, <1>2, <1>3, <1>4, QuietStep

LEMMA TurnStep ==
  ASSUME IInv, NEW s \in Sources, NEW w \in World, Turn(s, w)
  PROVE  IInv'
<1>1. /\ world' = [world EXCEPT ![s] = w]
      /\ UNCHANGED <<kv, cache, doing, lock, halt, cooldown, budget, history>>
  BY DEF Turn
<1>2. /\ BudgetOK' /\ (NoFaultYet' => NoFaultYet) /\ (NoCallYet' => NoCallYet)
  BY <1>1, BudgetKept DEF IInv
<1>3. /\ halt' \in BOOLEAN /\ cooldown' \in Never .. Cooldown /\ world' \in [Sources -> World]
      /\ cache' \in [Instances -> [Sources -> Statuses \cup {NotCached}]]
      /\ doing' \in [Instances -> Tasks \cup {Idle}]
  BY <1>1 DEF IInv, TypeOK
<1>4. \A i \in Instances : /\ Ticking(i)' => Ticking(i) /\ doing'[i].age = doing[i].age
                           /\ Calling(i)' => doing'[i] = doing[i]
  BY <1>1 DEF Ticking
<1> QED BY <1>1, <1>2, <1>3, <1>4, QuietStep

-----------------------------------------------------------------------------
(* The clock.                                                              *)

LEMMA ElapseStep ==
  ASSUME IInv, Elapse
  PROVE  IInv'
<1>1. /\ \A i \in Instances : doing[i] # Idle => doing[i].age < MaxDuration
      /\ doing' = [i \in Instances |-> IF doing[i] = Idle THEN Idle
                                       ELSE [doing[i] EXCEPT !.age = @ + 1]]
      /\ kv' = [s \in Sources |-> Aged(kv[s])]
      /\ cache' = [i \in Instances |-> [s \in Sources |->
                      IF cache[i][s] = NotCached THEN NotCached ELSE Aged(cache[i][s])]]
      /\ lock' = Older(lock, LockTtl)
      /\ cooldown' = Older(cooldown, Cooldown)
      /\ history' = [s \in Sources |-> [history[s] EXCEPT
                        !.streakAge = Older(@, MinFailingWindow)]]
      /\ UNCHANGED <<halt, world, budget>>
  BY DEF Elapse
<1>2. /\ BudgetOK' /\ (NoFaultYet' <=> NoFaultYet) /\ (NoCallYet' <=> NoCallYet)
  BY <1>1, BudgetKept DEF IInv
<1>3. ASSUME NEW i \in Instances
      PROVE  /\ doing'[i] \in Tasks \cup {Idle}
             /\ Ticking(i)' <=> Ticking(i)
             /\ Calling(i)' <=> Calling(i)
             /\ Ticking(i) => doing'[i].age = doing[i].age + 1
             /\ Calling(i) => doing'[i].src = doing[i].src /\ doing'[i].task = doing[i].task
  <2>1. doing[i] \in Tasks \cup {Idle}
    BY DoingFacts
  <2>2. CASE doing[i] = Idle
    <3>1. doing'[i] = Idle
      BY <1>1, <2>2
    <3> QED BY <2>2, <3>1 DEF Ticking, Calling, Idle, Phases
  <2>3. CASE doing[i] # Idle
    <3>1. doing'[i] = [doing[i] EXCEPT !.age = @ + 1]
      BY <1>1, <2>3
    <3>2. /\ doing[i].age < MaxDuration /\ doing[i].age \in 0 .. MaxDuration
          /\ doing[i].age + 1 \in 0 .. MaxDuration
      BY <1>1, <2>1, <2>3, TaskFacts, ConstantsOK
    <3>3. CASE doing[i].task \in Phases
      <4>1. doing[i] \in [task : Phases, age : 0 .. MaxDuration]
        BY <2>1, <3>3, TaskFacts
      <4> QED BY <3>1, <3>2, <3>3, <4>1 DEF Tasks, Ticking, Calling
    <3>4. CASE doing[i].task \notin Phases
      <4>1. doing[i] \in [task : Commands, src : Sources, age : 0 .. MaxDuration]
        BY <2>1, <2>3, <3>4, TaskFacts
      <4> QED BY <3>1, <3>2, <3>4, <4>1 DEF Tasks, Ticking, Calling
    <3> QED BY <3>3, <3>4
  <2> QED BY <2>2, <2>3
<1>4. ASSUME NEW s \in Sources
      PROVE  /\ kv'[s] = Aged(kv[s])
             /\ history'[s] \in Histories /\ history'[s].p0 = history[s].p0
             /\ history'[s].streak = history[s].streak
             /\ history'[s].streakAge = Older(history[s].streakAge, MinFailingWindow)
  <2> DEFINE a == Older(history[s].streakAge, MinFailingWindow)
  <2>1. history[s] \in Histories /\ history[s].streakAge \in Never .. MinFailingWindow
    BY StoreFacts DEF Histories
  <2>2. a \in Never .. MinFailingWindow
    BY <2>1, CappedFacts, ConstantsOK
  <2>3. history'[s] = [history[s] EXCEPT !.streakAge = a]
    BY <1>1, <2>1 DEF Histories
  <2> HIDE DEF a
  <2>4. /\ history'[s] \in Histories /\ history'[s].p0 = history[s].p0
        /\ history'[s].streak = history[s].streak /\ history'[s].streakAge = a
    BY <2>1, <2>2, <2>3 DEF Histories
  <2> QED BY <1>1, <2>4 DEF a
<1>5. ASSUME NEW i \in Instances, NEW s \in Sources
      PROVE  /\ cache'[i][s] = NotCached <=> cache[i][s] = NotCached
             /\ cache[i][s] # NotCached => cache'[i][s] = Aged(cache[i][s]) /\ Sound(cache'[i][s])
             /\ cache'[i][s] \in Statuses \cup {NotCached}
  BY <1>1, CopyFacts, AgedFacts, NotCachedIsNoStatus DEF Sound
<1>6. TypeOK'
  <2>1. kv' \in [Sources -> Statuses] /\ \A s \in Sources : WellFormed(kv'[s])
    BY <1>1, StoreFacts, AgedFacts DEF Sound
  <2>2. cache' \in [Instances -> [Sources -> Statuses \cup {NotCached}]]
    <3>1. cache' = [i \in Instances |-> [s \in Sources |-> cache'[i][s]]]
      BY <1>1
    <3> QED BY <1>5, <3>1
  <2>3. doing' \in [Instances -> Tasks \cup {Idle}]
    <3>1. doing' = [i \in Instances |-> doing'[i]]
      BY <1>1
    <3> QED BY <1>3, <3>1
  <2>4. history' \in [Sources -> Histories]
    <3>1. history' = [s \in Sources |-> history'[s]]
      BY <1>1
    <3> QED BY <1>4, <3>1
  <2>5. lock' \in Never .. LockTtl /\ cooldown' \in Never .. Cooldown
    BY <1>1, CappedFacts, ConstantsOK DEF IInv, TypeOK
  <2> QED BY <1>1, <2>1, <2>2, <2>3, <2>4, <2>5 DEF IInv, TypeOK
<1>7. \A i \in Instances, s \in Sources : /\ Holds(i, s)' <=> Holds(i, s)
                                          /\ Decides(i, s)' <=> Decides(i, s)
  BY <1>3 DEF Holds, Decides
<1>8. CopiesSound'
  BY <1>5, <1>7 DEF IInv, CopiesSound, Sound
<1>9. LockHeld'
  <2> SUFFICES ASSUME NoFaultYet', NEW i \in Instances, Ticking(i)'
               PROVE  lock' = doing'[i].age
    BY DEF LockHeld
  <2>1. Ticking(i) /\ lock = doing[i].age /\ doing'[i].age = doing[i].age + 1
    BY <1>2, <1>3 DEF IInv, LockHeld
  <2>2. doing[i].age \in 0 .. MaxDuration /\ doing[i].age < MaxDuration
    BY <1>1, <2>1, DoingFacts
  <2> QED BY <1>1, <2>1, <2>2, ConstantsOK DEF Older, Capped
<1>10. OneTickAtATime' /\ CallsCounted'
  BY <1>2, <1>3 DEF IInv, OneTickAtATime, CallsCounted
<1>11. \A t : Sound(t) => (P0Disabled(Aged(t)) <=> P0Disabled(t))
  BY AgedFacts DEF P0Disabled, Disabled
<1>12. P0Held'
  <2> SUFFICES ASSUME NEW s \in Sources, history'[s].p0
               PROVE  /\ P0Disabled(kv'[s])
                      /\ \A i \in Instances : Decides(i, s)' => P0Disabled(cache'[i][s])
    BY DEF P0Held
  <2>1. P0Disabled(kv[s]) /\ \A i \in Instances : Decides(i, s) => P0Disabled(cache[i][s])
    BY <1>4 DEF IInv, P0Held
  <2>2. \A i \in Instances : Decides(i, s) => Holds(i, s)
    BY DEF Decides, Holds
  <2>3. \A i \in Instances : Holds(i, s) => Sound(cache[i][s]) /\ cache'[i][s] = Aged(cache[i][s])
    BY <1>5, CopyFacts DEF IInv, CopiesSound
  <2> QED BY <1>4, <1>7, <1>11, <2>1, <2>2, <2>3, StoreFacts
<1>13. ASSUME NEW t, Sound(t), NEW s \in Sources, Faithful(t, history[s])
       PROVE  Faithful(Aged(t), history'[s])
  <2>1. /\ Aged(t).cause = t.cause /\ Aged(t).failureCount = t.failureCount
        /\ Aged(t).failingSince = Older(t.failingSince, MinFailingWindow)
    BY <1>13, AgedFacts
  <2>2. Counted(Aged(t), history'[s])
    BY <1>4, <1>13, <2>1 DEF Faithful, Counted
  <2>3. ASSUME Windowed(t, history[s])
        PROVE  Windowed(Aged(t), history'[s])
    <3> DEFINE a == t.failingSince
               b == history[s].streakAge
               a1 == Older(a, MinFailingWindow)
               b1 == Older(b, MinFailingWindow)
    <3>1. a \in Never .. MinFailingWindow /\ b \in Never .. MinFailingWindow
      BY <1>13, StoreFacts DEF Sound, Statuses, Histories
    <3>2. /\ a <= b => a1 <= b1 
          /\ b1 >= b /\ a1 \in Never .. MinFailingWindow /\ b1 \in Never .. MinFailingWindow
      BY <3>1, CappedFacts, ConstantsOK
    <3>3. /\ a <= b /\ (t.cause = "health" => b >= MinFailingWindow)
          /\ Aged(t).failingSince = a1 /\ history'[s].streakAge = b1
      BY <1>4, <2>1, <2>3 DEF Windowed
    <3> HIDE DEF a, b, a1, b1
    <3> QED BY <2>1, <3>1, <3>2, <3>3, ConstantsOK DEF Windowed
  <2> QED BY <1>13, <2>2, <2>3 DEF Faithful
<1>14. StreaksHeld'
  <2> SUFFICES ASSUME NoFaultYet', NEW s \in Sources
               PROVE  /\ Faithful(kv[s], history[s])'
                      /\ \A i \in Instances : Ticking(i)' => Faithful(cache[i][s], history[s])'
    BY DEF StreaksHeld
  <2>1. /\ Faithful(kv[s], history[s]) /\ Sound(kv[s])
        /\ \A i \in Instances : Ticking(i) => Faithful(cache[i][s], history[s])
    BY <1>2, StoreFacts DEF IInv, StreaksHeld
  <2>2. \A i \in Instances : Ticking(i) => Sound(cache[i][s]) /\ cache'[i][s] = Aged(cache[i][s])
    BY <1>5, CopyFacts DEF IInv, CopiesSound, Holds
  <2>3. Faithful(kv'[s], history'[s])
    BY <1>4, <1>13, <2>1
  <2>4. \A i \in Instances : Ticking(i)' => Faithful(cache'[i][s], history'[s])
    BY <1>3, <1>13, <2>1, <2>2
  <2> QED BY <1>2, <2>3, <2>4 DEF Faithful
<1> QED BY <1>2, <1>6, <1>8, <1>9, <1>10, <1>12, <1>14 DEF IInv

-----------------------------------------------------------------------------
(* The theorems.                                                           *)

LEMMA InitInv == Init => IInv
<1> SUFFICES ASSUME Init PROVE IInv
  OBVIOUS
<1> DEFINE h0 == [p0 |-> FALSE, streak |-> 0, streakAge |-> Never]
<1>1. /\ kv = [s \in Sources |-> DefaultStatus]
      /\ cache = [i \in Instances |-> [s \in Sources |-> NotCached]]
      /\ doing = [i \in Instances |-> Idle]
      /\ lock = Never /\ halt = FALSE /\ cooldown = Never /\ world \in [Sources -> World]
      /\ budget = [calls |-> MaxCalls, faults |-> MaxFaults]
      /\ history = [s \in Sources |-> h0]
  BY DEF Init
<1>2. h0 \in Histories
  BY ConstantsOK DEF Histories
<1>3. \A i \in Instances : ~Ticking(i) /\ ~Calling(i)
  BY <1>1 DEF Ticking, Calling, Idle, Phases
<1>4. TypeOK
  <2>1. kv \in [Sources -> Statuses] /\ \A s \in Sources : WellFormed(kv[s])
    BY <1>1, DefaultSound DEF Sound
  <2>2. /\ cache \in [Instances -> [Sources -> Statuses \cup {NotCached}]]
        /\ doing \in [Instances -> Tasks \cup {Idle}]
    BY <1>1
  <2>3. history \in [Sources -> Histories]
    <3> HIDE DEF h0
    <3> QED BY <1>1, <1>2
  <2>4. lock \in Never .. LockTtl /\ cooldown \in Never .. Cooldown
    BY <1>1, ConstantsOK
  <2>5. halt \in BOOLEAN /\ world \in [Sources -> World]
    BY <1>1, Zenon
  <2> QED BY <2>1, <2>2, <2>3, <2>4, <2>5 DEF TypeOK
<1>5. BudgetOK
  BY <1>1, ConstantsOK DEF BudgetOK
<1>6. CopiesSound /\ LockHeld /\ OneTickAtATime /\ CallsCounted
  BY <1>1, <1>3 DEF CopiesSound, LockHeld, OneTickAtATime, CallsCounted, Holds
<1>7. P0Held
  BY <1>1 DEF P0Held
<1>8. StreaksHeld
  BY <1>1, <1>3, DefaultSound, ConstantsOK DEF StreaksHeld, Faithful, Counted, Windowed
<1> QED BY <1>4, <1>5, <1>6, <1>7, <1>8 DEF IInv

LEMMA StutterStep ==
  ASSUME IInv, UNCHANGED vars
  PROVE  IInv'
<1>1. UNCHANGED <<kv, cache, doing, lock, halt, cooldown, world, budget, history>>
  BY DEF vars
<1>2. /\ BudgetOK' /\ (NoFaultYet' => NoFaultYet) /\ (NoCallYet' => NoCallYet)
  BY <1>1, BudgetKept DEF IInv
<1>3. /\ halt' \in BOOLEAN /\ cooldown' \in Never .. Cooldown /\ world' \in [Sources -> World]
      /\ cache' \in [Instances -> [Sources -> Statuses \cup {NotCached}]]
      /\ doing' \in [Instances -> Tasks \cup {Idle}]
  BY <1>1 DEF IInv, TypeOK
<1>4. \A i \in Instances : /\ Ticking(i)' => Ticking(i) /\ doing'[i].age = doing[i].age
                           /\ Calling(i)' => doing'[i] = doing[i]
  BY <1>1 DEF Ticking
<1> QED BY <1>1, <1>2, <1>3, <1>4, QuietStep

\* The invariant is inductive.
THEOREM Invariance == Spec => []IInv
<1>1. ASSUME IInv, [Next]_vars
      PROVE  IInv'
  <2>1. CASE \E i \in Instances : StartTick(i)
    BY <1>1, <2>1, StartTickStep
  <2>2. CASE \E i \in Instances : Tick(i)
    BY <1>1, <2>2, TickStep
  <2>3. CASE \E i \in Instances : Finish(i)
    BY <1>1, <2>3, FinishDisableStep, FinishActivateStep, RefuseActivateStep DEF Finish
  <2>4. CASE \E i \in Instances : Abort(i)
    BY <1>1, <2>4, AbortStep
  <2>5. CASE \E i \in Instances, task \in Commands, s \in Sources : BeginCall(i, task, s)
    BY <1>1, <2>5, BeginCallStep
  <2>6. CASE \E s \in Sources, w \in World : Turn(s, w)
    BY <1>1, <2>6, TurnStep
  <2>7. CASE ClearTrip
    BY <1>1, <2>7, ClearTripStep
  <2>8. CASE Elapse
    BY <1>1, <2>8, ElapseStep
  <2>9. CASE UNCHANGED vars
    BY <1>1, <2>9, StutterStep
  <2> QED BY <1>1, <2>1, <2>2, <2>3, <2>4, <2>5, <2>6, <2>7, <2>8, <2>9 DEF Next
<1> QED BY <1>1, InitInv, PTL DEF Spec

\* The stored and the cached statuses, the lock, the circuit breaker's keys and the
\* invocations have their types, and the fields of a stored status agree.
THEOREM TypeCorrect == Spec => []TypeOK
<1>1. IInv => TypeOK
  BY DEF IInv
<1> QED BY <1>1, Invariance, PTL

\* A P0 disable that was written while no other invocation held the status stays in the
\* store until an operator confirms an activation, another forced disable replaces it, or
\* an unreadable store loses it: forceDisable, forceActivate and recordHealthCheck of
\* source-state-machine.ts, and checkAutoRecovery.
THEOREM P0DisablesHold == Spec => []P0DisableHolds
<1>1. IInv => P0DisableHolds
  BY DEF IInv, P0Held, P0Disabled, P0DisableHolds
<1> QED BY <1>1, Invariance, PTL

\* Without faults of the store, a health disable counts failures that really came in a
\* row, and as long as no call wrote a status, over the whole window: recordHealthCheck.
THEOREM HealthDisablesAreEarned == Spec => []HealthDisableIsEarned
<1>1. IInv => HealthDisableIsEarned
  BY DEF IInv, StreaksHeld, Faithful, Counted, Windowed, HealthDisableIsEarned
<1> QED BY <1>1, Invariance, PTL

\* Without faults of the store, two ticks never run at once: the lock outlives every
\* invocation (runMonitoringTick and its lock of LOCK_TTL_SECONDS).
THEOREM TicksAreAlone == Spec => []OneTickAtATime
<1>1. IInv => OneTickAtATime
  BY DEF IInv
<1> QED BY <1>1, Invariance, PTL
=============================================================================
