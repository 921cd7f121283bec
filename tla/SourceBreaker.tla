---------------------------- MODULE SourceBreaker ----------------------------
(***************************************************************************)
(* The circuit breaker of one quote source in one server instance:         *)
(* class CircuitBreaker of src/src/lib/adapters/circuit-breaker.ts, as     *)
(* operators on its record.  since is the time passed after the last       *)
(* failure, up to the longest cooldown; halfOpenAttempts is left out: with *)
(* halfOpenMaxAttempts at 1 it is never read above 0.                      *)
(***************************************************************************)
EXTENDS Naturals

CONSTANTS
    FailureThreshold,
    Cooldown,               \* cooldownMs
    LongestCooldown         \* of rateLimitCooldownMs and Retry-After

ASSUME SourceBreakerAssumption ==
    /\ FailureThreshold \in Nat \ {0}
    /\ Cooldown \in Nat \ {0}
    /\ LongestCooldown \in Nat /\ LongestCooldown >= Cooldown

Breakers == [state : {"CLOSED", "OPEN", "HALF_OPEN"},
             failures : 0 .. FailureThreshold,
             since : 0 .. LongestCooldown,
             cooldown : 1 .. LongestCooldown]

NewBreaker ==
    [state |-> "CLOSED", failures |-> 0, since |-> LongestCooldown, cooldown |-> Cooldown]

\* Slip: half open, one request has gone to test the source, and no other may.
BlocksWhileTested(b) == b.state = "HALF_OPEN" \/ (b.state = "OPEN" /\ b.since < b.cooldown)

\* What isOpen answers ...
Blocks(b) == b.state = "OPEN" /\ b.since < b.cooldown

\* ... and what it leaves: a breaker whose cooldown has elapsed is half open.
Asked(b) == IF b.state = "OPEN" /\ b.since >= b.cooldown
              THEN [b EXCEPT !.state = "HALF_OPEN"]
              ELSE b

OnSuccess(b) ==
    [b EXCEPT !.state = IF @ = "HALF_OPEN" THEN "CLOSED" ELSE @,
              !.failures = 0,
              !.cooldown = Cooldown]

Capped(n) == IF n > FailureThreshold THEN FailureThreshold ELSE n

Opens(b) ==
    \/ b.state = "HALF_OPEN"
    \/ b.state = "CLOSED" /\ b.failures + 1 >= FailureThreshold

OnFailure(b) ==
    LET counted == [b EXCEPT !.failures = Capped(@ + 1), !.since = 0] IN
      IF Opens(b)
        THEN [counted EXCEPT !.state = "OPEN", !.cooldown = Cooldown]
        ELSE counted

\* HTTP 429: the upstream asks to be left alone for so long.
OnRateLimit(b, cooldown) ==
    [state |-> "OPEN", failures |-> Capped(b.failures + 1), since |-> 0,
     cooldown |-> cooldown]

ForceOpen(b) ==
    [state |-> "OPEN", failures |-> FailureThreshold, since |-> 0, cooldown |-> Cooldown]

Later(b) == [b EXCEPT !.since = IF @ < LongestCooldown THEN @ + 1 ELSE @]

=============================================================================
