SPECIFICATION Spec
CONSTANTS
    s1 = s1
    s2 = s2
    i1 = i1
    i2 = i2
    FailuresToDegraded = 1
    FailuresToDisabled = 2
    SuccessesToActive = 1
    MinFailingWindow = 3
    DisabledReprobe = 1
    AutoRecovery = 1
    CascadeWindow = 0
    RateLimitAlertAfter = 1
    RateLimitAlertCooldown = 1
    Sources = {s1}
    Instances = {i1, i2}
    MinActive = 1
    Correlated = 2
    Majority = 2
    Cascade = 2
    Cooldown = 1
    LockTtl = 2
    MaxDuration = 1
    ProbeAnswers = {"ok", "fail"}
    QuoteAnswers = {"quote"}
    Tampering = {TRUE, FALSE}
    MaxCalls = 1
    MaxFaults = 1
SYMMETRY InstanceSymmetry
INVARIANTS
    TypeOK
    P0DisableHolds
    HealthDisableIsEarned
    OneTickAtATime
CHECK_DEADLOCK FALSE
