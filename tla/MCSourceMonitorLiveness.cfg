SPECIFICATION FairSpec
CONSTANTS
    s1 = s1
    s2 = s2
    i1 = i1
    i2 = i2
    FailuresToDegraded = 1
    FailuresToDisabled = 2
    SuccessesToActive = 1
    MinFailingWindow = 0
    DisabledReprobe = 1
    AutoRecovery = 1
    CascadeWindow = 0
    RateLimitAlertAfter = 1
    RateLimitAlertCooldown = 1
    Sources = {s1}
    Instances = {i1}
    MinActive = 1
    Correlated = 2
    Majority = 1
    Cascade = 2
    Cooldown = 2
    LockTtl = 1
    MaxDuration = 0
    ProbeAnswers = {"ok", "fail", "slow", "limited"}
    QuoteAnswers = {"quote", "limited"}
    Tampering = {FALSE}
    MaxCalls = 1
    MaxFaults = 1
PROPERTIES
    SourcesRecover
    MassDisablementHalts
CHECK_DEADLOCK FALSE
