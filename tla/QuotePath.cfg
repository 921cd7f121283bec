CONSTANTS
    FailureThreshold = 2
    Cooldown = 1
    LongestCooldown = 2
    Requests = {r1, r2}
    None = None
    LruTtl = 1
    DampenerTtl = 2
    KvTtl = 2
    KvDelay = 1
    MaxChanges = 1
SPECIFICATION Spec
CHECK_DEADLOCK FALSE
INVARIANTS
    TypeOK
    QuotesAreFresh
PROPERTIES
    RequestsAreAnswered
    SourceIsAskedAgain
