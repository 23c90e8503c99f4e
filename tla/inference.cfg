\* Two callers behind a breaker with small thresholds; two reloads between two
\* configurations.
SPECIFICATION MCFairSpec
CONSTANTS
    Caller = {c1, c2}
    small = small
    large = large
    Config = {small, large}
    Prompts <- MCPrompts
    Inline <- Shipped
    Malformed = TRUE
    MaxReloads = 2
    Attempts = 2
    FailureThreshold = 2
    MinRequests = 3
    RatePercent = 40
    HalfOpenMaxCalls = 2
    MaxRequests = 3
INVARIANTS
    TypeOK
    OneConfig
    BreakerCountsCalls
PROPERTIES
    LateOutcomesMoveNothing
    EveryCallEnds
    ProbesDecide
