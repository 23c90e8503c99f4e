\* A reload of a file without input_ids, as the repository ships it.
SPECIFICATION MCSpec
CONSTANTS
    Caller = {c1, c2}
    small = small
    large = large
    Config = {small, large}
    Prompts <- MCPrompts
    Inline <- Shipped
    Malformed = TRUE
    MaxReloads = 1
    Attempts = 2
    FailureThreshold = 2
    MinRequests = 3
    RatePercent = 40
    HalfOpenMaxCalls = 2
    MaxRequests = 3
INVARIANT
    SighupKeepsServing
