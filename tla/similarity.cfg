\* Every pair of 64-bit hashes; every scoring of two frames by two categories.
SPECIFICATION Spec
CONSTANTS
    Bits = 64
    Names = {n1, n2}
    Configs <- TwoCategories
    MaxScore = 3
    Single <- Coarse
    MaxImages = 2
INVARIANTS
    NearIsIndexed
    IndexReach
    BlockedByAPrompt
\* A pair of hashes has only so many bits, a call so many frames.
CHECK_DEADLOCK FALSE
