\* Two requests on healthy stores, where normalizing and analyzing may fail.
SPECIFICATION FairSpec
CONSTANTS
    Request = {r1, r2}
    picA = picA
    picB = picB
    picC = picC
    Content = {picA, picB, picC}
    Undecodable = Undecodable
    None = None
    PHashOf <- MCPHashOf
    Oracle <- MCOracle
    Extractions <- MCExtractions
    Hooks = {"audit"}
    UrlChecker = TRUE
    Frames = TRUE
    Analyzers = {TRUE}
    Weaviate = TRUE
    Faults = {"normalizer", "analyzer"}
    MaxRestarts = 0
INVARIANTS
    BlockedFrameBlocksVideo
    LevelsFilledTogether
PROPERTIES
    CachedContentIsAnswered
    EveryRequestEnds
