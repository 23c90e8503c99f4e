\* Two requests, every fault, one process exit.
SPECIFICATION Spec
CONSTANTS
    Request = {r1, r2}
    picA = picA
    picB = picB
    picC = picC
    Content = {picA, picB, picC}
    Undecodable = Undecodable
    None = None
    PHashOf <- MCPHashOf
    Oracle <- MCOracle
    Extractions <- NoExtractions
    Hooks = {"audit"}
    UrlChecker = TRUE
    Frames = FALSE
    Analyzers = {TRUE, FALSE}
    Weaviate = TRUE
    Faults = {"L1", "L2", "L3", "normalizer", "analyzer", "client", "eviction"}
    MaxRestarts = 1
INVARIANTS
    TypeOK
    CacheProvenance
    AnswerProvenance
    HooksMatchAnswers
PROPERTY
    KeepsPromise
