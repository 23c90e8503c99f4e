\* One request is degraded to what another one stored.
SPECIFICATION Spec
CONSTANTS
    Request = {r1, r2}
    picA = picA
    picB = picB
    picC = picC
    Content = {picA, picB, picC}
    Undecodable = Undecodable
    None = None
    PHashOf <- MCPHashOf
    Oracle <- MCOracle
    Extractions <- NoExtractions
    Hooks = {"audit"}
    UrlChecker = FALSE
    Frames = FALSE
    Analyzers = {TRUE}
    Weaviate = TRUE
    Faults = {"analyzer"}
    MaxRestarts = 0
INVARIANT
    EveryDecisionAudited
