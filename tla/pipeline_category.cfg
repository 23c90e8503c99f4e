\* The categories as inference/config.yaml names them.
SPECIFICATION Spec
CONSTANTS
    Request = {r1}
    picA = picA
    picB = picB
    picC = picC
    Content = {picA, picB, picC}
    Undecodable = Undecodable
    None = None
    PHashOf <- MCPHashOf
    Oracle <- MinorsOracle
    Extractions <- NoExtractions
    Hooks = {"audit"}
    UrlChecker = FALSE
    Frames = FALSE
    Analyzers = {TRUE}
    Weaviate = TRUE
    Faults = {}
    MaxRestarts = 0
INVARIANT
    BlockedIsNotSafe
