\* The run edge: a deletion whose answer is lost.
SPECIFICATION Spec
CONSTANTS
    b1 = b1
    b2 = b2
    m1 = m1
    m2 = m2
    m3 = m3
    m4 = m4
    Bot = {b1, b2}
    Msg = {m1, m2, m3, m4}
    NoMsg = NoMsg
    Home <- MCHome
    Shape <- MCShape
    Gated = {b1}
    Enforcing = {b1}
    Limit = 2
    FailureThreshold = 2
    MaxCommands = 1
    MaxStops = 1
CHECK_DEADLOCK FALSE
INVARIANT
    RemovedIsAudited
