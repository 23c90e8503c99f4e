\* Two calls of each kind about one content, and one stop of the Engine; two
\* checks of one URL at a time, which changes its reputation twice.
SPECIFICATION MCSpec
CONSTANTS
    c = c
    q1 = q1
    q2 = q2
    a1 = a1
    a2 = a2
    Content = {c}
    Asker = {q1, q2}
    Updater = {a1, a2}
    Event = {a1, a2}
    For <- MCFor
    MaxStops = 1
    Checker = {g1, g2}
    MaxTurns = 2
CHECK_DEADLOCK FALSE
INVARIANTS
    TypeOK
    UrlTypeOK
    ReleasedOnlyIfAllowed
    ReportIsOwn
PROPERTIES
    TerminalSurvives
    ThreatStays
    VerdictsCatchUp
