SPECIFICATION Spec
CONSTANTS
    a1 = a1
    a2 = a2
    k1 = k1
    k2 = k2
    Agent = {a1}
    Secret = {x, y}
    Call = {k1, k2}
    None = None
    MaxAge = 3
    Period = 2
    Latency = 2
    Behind = 1
    Ahead = 1
    MaxTime = 9
    Restarts = TRUE
INVARIANTS
    IInv
    EligibleReportedLately
    ListedReportedRecently
PROPERTIES
    ReportingAgentsStay
    RecordsAreKept
SYMMETRY Calls
CHECK_DEADLOCK FALSE
