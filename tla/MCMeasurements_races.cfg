SPECIFICATION Spec
CONSTANTS
    a1 = a1
    a2 = a2
    c1 = c1
    c2 = c2
    s1 = s1
    s2 = s2
    u1 = u1
    u2 = u2
    None = None
    User = {u1}
    Submission = {s1}
    Canceller = {c1, c2}
    Agent = {a1, a2}
    Limit <- LimitOfTwo
    Metadata <- AgentLists
    MaxProbes = 2
    MaxBatches = 2
    MaxDay = 0
    Faults = TRUE
    InOrder = FALSE
VIEW HealthView
INVARIANTS
    FullInv
    CompleteMeansAllSent
    ReportsFindTheirRow
    ClaimsShareOutRows
    RejectedLeavesNothing
    AnswerMatchesCharge
PROPERTIES
    RowsPersist
    CancelIsDecisive
CHECK_DEADLOCK FALSE
